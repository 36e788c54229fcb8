# A verification project for GoSQLGuard

GoSQLGuard backs up MySQL servers on a schedule or by hand, stores the dumps
locally and in S3, keeps a record of every backup, and removes old backups.
This directory holds TLA+ modules translated from its Go source, the TLC
configurations that check them on small instances, and proofs that TLAPS
checks for every instance. `PROJECT.json` lists the runs, the source lines
every definition stands for, a mutation of the code that breaks each property,
the hazards the properties are for, and the theorems.

    tlc -workers 2 -config MCMetadataStore.cfg MCMetadataStore
    tlapm FileStore_proofs.tla

## 1. Inventory

| component | state | operations | depends on |
|---|---|---|---|
| file metadata store, `pkg/metadata/metadata.go` | the log of records and two totals in memory under a mutex; `metadata.json` | create, update status, update upload, update log path, mark deleted, purge, load, save | disk, clock |
| backup pipeline, `pkg/backup/backup.go` | the local variables of each run; files; objects | `PerformBackup`, `backupDatabase`, `EnforceRetentionPolicies` | store, dump provider, S3 client, `config.CFG` |
| admin server, `pkg/adminserver` | `isTaskRunning` under `taskLock` | trigger a backup, trigger retention, delete a backup, status pages | scheduler, store |
| local and S3 clients, `pkg/storage` | the directory; the bucket | upload, enforce retention | store |
| scheduler, `pkg/scheduler` | cron entries, `jobIDs` | `SetupJobs`, `ReloadSchedules`, `RunOnce` | pipeline, `config.CFG` |
| schedule, server, S3 and option APIs, `pkg/api` | rows in the metadata database; `config.CFG` | create, update, delete, then reload in a goroutine | repositories, scheduler |
| database metadata store, `pkg/metadata/mysql_store*.go` | rows of records, paths and statistics | as the file store, in transactions | MySQL |
| configuration, `pkg/config/config.go`, `main.go` | `config.CFG` | load, defaults, environment, database, validate | environment, database |
| recovery command, `cmd/metadata-recovery` | none of its own | rebuild the log from files and objects | file store, S3 |
| dump providers | none | run `mysqldump` | the servers |
| listings, `pkg/pages`, `pkg/handlers`, `pkg/api/backups.go`, `mysql_store_optimized.go` | none; the page a client has | filter, search, sort, cut into pages, count | store, configuration |
| templates, metrics | none that anything reads back | render | store, configuration |

How they interact. A cron entry or the admin server's goroutine calls
`PerformBackup`, which goes through the databases of the configured servers.
For each one `backupDatabase` makes a record, dumps into a gzip writer over a
file, copies the file, records the outcome, uploads, and records the upload;
the writer is closed by a `defer`, last of all. Retention runs as a cron entry
and as a manual task. Everything shares the one metadata store, the one global
`config.CFG` (without a lock), one directory and one bucket. The API writes
rows and starts goroutines that replace parts of `config.CFG` and rebuild the
cron entries.

What is hard: `save` rewrites its file in place; identifiers have second
resolution; a record may be deleted, or purged, while its backup runs; there are
a dozen ways out of `backupDatabase`; the upload can fail for one of two keys;
two passes of retention can work on one directory; the S3 settings change under
a run; the store may refuse an outcome, and nobody looks at the error; reloads
overlap; a backup indexes the list of servers in force with a place it found in
another list; every page of a listing is a query of its own; and the process can
die between any two of these steps. The hazards are listed in `PROJECT.json`,
each at its line.

What makes each component correct:

- store: file and memory agree whenever the mutex is free, totals are those of
  the records, restarts are all or nothing, only deleted records are dropped;
- pipeline: a record says what became of its backup, whatever fails;
- admin server: one manual task at a time, and the flag always comes down;
- retention: what is too old goes, nothing else does, and the record of what
  went, and no other, is marked;
- scheduler and schedule API: after a reload the entries are those of the rows;
- database store: the same edits as the file store's, whole or not at all, and
  child tables and totals that follow the rows;
- configuration and its API: the settings in force are those of the tables,
  what is in force and valid can be started with again, and a dump is taken
  from the server it is filed under;
- recovery command: records that are there stay as they are, and what it
  declares successful is a file it found;
- listings: whoever reads one to its end misses nothing that stays, its pages
  hold every row once, and two listings asked the same give the same backups.

## 2. Modules

A module `M` has its values for TLC in `MCM` and its proofs in `M_proofs`
(section 4); those of MetadataStore and of Recovery are in `FileStore_proofs`.

### BackupRecords

No state. The record (`BackupMeta`) and the edits the operations make to the
slice of records. The slice is a *log*, a function from append numbers to
records, so that a number names one record for its whole life and the order of
the numbers is the order of the slice. Edits by identifier change the first
match, as the loops in `metadata.go` do. Identifiers are the printed target
and a second; the constant `NameOf` allows two targets to be printed the same.
`LocalPaths` becomes the set of organisations that have a path; the S3 keys
and the log path, which no property reads, are left out.

### MetadataStore

`memory` is `Store.metadata`, `file` is `metadata.json`. Every operation holds
the mutex from its first statement until the save is over, and a save is two
steps: `BeginSave` recomputes the totals and truncates the file, `FinishSave`
writes it; `lock` is "saving" in between and no other operation is enabled.
The fault "open_error" makes the first step fail, "write_error" the second (in
both cases the operation goes on, as the code does), "read_error" and a torn
file make `Load` fail, after which `Initialize` goes on with an empty store.
`Start` is `Initialize`, `Crash` the end of the process at any point, inside a
save too. `saved`, `dirty` and `appended` only observe.

### Catalog and CatalogStore

`Catalog` is what the interface `types.MetadataStore` promises where an
identifier names at most one backup: indivisible edits of one entry (the edits
of BackupRecords, which the file store makes to its log), purges of deleted
entries only, imports that only add. It has no files, tables, transactions or
crashes.

`CatalogStore` is the database store. `db` is the committed tables: `rows` keyed
by identifier, the children `paths` and `keys`, and the stored `stats`. An
operation holds the mutex and runs a transaction `tx`, one action per statement
on a copy of the tables (`UpdateRow`, `ClearChildren`, `InsertChildren`,
`updateStats`, `Commit`; `CountExpired` and `DeleteExpired` for the purge); a
statement may fail (`StatementFails`) and the process may die between any two
(`Crash`). `CreateBackupMeta` and `MarkBackupDeleted` are single statements; the
first returns its identifier even when the insert failed, so `handles` may name
no row. `Connect`, `ConnectFails` and `ImportRecord` are
`InitializeMetadataDatabase`: the recursion through `Initialize` is a counter of
frames, and `metadata.json`, which this store never writes, is imported record
by record at every start. MySQL itself is external: atomic commit, unique keys,
foreign keys with cascading deletes. The refinement mapping takes `entries` to
the converted rows and `shown` to the stored totals. The log path is left out.

### BackupPipeline

A *run* is one call of `PerformBackup`; `pc[r]` is the place in `backupDatabase`
it has reached, `todo[r]` the databases it has left. There is an action per step
that something else can come between: `Begin` (timestamp of the file names),
`CreateMeta` (the record, with a timestamp of its own), `Prepare`, `OpenOutput`,
`Dump`, `Copy`, `RecordSuccess`, `UploadKey` (once per key, in any order),
`RecordUpload`, `Close` (the deferred close of the gzip writer), `Return`,
`End`. Every failing branch is a disjunct of its step, and `Fail` is what the
code does there. The content of a file is one of "open" (under an open gzip
writer), "whole", "cut", "failed" and "mixed"; reading an open file yields
"cut", and so does a last flush that fails (`Close`), whose error the code
drops. `SkipServer` is the loop of `PerformBackup` passing over a server that
cannot be listed. `Fire` starts a run: a manual one only where the handler
admits it (`Admitted`), which it does while the flag is down. `s3` is
`config.CFG.S3` together with the client `NewManager` made: `updateS3Config`
changes the switch and the bucket at any moment, and the run reads them three
times, when it starts (`Fire`), for its keys (`Begin`), and when the dump is
over (`CheckS3`), without a lock. `UpdateBackupStatus` and
`UpdateS3UploadStatus`, by which a run records what became of it, may be refused
by the store (fault "store": the database rolls back), as may the record itself;
the run goes on as if nothing had happened. `DeleteBackup`, `Purge`,
`TriggerRetention` and `RetentionTask` are what else reaches the records and the
flag. `downloadLocalBackupHandler` and `downloadS3BackupHandler` are what a
person gets who asks for a backup by its identifier: the first record of it, and
of its places the one by server. The operations of the store are atomic here,
which MetadataStore justifies (they hold the mutex until their save is over;
torn saves are that module's business), and CatalogStore (each is one
transaction, or none).

### Retention

`Begin` purges, `ListType` lists the candidates of one type in one store (types
in any order, as Go ranges over a map), `CheckItem` removes one of them or
passes it over, `Lookup` finds its record in a snapshot of the log, `Mark`
marks it with the store unlocked in between. Two enforcers interleave with
backups, deletions by users and crashes. Files are places: an organisation, a
target and the second in the name. The clients look only for the *flat*
layout, so the instance starts with backups from before (`Before`), some of them
(`Legacy`) stored that way. The record of a file is the first of the type whose
path has the same last component, and that of an object the first whose key is
the object's or ends with it (`IsItsRecord`): databases of one name on two
servers have files of one last component (`SameBase`), and a flat key is the end
of a key by server where the prefix allows it (`KeysAlike`), so the record found
may be another's.

### ScheduleReload

`rows` are the schedules in the database, `backupTypes` is
`config.CFG.BackupTypes`, `entries` and `jobIDs` are the cron scheduler's. A
request creates (`Create`), updates or deletes (`Delete`) a row; an update looks
for its row first (`Check`) and saves it in a transaction of its own (`Save`),
which inserts it again where it is gone by then. Then it starts a goroutine:
`Read`, `Publish`, then `ReloadSchedules` and `SetupJobs` statement by statement
(`StartRemoval`, `RemoveEntry`, `DeleteKey`, `StartSetup`, `AddEntry`, `StoreID`,
`AddRetention`). Ranging over a map that another goroutine changes follows Go's
rules; two goroutines in the map at once may also end the process (`Restart`).
An insert stores `enabled = true` whatever was asked (`Inserted`), as gorm does
with the default of the column.

### Configuration and Settings

`Configuration` has no state: the settings the environment gives
(`FromEnvironment`), what `main` makes of the tables
(`loadConfigurationFromDatabase`, `loadSchedulesFromDatabase`, `AtStart`), and
`ValidateConfig`. Texts are compared, never taken apart; what
`time.ParseDuration` accepts is a constant.

`Settings` is the running program around `config.CFG`: the tables `servers` and
`schedules`, the handlers of pkg/api that write them, the goroutines that read a
table (`ReadTable`) and publish what they read (`PublishServers`,
`PublishSchedules`), the settings that only memory has (`updateS3Config`, the
dump options), and one backup that goes through the servers meanwhile (`Begin`,
`ChooseDatabases`, `FindHost`, `Dump`). `createOrUpdateServer` is a look and a
write, with another request possibly in between; the second look of
`UpdateServer` is folded into the first, since nothing it finds is used. `run.list`
is the list of servers the backup ranges over, and `run.place` the index
`backupDatabase` found; both outlive the list in force, so that `Dump` may read
another server's host and `Panic` is an index beyond the end. `Boot` is `main`,
which does not come up where `ValidateConfig` fails.

### Recovery

The recovery command as a process over MetadataStore, whose actions it calls:
`Launch` (`metadata.Initialize`), `Refuse`, `Scan`, then per file `Skip` or
`CreateRecord`, `SettleRecord` and, for an object, `UploadRecord`, then `Finish`
and `End`. A file or a page of a listing may be out of reach, the metadata file
torn or missing, and the process may die anywhere (`Die`) and be started again
with other flags. Names of files are reduced to whether they parse.

### Listing

The listings and counts as operators over a log of records, one per function
(`GetBackupsFiltered`, `handleBackupsLegacy`, `listBackupsHandler`,
`BackupStatusPage`, `RecentErrors`, `applyFilters`, `GetBackupsPaginated`,
`GetStats`, `GetStatsOptimized`, `RecentBackups`), and a client of the paginated
API that reads a listing page after page: `Open`, `NextPage`, `Leave`, each page a
query of its own (`handleBackups`). Rows that are equal in the order asked for
come in any order, and in another one the next time. Meanwhile records are made,
settle, are uploaded, deleted and purged. A moment is half a second, so that
"the last second of a day" and "the midnight after it" are different. The two
stores compare differently. The loops over the file want a name's own letters;
the database compares by its collation (`Folded`) and puts together in a GROUP BY
what is the same to it. Search is reduced to the targets a text is found in:
letter by letter (the API of the file store), in any letter case (the page), or
by LIKE, to which `_` and `%` of the text are wildcards (the database); `Plain`
texts have none. The page of `backupStatusPageOptimized.go` and that of
`serversPage.go` are not modelled: they end before they ask for anything
(section 6).

## 3. Runs

All runs take between a few seconds and two and a half minutes with two workers.

| run | instance | what it shows |
|---|---|---|
| `store` | one target, two records, two seconds, all five faults | The six properties below. One target is enough for both cases of an identifier: two records made in one second share it, in two seconds they do not. |
| `pipeline` | a scheduled run over two servers (one without a provider) and a manual run, failing listings, dumps, copies, uploads and last flushes, crashes, and an administrator who changes the S3 settings once, at any moment | A successful backup can be downloaded whole, and an upload recorded as successful reached every key its run had made; where nobody changed the settings the link leads to an object. |
| `pipeline_tasks` | two manual runs, manual and scheduled retention, user deletions, failures, a store that refuses records and outcomes, crashes, two seconds, storage in S3 only | Pending records are in progress, one manual task, deleted records come back only through their own run, and liveness. |
| `pipeline_objects` | one run | *violation*: uploaded objects are not the backup. |
| `retention` | two enforcers, a database of one name on two servers with a backup each from before, one of them in the flat layout, another backup, a type that is skipped, all faults | No active record without its file, no record marked but for a removed backup of its type, second and database name, nothing expired left by an undisturbed pass. |
| `retention_layouts` | one backup, one enforcer | *violation*: expired backups are not removed. |
| `schedules` | two rows, two types, valid and garbled expressions, two requests, failing reads, restarts | No schedule lost and no dangling id under any overlap; exact entries and configuration without one; a deleted schedule comes back only by an update that had looked for it before. |
| `catalog` | one target, two seconds after the file's, a torn file or one with two records of one identifier, all three faults | The database store implements `Catalog`; totals lag by deletions only; children follow rows; a migration is whole and takes the first record of an identifier. |
| `settings` | one or two servers and a schedule beforehand, two requests of any handler, a backup, failing reads and listings, restarts | The newest servers read are published, and in force where no two goroutines met; settings that are in force and valid come up again; dumps follow the lists of servers; dump options were asked for. |
| `recovery` | two databases, four files (one not named as the command expects), a torn, missing or older metadata file, six sets of flags, crashes | A run that merges leaves what it found as it was, and what a run declares successful stands for a file it listed. |
| `recovery_found` | as `recovery`, every file in reach, no faults | *violation*: what the command lists is not recovered. |
| `listing` | two servers whose names differ in their case, four edits, three moments around midnight, pages of one or two rows, three listings to read, every question with at most two filters, a text with a wildcard and one without | Reading to the last page misses nothing that stays; the pages counted hold every row once; listings and counts agree but for the differences their properties name. |

The store's properties: `FileIsCurrent` (file and memory agree when the mutex
is free, unless the write failed), `TotalsAgree`, `CompletionIsStamped` (purge
ages by the completion time), `OnlyDeletedVanish`, `RestartRestoresOrWarns`
(after a restart the log is the last one saved, or empty with a warning) and
`TypeOK`.

Ghost variables keep the qualified properties honest: `interrupted` holds the
records whose run a crash cut short, `refused` those whose outcome the store did
not take, `torn` those whose file lost its end at the last flush, `changes` counts
the changes of the S3 settings, `orphaned` holds what an enforcer had removed
but not marked when it died, `mistaken` what it removed when it found another
record for it, `troubled` the passes with a failed listing or
removal, `overlapped` and `unread` whether reloads met or could not read,
`raced` the deletions that met an update, `shifted` whether a request for dump
options was under way while a list was published, and `disturbed` (listing)
whether something vanished from what is being read, changed its place in it, or
shared its place with another. A property excludes what these name and nothing
else.

Bounds. Two of everything that can race (runs, enforcers, reloaders), since
every race in the code is between two; one second in `pipeline`, whose
properties do not compare times, and two or three elsewhere, enough for equal
and different timestamps and for something to expire; two records or edits,
enough for one to be affected by what happens to the other. In `pipeline`
concurrent runs have different targets, because with one target and one second
all the properties fail (section 6). `MaxRequests = 2` of `settings` lets any
two handlers meet each other and a backup; it takes three for gorm's `Save` of a
row that is gone to write over another row of its name, so that this branch of
`Target` is translated and not reached. In `listing` the sizes of pages (50 and
1000 in the code) are 1 and 2, the lists of the newest backups and of the
failures (5 and 10) 2 and 1. The faults of `pipeline` and of `pipeline_tasks`
differ to keep both small ("store", "prepare" and "create" are in the second,
"list", "copy", "upload" and "close" in the first); the theorems have them all
at once. The runs whose systems stop, when clocks and edits are used up, do not
check deadlock; `store`, in which every state has a successor, does.

Fairness. `FairSpec` gives each goroutine weak fairness: the Go scheduler runs
what can run. It assumes that `mysqldump` ends, since the code waits for it
without a timeout. Nothing is assumed of cron, of users, or of the clock. No
other module states fairness: what the others promise is safety.

## 4. Proofs

For every value of the constants: any targets and printed names, sizes, ages,
policies, faults, bounds, and any number of runs, enforcers, goroutines and
clients. Each theorem `Spec => []P` rests on an invariant `IInv` with
`Init => IInv`, `IInv /\ [Next]_vars => IInv'` and `IInv => P`; before it was
proved, `IInv` was checked by TLC on the runs' instances.

`BackupRecords_proofs` has the lemmas about the edits of a log that five of the
others cite, and those about sums over finite sets: a sum changes by one term
when one element goes (`SumRemoves`), depends on the values of its elements
alone (`SumCongruent`), and can be taken part by part (`SumSplits`, `SumByKey`).
The library's induction theorems cannot be instantiated by the provers, so each
of these takes a least counterexample instead: among the subsets of a finite set
for which it fails one contains no other (`LeastCounterexample`, from the
well-foundedness of strict inclusion).

`FileStore_proofs`, about MetadataStore:

- `TypeCorrect`: memory, file and last save are logs.
- `FileCurrent` and `TotalsCorrect`, from `StoreInv`. A restart takes over the
  file's log and recomputes the totals, so `FileIsCurrent` is inductive only
  together with `TotalsAgree` for the file and with `DeadIsEmpty`: no mutex and
  no log outlive the process. `StepCases` reduces the operations to what they
  have in common, a `BeginSave` under a free mutex.
- `CompletionStamped`, strengthened with the same statement about the file,
  which a restart loads. Each edit preserves it (`EditsStamped`), and the clock
  only advances.
- `NothingLiveVanishes`: only a purge removes a record, and only deleted ones.
- `RestartAllOrNothing`, from `SavedInv`: what the file holds, if anything, is
  the last completed save, because a save makes it torn first.
- `RestartSafe`: if the faults exclude crashes inside a save and failed
  writes and reads, every restart restores the last completed save. Without
  the assumption a crash in the middle of a save leaves a file that does not
  parse, and a restart starts empty (section 6).

And about Recovery, which works on that store:

- `RecoveryKeepsRecords`, from `KeptInv`: a run that merges knows the identifiers
  it found and works on files that have others; without a flag it found none. A
  forced run without `-merge` is not spoken of (section 6).
- `RecoveredRecordsHaveFiles`, from `SuccessInv`: a success is one that was
  found, stands for a listed file, or is the object being recorded.

`BackupPipeline_proofs`:

- `OneTaskAtATime`. That there is never a second manual task is not inductive:
  `TaskInv` says that the flag is up exactly while a task it was raised for goes
  on, and that retention and a manual backup never go on together.
- `PipelineTypeCorrect`, from `BaseInv`: the control state (`ControlInv`); which
  run made which record, for which target and with which file
  (`OriginInv`); that records have a maker (`RecordsInv`); and that who writes
  has a file (`FilesInv`); every record has its S3 keys (`KeysInv`).
- `EveryWayOutIsRecorded`, `RecordedUploadsExist`, `SuccessDownloadsWhole` and
  `OnlyItsBackupRevives`, from `OutcomeInv`: until a run has decided, its record
  does not say success (`DecidedInv`); the file under its writer is open and
  nobody else's (`OpenInv`); a recorded success still has its writer to close or
  a whole file, or lost its end (`WholeInv`); an upload recorded has all its
  objects (`SentInv`, `UploadedInv`), and while nobody changes the settings a
  run that uploads has keys, all in the bucket in force (`QuietInv`). What the
  store refused or the last flush lost is left out by the ghosts `refused` and
  `torn`, each of which only grows at the failing step. They have the hypothesis
  `NoTwins`: no two backups made so far share an identifier or a file. The code
  does not guarantee it, since both have the resolution of a second (section 6),
  and without it all four are false. `NamesOnceMeansNoTwins` gives a condition
  on the configuration under which it always holds: no printed name is on two
  lists of targets, or twice on one. A run only ever drops the front of its list
  (`PositionInv`), so that it makes one record at most for a place of it.

`ScheduleReload_proofs`:

- `SchedulesTypeCorrect`.
- `NoIDDangles`, under any overlap of reloads, from `NumbersInv`: a number names
  one entry and is in `jobIDs` for one type, unless the goroutine that got it is
  about to store it.
- `NoScheduleIsLost`, from `ScheduleInv`: every type with an expression that
  parses has its entry, or a goroutine that took the present configuration is
  still to add it, or one is still before its own look at the configuration.
- `DeletionsLast`, from `DeletedInv`.
- `ReloadsRebuildTheEntries` and `ReloadsFollowTheRows`, where no two reloads
  overlapped, from `SoloInv` and `FollowInv`: one goroutine is at work at most,
  and how far it is says what the entries, `jobIDs` and the rows have in common.

`Retention_proofs`:

- `RetentionTypeCorrect`.
- `ActiveRecordsHaveFiles` and `MarkedBackupsLostACopy`. The mark goes by the
  last component of a path to an identifier, so both need that an identifier
  names one record (`OneRecordEach`), which later backups keep, since no second
  backup of one name is made in one second, and which the backups from
  before, all of one second in this model, have under the hypothesis
  `EarlierNamesDiffer`: the names of two of them, joined with hyphens, are not the
  same. Neither needs that the record found is that of the file: that it may be
  another server's is what `mistaken` and the statement itself say.
- `FlatLayoutEnforced`, from `PassInv`: what a pass is through with has nothing
  left that had expired when the pass began, and what it is at is still on its
  list. What is too old stays too old (`OlderAndOlder`).

`CatalogStore_proofs`:

- `CatalogTypeCorrect`.
- `CatalogIsImplemented`: CatalogStore implements Catalog. The step lemma needs
  `WorkInv`, which says for every stage of every transaction what the working
  copy is as a function of the committed tables and the operation; then the
  commit is one edit of one entry, a purge or an import, and every other step a
  stutter.
- `MigrationLosesNothing`, from `JoinInv`: during an import each record of the
  file is in the working copy or still to come, in the order of the file.
- `ChildrenAreTheRows`, from `FollowInv`, for a `metadata.json` whose records
  have the local paths of their outcomes (`HistoryHasPaths`), as those do that
  were saved with local storage on; only then is the file imported.

- `TotalsOnlyLag`, from `LagInv`: what is about to be committed has the totals of
  its rows, a transaction keeps the rows finitely many, and marking a backup
  deleted moves its size from the successful to the deleted ones.

`Settings_proofs`:

- `SettingsTypeCorrect`; with it goes that no two servers have one name, which
  the handlers keep, however their looks and writes interleave, because the
  table has a unique index.
- `ServersAreLoaded` and `SettingsComeUpAgain`, from `LoadInv` (where no two
  goroutines met there is one at most, it read what the table says now, and
  when it is gone that is in force) and `PublishInv` (until the newest servers
  are published somebody is still to read them or has, or the last one failed).
- `OptionsAreFromRequests`, from `FreshInv` and `OptionsInv`: a request under
  way is about the server that stands in its place, unless the list was
  replaced under it.
- `DumpsComeFromTheLists`, from `RunInv`: the list a backup ranges over and the
  place it found belong to lists in force since it began.

`Listing_proofs`:

- `ListingType`: the records are a log with finitely many numbers (`LogInv`), and
  the page a client has was cut out of rows by the query it asked (`AskInv`).
- `NothingIsMissed`, from `BrowseInv`: of what was there to be seen and was not,
  as many matches come before it, in the order asked for, as fit on the pages
  sent so far. Without ties the place of a match in any ranking is the number
  of those before it plus one (`PlaceIsRank`), so that the next page has it or
  has as many before it again; edits only put more before it
  (`EditKeepsPlaces`), and on the last page there is no such match.
- `PagesAreAlwaysWhole`: the arithmetic of offsets, for any rows and any size:
  the row in a given place is on the page and in the place that division and
  remainder give it.
- `ListingsAlwaysAgree`: a fact about the filters over any log.
- `SummariesAlwaysAgree`: statuses, types, servers and databases each cut the
  records into parts, over which counts and sizes add up (`PartsAddUp`,
  `CountedOnce`); the parts of a GROUP BY are unions of those of the loop
  (`GroupsAddUp`), and of finitely many records one is the newest. That the last
  few records are the newest, and that a success has a completion time, needs
  `OrderInv`.

Assumptions on constants (`RecordsAssumption`, `StoreAssumption` and so on) are
stated in the modules and evaluated by TLC in every run.

Only model-checked is the liveness of the pipeline (`EveryRecordSettles`,
`FlagIsCleared`): the provers have no rules for fairness and `ENABLED`. Every
other property of the runs that hold is a theorem.

## 5. Plan

All components of the first plan are modelled, and all their safety properties
are proved. What is left:

1. The refinement of Catalog by the file store as well, which would need a
   catalogue with two records of one identifier (section 6).
2. Weaker hypotheses of the theorems about the pipeline: `NoTwins` could be
   required of the record at hand alone.

## 6. Known disagreements

Shown by a run: uploads without the end of the gzip stream (`pipeline_objects`),
retention in a layout nothing is written to (`retention_layouts`), a recovery
command whose records stay pending (`recovery_found`).

Seen while modelling and present in the models, without a run of their own.

The stores:

- A crash inside a save leaves a `metadata.json` that does not parse
  (`metadata.go:182`); the next start warns, begins empty, and its first save
  overwrites the file.
- Without local storage `Initialize` keeps `metadata.json` in a new temporary
  directory at every start (`metadata.go:91`), and nothing survives a restart.
- `metadata.go:215` promises a unique ID; two records of one target in one
  second share it, and every edit and every download reaches the first only. The
  second stays pending, and both runs write to the same files.
- Where the database cannot be reached, the fallback calls `Initialize`
  (`mysql_store.go:112`), which chooses the database again: the calls recur
  until the stack is used up, and the file store is never used.
- `metadata.json` is imported at every start, not "when you first enable the
  database" (`docs/metadata-database.md:51`): a record that was purged from the
  database comes back as the file has it, and of two records with one
  identifier the second is dropped.
- `MarkBackupDeleted` of the database store leaves the stored totals alone, so
  that `GetStats` and `GetStatsOptimized` differ until the next other edit; and a
  backup deleted before it finished is never purged (`mysql_store.go:846`).
- `backup.go:850` speaks of backups "deleted more than 7 days ago"; the purge
  goes by completion.

The pipeline:

- The errors of `UpdateBackupStatus` are dropped (`backup.go:733`, and :441, :461,
  :530, :539, :628, :667 on the failing ways): where the database rolls back
  (`mysql_store.go:491`) a record stays pending for good although its run is
  over. `refused` holds such records.
- The errors of the deferred closes are dropped (`backup.go:631`, `:635`): a disk
  that fills up at the last flush leaves a truncated file under a record that has
  said success already (`torn`).
- `config.CFG.S3` is read at `backup.go:83`, `:176` and `:740` and changed without a
  lock by `api/s3.go:110`. Switched on in between, there are no keys, the loop of
  the uploads is empty, and an upload is recorded as successful without an object;
  with another bucket the keys may be spread over two, and the link that is
  offered (`adminserver.go:569`) leads to the one in force. So
  `S3SuccessMeansUploaded` speaks of the keys that were made, and of the link only
  until the first change.
- A crash leaves the record of a running backup pending for good
  (`types.go:13` calls that "in progress"); after `RecordSuccess` and before the
  deferred close it leaves a truncated file under a successful record.
- The by-type copy (`backup.go:698`) and the recorded size (`backup.go:722`)
  are taken before the gzip writer is closed; a copy that failed half-way is
  recorded like a whole one.
- With the global switch on and the type's local storage off, paths are
  recorded that were never written (`backup.go:733`).
- Two runs of one type in one second write to the same paths (`backup.go:621`).
- `mysqldump` has no timeout (`pkg/backup/database/mysql/provider.go:126`): if it
  hangs, the record stays pending and the flag up.
- `PerformBackup` builds the filters of a manual backup and does not read them
  (`backup.go:150`).
- The flag of the admin server does not keep scheduled and manual backups apart
  ("ensures only one backup runs at a time", `adminserver.go:736`).

Retention:

- The record of a removed file is looked for by its last component
  (`local.go:123`), and that of an object by the end of a key (`s3.go:401`). Where
  two servers have a database of one name, backed up in one second, the record
  marked as deleted may be that of the other server, whose backup is still there,
  and its own stays active without a file.

The scheduler:

- A schedule that is created disabled is stored enabled and runs: the column is
  tagged `default:true` (`models.go:65`), which gorm puts in the place of the zero
  value, while `schedule.go:332` says "Skip disabled schedules".
- Every reload adds a job that enforces retention, and none is removed
  (`scheduler.go:67`).
- Two overlapping reloads may leave two entries of one type, of which one can
  never be removed, or publish an older configuration over a newer one.

The settings:

- Only a program with the metadata database comes up: nothing in the
  environment names a server, and without the database the default types, kept
  for "90d", do not validate. With it the first start over empty tables does not
  validate either, for the same reason.
- The API accepts a retention of "7d", which takes effect and makes the next
  start end in `ValidateConfig` (`config.go:652`).
- When the last server is deleted, backups go on with the first server `main`
  had loaded, filed under "default".
- Between the look for a server and its use as an index (`backup.go:485`) the
  list may be replaced: the dump is another server's, or the index is beyond the
  end and the process dies, since the cron library recovers no panic. In the
  option handlers net/http recovers it.
- A server that was removed while its backup runs is dumped from the legacy host,
  and filed under its own name (`backup.go:492`).
- Dump options of a server are dropped by the next reload of the servers, are
  not read by any dump, and are written to tables no migration creates: the
  request is answered with an error although memory has changed.
- S3 settings of the API are lost at the next start.
- An update of a server that was deleted meanwhile inserts it again, or writes
  over the row that has its name by now.
- The page of the databases asks the legacy host on behalf of every MySQL server.

The recovery command:

- `CreateBackupMeta` answers with a copy, and the identifier and the time of the
  file are set on that copy (`main.go:279`): the record keeps the identifier of
  the second it was made in, and the updates that follow meet no record, unless
  the store has one of that identifier already. With `-force` and without
  `-merge` that is an older record: one that was deleted becomes successful again,
  and one whose file is an object loses its local paths.
- The names `pkg/backup` gives its files (`backup.go:57`, `:391`) do not match the
  pattern the command looks for (`main.go:34`): it passes over all of them.
- A dry run writes: only the last save is left out (`main.go:25`, `:105`;
  `docs/metadata-recovery.md:187`).
- A forced run without `-merge` does not replace what is there, as
  `docs/metadata-recovery.md:173` and `:192` ("Merge with existing metadata instead
  of replacing", also `main.go:30`) make one expect of it: no record is removed,
  and those whose identifiers are not those of a file stay as they were, the
  records of files that are gone among them. `ExistingRecordsKept` claims nothing
  of such a run.
- `reconcileBackups`, which would join the copies of one backup, has no caller.
- A crash between the two updates of an object leaves a success with no copy.

The listings:

- Two pages answer 500 whatever they are asked, because their templates use
  functions that `common.go:66` does not define and `Parse` fails before any query:
  that of `backupStatusPageOptimized.go` (`duration`, `:233`; `:416`) and that of
  `serversPage.go` (`div` and `mul`, `:88`; `:210`). `/servers` is served by
  another handler (`adminserver.go:92`).
- The handler of `pkg/api/backups.go` is registered by nobody: `/api/backups` is
  `listBackupsHandler` (`adminserver.go:102`), which knows three filters and no
  pages. The listing by pages that `docs/metadata-performance.md:53` describes is
  reached by no route of the program.
- "Active Only" (`backupStatusPage.go:134`) filters nothing: `useActiveOnly` asks
  for a status that is "active" and empty at once (`:591`). In the query of the
  database "active" finds nothing, since no record has such a status.
- An end date that does not parse empties the page; the API passes over it. What
  was made within the last second of the last day is left out by the page alone.
- The "last 10 failed backups" (`backupStatusPage.go:690`) are the first ten of
  the list, and the last five of the dashboard are, over the database, the last by
  primary key and not by time.
- A status together with `activeOnly` means both in the file store and the status
  alone in the database.
- Server, database and type are compared letter by letter over the file, and by
  the collation over the database (`mysql_store.go:638`), which also counts names
  together that it takes for the same; a text with `_` or `%` finds more there
  (`mysql_store_optimized.go:238`), and a search minds the letter case only in
  the API of the file store.
- Pages are cut by an offset: when backups that match are deleted or purged
  between two pages, others move up and are on neither.

## 7. Not modelled

`pkg/dbconfig`, `mysql_loader.go`, `adapter.go` and `repository.go` of
pkg/database/metadata: nothing in the program calls them. `CleanupOldBackups` and
`BulkUpdateStatus` of the database store, `UploadBackup` of the S3 client and the
merging of dump options, for the same reason. Templates, the HTML of the pages,
metrics, log files, command lines and connection strings of the dump programs,
the signing of URLs, charts and scripts: no state that anything else reads. The
PostgreSQL providers are not registered with the pipeline, which records an error
for such a server; the model has that. A slice header that is torn by an
unsynchronised read of `config.CFG` is left out: a list is the old or the new
one. Formatting of names and paths is reduced to which of them are equal; the
escape character of LIKE, and a search that hits the time in an identifier, are
left out.
