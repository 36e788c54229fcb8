---------------------------- MODULE BackupPipeline ----------------------------
(***************************************************************************)
(* Backup runs: PerformBackup and backupDatabase (pkg/backup/backup.go),   *)
(* started by cron (pkg/scheduler) or by hand (pkg/adminserver), several   *)
(* at a time, over one metadata store, one backup directory and one        *)
(* several buckets.  The store's operations are atomic here: MetadataStore *)
(* shows that each holds the mutex until its save is over, CatalogStore    *)
(* that each is a transaction.  The database store refuses an update when  *)
(* a statement fails and rolls back; nobody looks at that error.  What a   *)
(* failed save of the file store leaves is the subject of MetadataStore.   *)
(*                                                                         *)
(* A RUN is one call of PerformBackup; its databases are the targets of    *)
(* Work, in order.  Every step of backupDatabase that another run, a       *)
(* deletion or a crash can come between is an action.                      *)
(***************************************************************************)
EXTENDS BackupRecords, Sequences
LOCAL INSTANCE SequencesExt

CONSTANTS
    Runs,       (* the calls of PerformBackup that may happen               *)
    Manual,     (* those made by the admin server's backup handler          *)
    Work,       (* the databases of the configured servers, in order        *)
    ServerOf,   (* the server of a target                                   *)
    Kind,       (* the server type of a target                              *)
    CfgLocal,   (* CFG.Local.Enabled                                        *)
    TypeLocal,  (* the type has local storage and its client was created    *)
    CfgS3,      (* CFG.S3.Enabled as the environment has it                 *)
    CfgBucket,  (* CFG.S3.Bucket as the environment has it                  *)
    Buckets,    (* the buckets an administrator may choose                  *)
    TypeS3,     (* the type has S3 storage, and a client can be created     *)
    Debug,      (* CFG.Debug                                                *)
    Faults,     (* what may go wrong                                        *)
    Cleanup,    (* whether users delete backups and retention runs          *)
    MaxChanges, (* bound: how often the S3 configuration is changed         *)
    MaxClock    (* bound: the last second                                   *)

FaultKinds == {"list", "prepare", "create", "dump", "copy", "upload", "close",
               "store", "crash"}

LocalOn == CfgLocal /\ TypeLocal

ASSUME PipelineAssumption ==
    /\ Manual \subseteq Runs
    /\ Work \in [Runs -> Seq(Targets)]
    /\ DOMAIN ServerOf = Targets
    /\ Kind \in [Targets -> {"mysql", "postgresql", "other"}]
    /\ {CfgLocal, TypeLocal, CfgS3, TypeS3, Debug, Cleanup} \subseteq BOOLEAN
    /\ CfgBucket \in Buckets
    /\ Faults \subseteq FaultKinds
    /\ {MaxChanges, MaxClock} \subseteq Nat

VARIABLES
    pc,             (* where each run is                                     *)
    todo,           (* the targets a run has left, the current one first     *)
    stamp,          (* the second in the names of the current target's files *)
    rid,            (* meta.ID of the current target                         *)
    named,          (* the S3 keys made for it, s3Keys                       *)
    sent,           (* the S3 keys the current target was uploaded to        *)
    failed,         (* the S3 keys its upload failed for                     *)
    backups,        (* the log of the metadata store                         *)
    keys,           (* the S3Keys of its records                             *)
    files,          (* content of the files, by path                         *)
    objects,        (* content of the objects, by bucket and key             *)
    s3,             (* CFG.S3, which the API changes, and the client of the  *)
                    (* backup manager, made or not at the start              *)
    isTaskRunning,  (* the admin server's flag, under taskLock               *)
    retaining,      (* a manual retention task runs                          *)
    clock

(* Observed, not used: which run made a record or failed to, when, for      *)
(* which files and keys; the records whose run a crash cut short, those     *)
(* whose outcome the store refused, those whose file lost its end, and the  *)
(* number of changes of the S3 configuration.                               *)
VARIABLES origin, interrupted, refused, torn, changes

store == <<backups, keys>>
flags == <<isTaskRunning, retaining>>
ghosts == <<origin, interrupted, refused, torn, changes>>
runVars == <<pc, todo, stamp, rid, named, sent, failed>>
vars == <<runVars, store, files, objects, s3, flags, clock, ghosts>>

(* A file under a gzip.Writer lacks its tail until the writer is closed.    *)
(* "cut" is a stream without its end, "failed" the closed output of a dump  *)
(* that went wrong, "mixed" a file two runs wrote to at once.               *)
Contents == {"open", "whole", "cut", "failed", "mixed"}

NoId == <<0, 0>>
Target(r) == Head(todo[r])

(* constructBackupPaths: two places per target and second.                  *)
Place(t, s, org) == <<t, s, org>>
LocalPaths == IF CfgLocal THEN Organisations ELSE {}
S3Keys == IF s3.enabled THEN Organisations ELSE {}

(* The condition on S3, which a run evaluates when it starts and again when *)
(* it comes to the upload.                                                  *)
S3On == s3.enabled /\ s3.client /\ TypeS3

(* The file the dump goes to: the by-server path or one in a fresh          *)
(* temporary directory of the run.                                          *)
Primary(r) == IF LocalOn THEN Place(Target(r), stamp[r], "by-server")
                         ELSE Place(r, 0, "temp")

Put(f, key, value) == [k \in DOMAIN f \cup {key} |-> IF k = key THEN value ELSE f[k]]
Without(f, key) == [k \in DOMAIN f \ {key} |-> f[k]]

(* Reading a file whose writer is not closed yields a stream without end.   *)
AsRead(content) == IF content = "open" THEN "cut" ELSE content

(* An object is addressed by the bucket of the configuration in force.      *)
ObjectAt(bucket, place) == <<bucket, place>>

(* Bytes on disk: less than the backup while the writer holds some back.    *)
(* The mutant records an unknown size as -1.                                *)
SizeOrUnknown(content) == IF content = "whole" THEN 2 ELSE -1
SizeOf(content) == IF content = "whole" THEN 2 ELSE 1

Init ==
    /\ pc = [r \in Runs |-> "idle"]
    /\ todo = Work
    /\ stamp = [r \in Runs |-> 0]
    /\ rid = [r \in Runs |-> NoId]
    /\ named = [r \in Runs |-> {}]
    /\ sent = [r \in Runs |-> {}]
    /\ failed = [r \in Runs |-> {}]
    /\ backups = EmptyLog
    /\ keys = EmptyLog
    /\ files = EmptyLog
    /\ objects = EmptyLog
    /\ s3 = [enabled |-> CfgS3, bucket |-> CfgBucket, client |-> CfgS3]
    /\ isTaskRunning = FALSE
    /\ retaining = FALSE
    /\ clock = 1
    /\ origin = EmptyLog
    /\ interrupted = {}
    /\ refused = {}
    /\ torn = {}
    /\ changes = 0

-------------------------------------------------------------------------------
At(r, label) == pc[r] = label
Goto(r, label) == pc' = [pc EXCEPT ![r] = label]

(* A cron entry fires whatever else runs.  The handler turns a request down *)
(* that names a type or a server it does not know, and, as a conflict, one  *)
(* that comes while the flag is up.                                         *)
(* The mutant does not look at the flag.                                    *)
AdmittedAlways(r) == r \in Runs
Admitted(r) == r \in Manual => ~isTaskRunning

(* A backup type that is stored nowhere is refused.                         *)
Fire(r) ==
    /\ At(r, "idle")
    /\ Admitted(r)
    /\ isTaskRunning' = (isTaskRunning \/ r \in Manual)
    /\ Goto(r, IF (LocalOn \/ S3On) /\ todo[r] # <<>> THEN "begin" ELSE "end")
    /\ UNCHANGED <<todo, stamp, rid, named, sent, failed, store, files, objects, s3,
                   retaining, clock, ghosts>>

(* PerformBackup comes to a server without a list of databases, and the     *)
(* server cannot be asked for one: it goes on with the next server.         *)
Before(r) == SubSeq(Work[r], 1, Len(Work[r]) - Len(todo[r]))
OfOneServer(r, k) ==
    k <= Len(todo[r]) /\ \A i \in 1..k : ServerOf[todo[r][i]] = ServerOf[Target(r)]

SkipServer(r) ==
    /\ At(r, "begin") /\ "list" \in Faults
    /\ Before(r) # <<>> => ServerOf[Last(Before(r))] # ServerOf[Target(r)]
    /\ \E k \in 1..Len(todo[r]) :
          /\ OfOneServer(r, k) /\ ~OfOneServer(r, k + 1)
          /\ todo' = [todo EXCEPT ![r] = SubSeq(@, k + 1, Len(@))]
    /\ Goto(r, IF todo'[r] = <<>> THEN "end" ELSE "begin")
    /\ UNCHANGED <<stamp, rid, named, sent, failed, store, files, objects, s3, flags,
                   clock, ghosts>>

(* backupDatabase takes its timestamp and makes the names of the files and  *)
(* objects from it; the identifier takes another timestamp.                 *)
Begin(r) ==
    /\ At(r, "begin")
    /\ Goto(r, "create")
    /\ stamp' = [stamp EXCEPT ![r] = clock]
    /\ named' = [named EXCEPT ![r] = S3Keys]
    /\ UNCHANGED <<todo, rid, sent, failed, store, files, objects, s3, flags, clock, ghosts>>

(* A record the database refuses is logged, and the run goes on without it. *)
NextNumber == 1 + Cardinality(DOMAIN origin)

CreateMeta(r) ==
    /\ At(r, "create")
    /\ Goto(r, "prepare")
    /\ rid' = [rid EXCEPT ![r] = IdAt(Target(r), clock)]
    /\ \/ backups' = WithNew(backups, NextNumber, Target(r), clock)
       \/ "store" \in Faults /\ UNCHANGED backups
    /\ keys' = Put(keys, NextNumber, {})
    /\ origin' = Put(origin, NextNumber,
                     [run |-> r, left |-> Len(todo[r]), target |-> Target(r),
                      stamp |-> stamp[r], named |-> named[r], made |-> clock])
    /\ UNCHANGED <<todo, stamp, named, sent, failed, files, objects, s3, flags, clock,
                   interrupted, refused, torn, changes>>

(* UpdateBackupStatus, whose error backupDatabase drops: a refused outcome  *)
(* leaves the record as it was.                                             *)
UpdateBackupStatus(r, status, paths, size) ==
    \/ /\ backups' = WithStatus(backups, rid[r], status, paths, size, clock)
       /\ UNCHANGED refused
    \/ /\ "store" \in Faults
       /\ refused' = refused \cup Matches(backups, rid[r])
       /\ UNCHANGED backups

(* UpdateS3UploadStatus, the same way.                                      *)
UpdateS3UploadStatus(r, status, given) ==
    \/ /\ backups' = WithUpload(backups, rid[r], status)
       /\ keys' = [n \in DOMAIN keys |->
                      IF IsFirst(backups, rid[r], n) THEN given ELSE keys[n]]
    \/ "store" \in Faults /\ UNCHANGED store

(* Every failure before the dump is over is recorded, and the run returns.  *)
Fail(r) == UpdateBackupStatus(r, "error", {}, 0) /\ Goto(r, "return")

(* The directory or the temporary directory is made, and a provider chosen: *)
(* only MySQL has one.                                                      *)
(* The mutant returns without recording the failure.                        *)
PrepareSilently(r) ==
    /\ At(r, "prepare")
    /\ \/ /\ "prepare" \in Faults \/ Kind[Target(r)] # "mysql"
          /\ Goto(r, "return")
       \/ /\ Kind[Target(r)] = "mysql"
          /\ Goto(r, "open")
    /\ UNCHANGED <<todo, stamp, rid, named, sent, failed, store, files, objects, s3, flags,
                   clock, ghosts>>

Prepare(r) ==
    /\ At(r, "prepare")
    /\ \/ /\ "prepare" \in Faults \/ Kind[Target(r)] # "mysql"
          /\ Fail(r)
       \/ /\ Kind[Target(r)] = "mysql"
          /\ Goto(r, "open")
          /\ UNCHANGED <<backups, refused>>
    /\ UNCHANGED <<todo, stamp, rid, named, sent, failed, keys, files, objects, s3, flags,
                   clock, origin, interrupted, torn, changes>>

(* The runs whose output file is open.                                      *)
Writers(path) == {q \in Runs : pc[q] \in {"dump", "copy", "record", "check", "upload", "close"}
                               /\ Primary(q) = path}

(* os.Create truncates what is there, also under another run's writer.      *)
OpenOutput(r) ==
    /\ At(r, "open")
    /\ \/ /\ "create" \in Faults
          /\ Fail(r)
          /\ UNCHANGED files
       \/ /\ Goto(r, "dump")
          /\ files' = Put(files, Primary(r), IF Writers(Primary(r)) = {} THEN "open" ELSE "mixed")
          /\ UNCHANGED <<backups, refused>>
    /\ UNCHANGED <<todo, stamp, rid, named, sent, failed, keys, objects, s3, flags,
                   clock, origin, interrupted, torn, changes>>

(* What the deferred gzipWriter.Close leaves in the file.                   *)
Closed(content, outcome) == IF content = "open" THEN outcome ELSE content

(* mysqldump ends.  When it failed, the status is recorded and the deferred *)
(* closes leave what it had written.                                        *)
(* The mutant goes on whatever mysqldump's exit status is.                  *)
DumpUnchecked(r) ==
    /\ At(r, "dump")
    /\ Goto(r, "copy")
    /\ \/ UNCHANGED files
       \/ /\ "dump" \in Faults
          /\ files' = Put(files, Primary(r), Closed(files[Primary(r)], "failed"))
    /\ UNCHANGED <<todo, stamp, rid, named, sent, failed, store, objects, s3, flags,
                   clock, ghosts>>

Dump(r) ==
    /\ At(r, "dump")
    /\ \/ /\ Goto(r, "copy")
          /\ UNCHANGED <<backups, refused, files>>
       \/ /\ "dump" \in Faults
          /\ Fail(r)
          /\ files' = Put(files, Primary(r), Closed(files[Primary(r)], "failed"))
    /\ UNCHANGED <<todo, stamp, rid, named, sent, failed, keys, objects, s3, flags,
                   clock, origin, interrupted, torn, changes>>

(* The by-type copy of a local backup; its failures are only logged.        *)
ByType(r) == Place(Target(r), stamp[r], "by-type")

Copy(r) ==
    /\ At(r, "copy")
    /\ Goto(r, "record")
    /\ \/ /\ LocalOn
          /\ files' = Put(files, ByType(r), AsRead(files[Primary(r)]))
       \/ /\ LocalOn /\ "copy" \in Faults
          /\ files' \in {files, Put(files, ByType(r), "cut")}
       \/ ~LocalOn /\ UNCHANGED files
    /\ UNCHANGED <<todo, stamp, rid, named, sent, failed, store, objects, s3, flags,
                   clock, ghosts>>

(* The size is read and success recorded, with all the local paths there    *)
(* are in the configuration.                                                *)
RecordSuccess(r) ==
    /\ At(r, "record")
    /\ Goto(r, "check")
    /\ UpdateBackupStatus(r, "success", LocalPaths, SizeOf(AsRead(files[Primary(r)])))
    /\ UNCHANGED <<todo, stamp, rid, named, sent, failed, keys, files, objects, s3, flags,
                   clock, origin, interrupted, torn, changes>>

-------------------------------------------------------------------------------
(* Whether to upload is asked of the configuration as it is by now; no      *)
(* upload is recorded as a failed one if the program is being debugged.     *)
CheckS3(r) ==
    /\ At(r, "check")
    /\ \/ /\ S3On
          /\ Goto(r, "upload")
          /\ UNCHANGED store
       \/ /\ ~S3On
          /\ Goto(r, "close")
          /\ IF Debug THEN UpdateS3UploadStatus(r, "error", {}) ELSE UNCHANGED store
    /\ UNCHANGED <<todo, stamp, rid, named, sent, failed, files, objects, s3, flags,
                   clock, ghosts>>

(* The upload loop visits the keys in any order and goes on past failures;  *)
(* each object goes to the bucket configured at that moment.                *)
UploadKey(r, org) ==
    /\ At(r, "upload")
    /\ org \in named[r] \ (sent[r] \cup failed[r])
    /\ \/ /\ sent' = [sent EXCEPT ![r] = @ \cup {org}]
          /\ objects' = Put(objects, ObjectAt(s3.bucket, Place(Target(r), stamp[r], org)),
                            AsRead(files[Primary(r)]))
          /\ UNCHANGED failed
       \/ /\ "upload" \in Faults
          /\ failed' = [failed EXCEPT ![r] = @ \cup {org}]
          /\ UNCHANGED <<sent, objects>>
    /\ UNCHANGED <<pc, todo, stamp, rid, named, store, files, s3, flags, clock, ghosts>>

(* One status for all the keys that were made, of which there may be none.  *)
(* The mutant is content with one of the keys.                              *)
RecordUploadOfAny(r) ==
    /\ At(r, "upload") /\ sent[r] \cup failed[r] = named[r]
    /\ Goto(r, "close")
    /\ IF sent[r] # {} THEN UpdateS3UploadStatus(r, "success", named[r])
                       ELSE UpdateS3UploadStatus(r, "error", {})
    /\ UNCHANGED <<todo, stamp, rid, named, sent, failed, files, objects, s3, flags,
                   clock, ghosts>>

RecordUpload(r) ==
    /\ At(r, "upload") /\ sent[r] \cup failed[r] = named[r]
    /\ Goto(r, "close")
    /\ IF failed[r] = {} THEN UpdateS3UploadStatus(r, "success", named[r])
                         ELSE UpdateS3UploadStatus(r, "error", {})
    /\ UNCHANGED <<todo, stamp, rid, named, sent, failed, files, objects, s3, flags,
                   clock, ghosts>>

(* The records a run is at work on: there is one of them.                   *)
OwnRecords(r) == {n \in DOMAIN origin : origin[n].run = r /\ origin[n].left = Len(todo[r])}

(* The deferred close of the writer, after everything else has been done;   *)
(* when the last of the stream cannot be written, nobody hears of it.       *)
Close(r) ==
    /\ At(r, "close")
    /\ Goto(r, "return")
    /\ \/ /\ files' = Put(files, Primary(r), Closed(files[Primary(r)], "whole"))
          /\ UNCHANGED torn
       \/ /\ "close" \in Faults
          /\ files' = Put(files, Primary(r), Closed(files[Primary(r)], "cut"))
          /\ torn' = torn \cup OwnRecords(r)
    /\ UNCHANGED <<todo, stamp, rid, named, sent, failed, store, objects, s3, flags,
                   clock, origin, interrupted, refused, changes>>

(* backupDatabase is over, a temporary directory removed: the loop of       *)
(* PerformBackup takes the next database.                                   *)
Return(r) ==
    /\ At(r, "return")
    /\ todo' = [todo EXCEPT ![r] = Tail(@)]
    /\ Goto(r, IF Len(todo[r]) > 1 THEN "begin" ELSE "end")
    /\ named' = [named EXCEPT ![r] = {}]
    /\ sent' = [sent EXCEPT ![r] = {}]
    /\ failed' = [failed EXCEPT ![r] = {}]
    /\ files' = IF LocalOn THEN files ELSE Without(files, Primary(r))
    /\ UNCHANGED <<stamp, rid, store, objects, s3, flags, clock, ghosts>>

(* The run is over; a manual one clears the flag.                           *)
(* The mutant returns without clearing it.                                  *)
EndUncleared(r) ==
    /\ At(r, "end")
    /\ Goto(r, "done")
    /\ UNCHANGED <<todo, stamp, rid, named, sent, failed, store, files, objects, s3, flags,
                   clock, ghosts>>

End(r) ==
    /\ At(r, "end")
    /\ Goto(r, "done")
    /\ isTaskRunning' = (isTaskRunning /\ r \notin Manual)
    /\ UNCHANGED <<todo, stamp, rid, named, sent, failed, store, files, objects, s3,
                   retaining, clock, ghosts>>

Step(r) ==
    \/ SkipServer(r) \/ Begin(r) \/ CreateMeta(r) \/ Prepare(r) \/ OpenOutput(r) \/ Dump(r)
    \/ Copy(r) \/ RecordSuccess(r) \/ CheckS3(r) \/ (\E org \in Organisations : UploadKey(r, org))
    \/ RecordUpload(r) \/ Close(r) \/ Return(r) \/ End(r)

-------------------------------------------------------------------------------
(* What else reaches the records, the flag and the configuration.           *)
DeleteBackup(id) ==
    /\ Cleanup
    /\ Known(backups, id)
    /\ backups' = WithDeletion(backups, id)
    /\ UNCHANGED <<runVars, keys, files, objects, s3, flags, clock, ghosts>>

(* EnforceRetentionPolicies as far as the records go: first of all it       *)
(* purges.  Cron calls it at any time, the handler under the flag.          *)
Purge ==
    /\ Cleanup
    /\ backups' = Purged(backups, clock)
    /\ UNCHANGED <<runVars, keys, files, objects, s3, flags, clock, ghosts>>

TriggerRetention ==
    /\ Cleanup
    /\ ~isTaskRunning
    /\ isTaskRunning' = TRUE
    /\ retaining' = TRUE
    /\ UNCHANGED <<runVars, store, files, objects, s3, clock, ghosts>>

RetentionTask ==
    /\ retaining
    /\ backups' = Purged(backups, clock)
    /\ isTaskRunning' = FALSE
    /\ retaining' = FALSE
    /\ UNCHANGED <<runVars, keys, files, objects, s3, clock, ghosts>>

(* The administrator changes CFG.S3, without a lock; the client of the      *)
(* backup manager stays.  A run reads one field at a time, so a change half *)
(* made looks to it like one that changes fewer fields.                     *)
updateS3Config ==
    /\ changes < MaxChanges
    /\ changes' = changes + 1
    /\ \E enabled \in BOOLEAN, bucket \in Buckets :
          s3' = [enabled |-> enabled, bucket |-> bucket, client |-> s3.client]
    /\ UNCHANGED <<runVars, store, files, objects, flags, clock, origin, interrupted,
                   refused, torn>>

(* The run that made record n is still working on that database ...         *)
Busy(n, labels) ==
    /\ pc[origin[n].run] \in labels
    /\ Len(todo[origin[n].run]) = origin[n].left

(* ... and has not recorded an outcome, or has not let go of the files.     *)
Undecided(n) == Busy(n, {"prepare", "open", "dump", "copy", "record"})
Unfinished(n) == Undecided(n) \/ Busy(n, {"check", "upload", "close"})

(* The process dies and is started again: runs are gone, open files stay    *)
(* without their end, the records are as they were saved.  CFG.S3 is read   *)
(* again, from the environment or from the database the change was saved    *)
(* to, and the client made from it.                                         *)
AtStart(enabled, bucket) == [enabled |-> enabled, bucket |-> bucket, client |-> enabled]

Crash ==
    /\ "crash" \in Faults
    /\ pc' = [r \in Runs |-> IF pc[r] = "idle" THEN "idle" ELSE "done"]
    /\ files' = [p \in DOMAIN files |-> AsRead(files[p])]
    /\ s3' \in {AtStart(CfgS3, CfgBucket), AtStart(s3.enabled, s3.bucket)}
    /\ isTaskRunning' = FALSE
    /\ retaining' = FALSE
    /\ interrupted' = interrupted \cup {n \in DOMAIN origin : Unfinished(n)}
    /\ UNCHANGED <<todo, stamp, rid, named, sent, failed, store, objects, clock, origin,
                   refused, torn, changes>>

Tick ==
    /\ clock < MaxClock
    /\ clock' = clock + 1
    /\ UNCHANGED <<runVars, store, files, objects, s3, flags, ghosts>>

Next ==
    \/ \E r \in Runs : Fire(r) \/ Step(r)
    \/ \E id \in {backups[n].id : n \in DOMAIN backups} : DeleteBackup(id)
    \/ Purge \/ TriggerRetention \/ RetentionTask \/ updateS3Config \/ Crash \/ Tick

Spec == Init /\ [][Next]_vars

(* A goroutine that can go on goes on; nothing obliges cron or a user to    *)
(* start one.  Fairness of Dump assumes that mysqldump ends: the code waits *)
(* for it without a timeout.                                                *)
Fairness == (\A r \in Runs : WF_vars(Step(r))) /\ WF_vars(RetentionTask)
FairSpec == Spec /\ Fairness

-------------------------------------------------------------------------------
(* Whoever downloads a backup names it by its identifier.  The first record *)
(* of that identifier knows one path and one key, those by server; the link *)
(* to an object is made while S3 is configured, for the bucket configured,  *)
(* whether the object is there or not.                                      *)
FileOf(n, org) == Place(origin[n].target, origin[n].stamp, org)
GetBackupByID(id) == CHOOSE n \in DOMAIN backups : IsFirst(backups, id, n)

NotFound == "not found"

downloadLocalBackupHandler(id) ==
    LET n == GetBackupByID(id)
        LocalPath == FileOf(n, "by-server")
    IN  IF Known(backups, id) /\ backups[n].paths # {} /\ LocalPath \in DOMAIN files
        THEN AsRead(files[LocalPath])
        ELSE NotFound

downloadS3BackupHandler(id) ==
    LET n == GetBackupByID(id)
    IN  IF Known(backups, id) /\ "by-server" \in keys[n] /\ s3.enabled
        THEN {ObjectAt(s3.bucket, FileOf(n, "by-server"))}
        ELSE {}

-------------------------------------------------------------------------------
Labels == {"idle", "begin", "create", "prepare", "open", "dump", "copy", "record", "check",
           "upload", "close", "return", "end", "done"}
Places == (Targets \X Nat \X Organisations) \cup (Runs \X {0} \X {"temp"})

TypeOK ==
    /\ pc \in [Runs -> Labels]
    /\ \A r \in Runs : todo[r] \in Seq(Targets) /\ rid[r] \in Ids /\ stamp[r] \in Nat
    /\ {named, sent, failed} \subseteq [Runs -> SUBSET Organisations]
    /\ IsLog(backups)
    /\ keys \in [DOMAIN origin -> SUBSET Organisations]
    /\ DOMAIN files \subseteq Places /\ files \in [DOMAIN files -> Contents]
    /\ DOMAIN objects \subseteq Buckets \X Places /\ objects \in [DOMAIN objects -> Contents]
    /\ s3 \in [enabled: BOOLEAN, bucket: Buckets, client: BOOLEAN]
    /\ {isTaskRunning, retaining} \subseteq BOOLEAN
    /\ clock \in Nat \ {0}

Holds(f, key, content) == key \in DOMAIN f /\ f[key] = content

(* "StatusPending indicates a backup is in progress": a record is pending   *)
(* only while its run is on its way to an outcome, so every way out of      *)
(* backupDatabase but the death of the process records one, unless the      *)
(* store refuses it.                                                        *)
PendingMeansInProgress ==
    \A n \in DOMAIN backups \ (interrupted \cup refused) :
        backups[n].status = "pending" => Undecided(n)

(* "StatusSuccess indicates a successful backup": once its run has let go,  *)
(* who downloads a successful backup gets a whole dump, that of this very   *)
(* record, unless the process died between recording success and closing    *)
(* the file, or the end of the file could not be written then.              *)
SuccessIsRestorable ==
    \A n \in DOMAIN backups \ (interrupted \cup torn) :
        (LocalOn /\ backups[n].status = "success" /\ ~Unfinished(n)) =>
            /\ downloadLocalBackupHandler(backups[n].id) = "whole"
            /\ Holds(files, FileOf(n, "by-server"), "whole")

(* An upload is recorded as successful only when an object went to every    *)
(* key its run had made, whatever order they were tried in, whichever       *)
(* failed, and whatever became of the configuration on the way.  As long as *)
(* nobody changes the configuration there are such keys, and the link to    *)
(* the backup leads to its object.                                          *)
S3SuccessMeansUploaded ==
    \A n \in DOMAIN backups : backups[n].s3 = "success" =>
        /\ keys[n] = origin[n].named
        /\ \A org \in keys[n] : \E bucket \in Buckets :
              ObjectAt(bucket, FileOf(n, org)) \in DOMAIN objects
        /\ changes = 0 =>
              \E object \in downloadS3BackupHandler(backups[n].id) : object \in DOMAIN objects

(* The admin server's flag is up exactly while one task that took it runs,  *)
(* backup or retention, and there is never a second one.                    *)
Active(r) == pc[r] \notin {"idle", "done"}
ManualTasks == {r \in Manual : Active(r)} \cup (IF retaining THEN {"retention"} ELSE {})
OneManualTask ==
    /\ Cardinality(ManualTasks) <= 1
    /\ isTaskRunning <=> ManualTasks # {}

(* A record marked deleted comes back to life only through the backup that  *)
(* was still running when it was deleted.                                   *)
OnlyItsRunRevives ==
    [][\A n \in DOMAIN backups \cap DOMAIN backups' :
          (backups[n].status = "deleted" /\ backups'[n].status # "deleted") => Undecided(n)]_vars

(* Every record of a backup gets an outcome, or is deleted and dropped,     *)
(* whatever fails on the way, unless the process dies or the store refuses  *)
(* the outcome.                                                             *)
Pending(n) ==
    n \in DOMAIN backups \ (interrupted \cup refused) /\ backups[n].status = "pending"
AllNumbers == 1..Cardinality({p \in Runs \X (1..3) : p[2] <= Len(Work[p[1]])})
EveryRecordSettles == \A n \in AllNumbers : Pending(n) ~> ~Pending(n)

(* The flag never stays up for good: a failed task clears it as well.       *)
FlagIsCleared == isTaskRunning ~> ~isTaskRunning

(* "Upload the file to all S3 paths": what a record calls a successful      *)
(* upload is the backup.                                                    *)
ObjectIsTheBackup ==
    \A n \in DOMAIN backups : backups[n].s3 = "success" =>
        \A org \in keys[n] : \E bucket \in Buckets :
            Holds(objects, ObjectAt(bucket, FileOf(n, org)), "whole")
===============================================================================
