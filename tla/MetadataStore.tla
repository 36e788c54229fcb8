----------------------------- MODULE MetadataStore -----------------------------
(***************************************************************************)
(* The file-based metadata store (pkg/metadata/metadata.go).  The log of   *)
(* records lives in memory under a mutex; every operation that changes it  *)
(* rewrites metadata.json before it releases the mutex.  os.WriteFile      *)
(* truncates the file and then writes it, so a save is two steps with the  *)
(* mutex held: the process may die in between, and the file is then torn.  *)
(***************************************************************************)
EXTENDS BackupRecords

CONSTANTS
    Sizes,         (* sizes of backup files                                  *)
    LocalEnabled,  (* config.CFG.Local.Enabled: a lasting place for the file *)
    Faults,        (* the faults that may happen                             *)
    MaxClock,      (* bound: the last second                                 *)
    MaxRecords     (* bound: the number of records ever appended             *)

FaultKinds == {"crash", "crash_in_save", "open_error", "write_error", "read_error"}

ASSUME StoreAssumption ==
    /\ Sizes \subseteq Nat
    /\ LocalEnabled \in BOOLEAN
    /\ Faults \subseteq FaultKinds
    /\ MaxClock \in Nat
    /\ MaxRecords \in Nat

VARIABLES
    up,        (* the process runs                                           *)
    lock,      (* "saving" while an operation is inside os.WriteFile         *)
    backups,   (* Store.metadata.Backups                                     *)
    totals,    (* Store.metadata.TotalLocalSize and TotalS3Size              *)
    file,      (* metadata.json                                              *)
    clock      (* the second time.Now() returns                              *)

(* Observations of the run, read by no operation.                           *)
VARIABLES
    appended,  (* how many records were ever appended                        *)
    saved,     (* the log written by the last save that completed            *)
    dirty      (* the last save did not reach the file                       *)

memory == <<backups, totals>>
ghosts == <<appended, saved, dirty>>
vars == <<up, lock, backups, totals, file, clock, appended, saved, dirty>>

Absent == [state |-> "absent", log |-> EmptyLog, totals |-> Totals(EmptyLog)]
Torn   == [state |-> "torn", log |-> EmptyLog, totals |-> Totals(EmptyLog)]
Whole(bs, ts) == [state |-> "whole", log |-> bs, totals |-> ts]

Init ==
    /\ up = FALSE
    /\ lock = "free"
    /\ backups = EmptyLog
    /\ totals = Totals(EmptyLog)
    /\ file = Absent
    /\ clock = 1
    /\ appended = 0
    /\ saved = EmptyLog
    /\ dirty = FALSE

-------------------------------------------------------------------------------
(* Mutant of BeginSave: the totals are left as they were.                   *)
BeginSaveStaleTotals(bs) ==
    /\ backups' = bs
    /\ totals' = totals
    /\ file' = Torn
    /\ lock' = "saving"
    /\ UNCHANGED dirty

(* save(), first half: the totals are recomputed and the file is opened and *)
(* truncated, or it cannot be opened and the caller goes on regardless.     *)
BeginSave(bs) ==
    /\ backups' = bs
    /\ totals' = Totals(bs)
    /\ \/ /\ file' = Torn
          /\ lock' = "saving"
          /\ UNCHANGED dirty
       \/ /\ "open_error" \in Faults
          /\ dirty' = TRUE
          /\ UNCHANGED <<file, lock>>

(* save(), second half: the bytes are written and the mutex is released.    *)
FinishSave ==
    /\ up /\ lock = "saving"
    /\ lock' = "free"
    /\ \/ /\ file' = Whole(backups, totals)
          /\ saved' = backups
          /\ dirty' = FALSE
       \/ /\ "write_error" \in Faults
          /\ dirty' = TRUE
          /\ UNCHANGED <<file, saved>>
    /\ UNCHANGED <<up, backups, totals, clock, appended>>

(* Mutant of Start: the temporary directory is used with local storage too. *)
StartAfresh ==
    /\ ~up
    /\ up' = TRUE
    /\ BeginSave(EmptyLog)
    /\ UNCHANGED <<clock, appended, saved>>

(* Initialize and Load: a store without local storage uses a fresh          *)
(* temporary directory; a file that cannot be read or parsed is only warned *)
(* about and the store starts empty.                                        *)
Start ==
    /\ ~up
    /\ up' = TRUE
    /\ LET found == IF LocalEnabled THEN file ELSE Absent
       IN  \/ /\ found.state = "absent"
              /\ BeginSave(EmptyLog)
           \/ /\ found.state = "whole"
              /\ backups' = found.log
              /\ totals' = Totals(found.log)
              /\ dirty' = FALSE
              /\ UNCHANGED <<file, lock>>
           \/ /\ found.state = "torn" \/ (found.state = "whole" /\ "read_error" \in Faults)
              /\ backups' = EmptyLog
              /\ totals' = Totals(EmptyLog)
              /\ dirty' = TRUE
              /\ UNCHANGED <<file, lock>>
    /\ UNCHANGED <<clock, appended, saved>>

(* An operation that holds the mutex.                                       *)
Operation == up /\ lock = "free" /\ UNCHANGED <<up, clock, saved>>

CreateBackupMeta(t) ==
    /\ Operation
    /\ appended < MaxRecords
    /\ appended' = appended + 1
    /\ BeginSave(WithNew(backups, appended', t, clock))

UpdateBackupStatus(id, status, paths, size) ==
    /\ Operation
    /\ Known(backups, id)
    /\ BeginSave(WithStatus(backups, id, status, paths, size, clock))
    /\ UNCHANGED appended

UpdateS3UploadStatus(id, status) ==
    /\ Operation
    /\ Known(backups, id)
    /\ BeginSave(WithUpload(backups, id, status))
    /\ UNCHANGED appended

(* The path of the log file is not part of Record: what is left is the save.*)
UpdateLogFilePath(id) ==
    /\ Operation
    /\ Known(backups, id)
    /\ BeginSave(backups)
    /\ UNCHANGED appended

(* Mutant: the deletion is not saved.                                       *)
MarkBackupDeletedUnsaved(id) ==
    /\ Operation
    /\ Known(backups, id)
    /\ backups' = WithDeletion(backups, id)
    /\ totals' = Totals(backups')
    /\ UNCHANGED <<file, lock, dirty, appended>>

MarkBackupDeleted(id) ==
    /\ Operation
    /\ Known(backups, id)
    /\ BeginSave(WithDeletion(backups, id))
    /\ UNCHANGED appended

PurgeDeletedBackups ==
    /\ Operation
    /\ \E n \in DOMAIN backups : Purgeable(backups[n], clock)
    /\ BeginSave(Purged(backups, clock))
    /\ UNCHANGED appended

(* Save(), as cmd/metadata-recovery and the tests call it.                  *)
Save ==
    /\ Operation
    /\ BeginSave(backups)
    /\ UNCHANGED appended

-------------------------------------------------------------------------------
(* What the process is at the mercy of.                                     *)
Crash ==
    /\ up
    /\ \/ lock = "free" /\ "crash" \in Faults
       \/ lock = "saving" /\ "crash_in_save" \in Faults
    /\ up' = FALSE
    /\ lock' = "free"
    /\ backups' = EmptyLog
    /\ totals' = Totals(EmptyLog)
    /\ UNCHANGED <<file, clock, ghosts>>

Tick ==
    /\ clock < MaxClock
    /\ clock' = clock + 1
    /\ UNCHANGED <<up, lock, memory, file, ghosts>>

(* What the callers pass: a finished backup with its files, or a failure.   *)
LocalPaths == IF LocalEnabled THEN Organisations ELSE {}
KnownIds == {backups[n].id : n \in DOMAIN backups}

Next ==
    \/ Start \/ FinishSave \/ Crash \/ Tick \/ Save \/ PurgeDeletedBackups
    \/ \E t \in Targets : CreateBackupMeta(t)
    \/ \E id \in KnownIds :
          \/ \E size \in Sizes : UpdateBackupStatus(id, "success", LocalPaths, size)
          \/ UpdateBackupStatus(id, "error", {}, 0)
          \/ \E status \in {"success", "error"} : UpdateS3UploadStatus(id, status)
          \/ UpdateLogFilePath(id)
          \/ MarkBackupDeleted(id)

Spec == Init /\ [][Next]_vars

-------------------------------------------------------------------------------
(* Shape of the state: memory and file hold logs numbered by appends.       *)
IsFile(f) ==
    /\ f.state \in {"absent", "torn", "whole"}
    /\ IsLog(f.log)
    /\ f.state = "whole" => f = Whole(f.log, f.totals)

TypeOK ==
    /\ up \in BOOLEAN
    /\ lock \in {"free", "saving"}
    /\ IsLog(backups)
    /\ IsFile(file)
    /\ clock \in Nat \ {0}
    /\ appended \in Nat
    /\ IsLog(saved)
    /\ dirty \in BOOLEAN

(* No operation releases the mutex with changes it has not put into the     *)
(* file, unless the write itself failed: every path out of every operation  *)
(* saves what it changed.                                                   *)
FileIsCurrent ==
    (up /\ lock = "free" /\ ~dirty) => file = Whole(backups, totals)

(* The totals shown on the dashboard are those of the records, in memory    *)
(* and in the file, after whatever sequence of edits, purges and restarts.  *)
TotalsAgree ==
    /\ totals = Totals(backups)
    /\ file.totals = Totals(file.log)

(* PurgeDeletedBackups ages a record by its completion time, so a backup    *)
(* that finished must carry one and a backup in progress must not.          *)
Stamped(r) ==
    /\ r.status = "pending" => r.doneAt = NoTime
    /\ r.status \in {"success", "error"} => r.doneAt \in 1..clock

CompletionIsStamped == \A n \in DOMAIN backups : Stamped(backups[n])

(* A record leaves the running store only after it was marked deleted.      *)
OnlyDeletedVanish ==
    [][up' => \A n \in DOMAIN backups \ DOMAIN backups' :
                  backups[n].status = "deleted"]_vars

(* A restarted store holds what its last completed save wrote               *)
(* ("Maintain metadata persistence across restarts").                       *)
RestartRestoresSaved == [][(~up /\ up') => backups' = saved]_vars

(* With local storage, Load is all or nothing whatever became of the file:  *)
(* a restart restores the last completed save, or starts empty with a       *)
(* warning; never an older log, and never a part of one.                    *)
RestartRestoresOrWarns ==
    [][(LocalEnabled /\ ~up /\ up') =>
           \/ backups' = saved
           \/ backups' = EmptyLog /\ dirty']_vars
===============================================================================
