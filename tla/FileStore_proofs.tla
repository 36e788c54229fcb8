---------------------------- MODULE FileStore_proofs ----------------------------
(***************************************************************************)
(* Proofs about MetadataStore, for every set of targets, every printing of *)
(* their names, every age, every choice of faults and every bound; and     *)
(* about Recovery, which works on that store, for any files, any           *)
(* metadata.json the command may find, any flags and any number of runs.   *)
(***************************************************************************)
EXTENDS Recovery, BackupRecords_proofs, FiniteSetTheorems

(* The three forms of metadata.json.                                        *)
LEMMA FileTypes ==
    /\ IsFile(Absent) /\ IsFile(Torn)
    /\ \A bs, ts : IsLog(bs) => IsFile(Whole(bs, ts))
  BY EmptyLogType DEF IsFile, Absent, Torn, Whole

(* What a save leaves behind, whichever way it goes.                        *)
LEMMA BeginSaveType ==
    ASSUME TypeOK, NEW bs, IsLog(bs), BeginSave(bs)
    PROVE  IsLog(backups') /\ IsFile(file') /\ lock' \in {"free", "saving"} /\ dirty' \in BOOLEAN
  BY FileTypes DEF BeginSave, TypeOK

(* Memory, file and observations keep their shape.                          *)
THEOREM TypeCorrect == Spec => []TypeOK
<1>1. Init => TypeOK
  <2> SUFFICES ASSUME Init PROVE TypeOK
    OBVIOUS
  <2>1. IsLog(backups) /\ IsLog(saved) /\ IsFile(file)
    BY EmptyLogType, FileTypes, Zenon DEF Init
  <2>2. clock \in Nat \ {0} /\ appended \in Nat
    BY DEF Init
  <2> QED BY <2>1, <2>2, Zenon DEF Init, TypeOK
<1>2. TypeOK /\ [Next]_vars => TypeOK'
  <2> SUFFICES ASSUME TypeOK, [Next]_vars PROVE TypeOK'
    OBVIOUS
  <2> USE StoreAssumption
  <2>1. CASE Start
    <3> DEFINE found == IF LocalEnabled THEN file ELSE Absent
    <3>1. IsLog(found.log)
      BY EmptyLogType DEF TypeOK, IsFile, Absent
    <3>2. CASE BeginSave(EmptyLog)
      BY <2>1, <3>2, EmptyLogType, BeginSaveType DEF Start, TypeOK
    <3>3. CASE backups' = found.log /\ dirty' = FALSE /\ UNCHANGED <<file, lock>>
      BY <2>1, <3>1, <3>3 DEF Start, TypeOK
    <3>4. CASE backups' = EmptyLog /\ dirty' = TRUE /\ UNCHANGED <<file, lock>>
      BY <2>1, <3>4, EmptyLogType DEF Start, TypeOK
    <3> QED BY <2>1, <3>2, <3>3, <3>4 DEF Start
  <2>2. CASE FinishSave
    BY <2>2, FileTypes DEF FinishSave, TypeOK
  <2>3. CASE Crash
    BY <2>3, EmptyLogType DEF Crash, TypeOK, ghosts
  <2>4. CASE Tick
    BY <2>4 DEF Tick, TypeOK, memory, ghosts
  <2>5. CASE Save
    BY <2>5, BeginSaveType DEF Save, Operation, TypeOK
  <2>6. CASE PurgeDeletedBackups
    <3>1. IsLog(Purged(backups, clock))
      BY PurgedType DEF TypeOK
    <3> QED BY <2>6, <3>1, BeginSaveType DEF PurgeDeletedBackups, Operation, TypeOK
  <2>7. ASSUME NEW t \in Targets, CreateBackupMeta(t) PROVE TypeOK'
    <3>1. appended' \in Numbers
      BY <2>7 DEF CreateBackupMeta, TypeOK, Numbers
    <3>2. IsLog(WithNew(backups, appended', t, clock))
      BY <3>1, WithNewType DEF TypeOK
    <3> QED BY <2>7, <3>1, <3>2, BeginSaveType
            DEF CreateBackupMeta, Operation, TypeOK, Numbers
  <2>8. ASSUME NEW id, NEW status \in {"success", "error"},
               NEW paths \in SUBSET Organisations, NEW size \in Nat,
               UpdateBackupStatus(id, status, paths, size)
        PROVE  TypeOK'
    <3>1. IsLog(WithStatus(backups, id, status, paths, size, clock))
      BY WithStatusType DEF TypeOK, Statuses
    <3> QED BY <2>8, <3>1, BeginSaveType DEF UpdateBackupStatus, Operation, TypeOK
  <2>9. ASSUME NEW id, NEW status \in {"success", "error"},
               UpdateS3UploadStatus(id, status)
        PROVE  TypeOK'
    <3>1. IsLog(WithUpload(backups, id, status))
      BY WithUploadType DEF TypeOK, Statuses
    <3> QED BY <2>9, <3>1, BeginSaveType DEF UpdateS3UploadStatus, Operation, TypeOK
  <2>10. ASSUME NEW id, UpdateLogFilePath(id) PROVE TypeOK'
    BY <2>10, BeginSaveType DEF UpdateLogFilePath, Operation, TypeOK
  <2>11. ASSUME NEW id, MarkBackupDeleted(id) PROVE TypeOK'
    <3>1. IsLog(WithDeletion(backups, id))
      BY WithDeletionType DEF TypeOK
    <3> QED BY <2>11, <3>1, BeginSaveType DEF MarkBackupDeleted, Operation, TypeOK
  <2>12. CASE UNCHANGED vars
    BY <2>12 DEF vars, TypeOK
  <2>13. LocalPaths \in SUBSET Organisations /\ {} \in SUBSET Organisations /\ 0 \in Nat
    BY DEF LocalPaths
  <2> QED
    BY <2>1, <2>2, <2>3, <2>4, <2>5, <2>6, <2>7, <2>8, <2>9, <2>10, <2>11, <2>12, <2>13
    DEF Next
<1> QED BY <1>1, <1>2, PTL DEF Spec

-------------------------------------------------------------------------------
(* The mutex dies with the process, and so does the log in memory.          *)
DeadIsEmpty == ~up => lock = "free" /\ backups = EmptyLog

(* FileIsCurrent is not inductive: a restart takes over the file's log and  *)
(* recomputes the totals, so the file's own totals must be right as well.   *)
StoreInv == DeadIsEmpty /\ FileIsCurrent /\ TotalsAgree

(* Every step of the program except Crash, Start and Tick is one of these.  *)
LEMMA StepCases ==
    ASSUME TypeOK, Next
    PROVE  \/ Start \/ FinishSave \/ Crash \/ Tick
           \/ Operation /\ \E bs : BeginSave(bs)
  BY DEF Next, Save, PurgeDeletedBackups, CreateBackupMeta, UpdateBackupStatus,
         UpdateS3UploadStatus, UpdateLogFilePath, MarkBackupDeleted

(* File and totals agree with the records throughout, the file's totals too.*)
LEMMA StoreInvariant == Spec => []StoreInv
<1>1. Init => StoreInv
  BY DEF Init, StoreInv, DeadIsEmpty, FileIsCurrent, TotalsAgree, Absent
<1>2. TypeOK /\ StoreInv /\ [Next]_vars => StoreInv'
  <2> SUFFICES ASSUME TypeOK, StoreInv, [Next]_vars PROVE StoreInv'
    OBVIOUS
  <2> USE DEF StoreInv, DeadIsEmpty, FileIsCurrent, TotalsAgree
  <2>0. ASSUME NEW bs, BeginSave(bs), up' PROVE StoreInv'
    BY <2>0 DEF BeginSave, Torn
  <2>1. CASE Start
    <3> DEFINE found == IF LocalEnabled THEN file ELSE Absent
    <3>1. CASE BeginSave(EmptyLog)
      BY <2>0, <2>1, <3>1 DEF Start
    <3>2. CASE /\ found.state = "whole"
               /\ backups' = found.log /\ totals' = Totals(found.log)
               /\ UNCHANGED <<file, lock>>
      <4>1. found = file /\ file = Whole(file.log, file.totals)
        BY <3>2 DEF Absent, TypeOK, IsFile
      <4> QED BY <2>1, <3>2, <4>1 DEF Start
    <3>3. CASE /\ backups' = EmptyLog /\ totals' = Totals(EmptyLog) /\ dirty' = TRUE
               /\ UNCHANGED <<file, lock>>
      BY <2>1, <3>3 DEF Start
    <3> QED BY <2>1, <3>1, <3>2, <3>3 DEF Start
  <2>2. CASE FinishSave
    BY <2>2 DEF FinishSave, Whole
  <2>3. CASE Crash
    BY <2>3 DEF Crash
  <2>4. CASE Tick
    BY <2>4 DEF Tick, memory, ghosts
  <2>5. CASE Operation /\ \E bs : BeginSave(bs)
    BY <2>0, <2>5 DEF Operation
  <2>6. CASE UNCHANGED vars
    BY <2>6 DEF vars
  <2> QED BY <2>1, <2>2, <2>3, <2>4, <2>5, <2>6, StepCases
<1> QED BY <1>1, <1>2, TypeCorrect, PTL DEF Spec

(* No operation releases the mutex with unsaved changes unless its write    *)
(* failed.                                                                  *)
THEOREM FileCurrent == Spec => []FileIsCurrent
  BY StoreInvariant, PTL DEF StoreInv

(* The totals of memory and of the file are those of their records.         *)
THEOREM TotalsCorrect == Spec => []TotalsAgree
  BY StoreInvariant, PTL DEF StoreInv

-------------------------------------------------------------------------------
(* Completion stamps, in memory and in the file a restart would load.       *)
LogStamped(bs) == \A n \in DOMAIN bs : Stamped(bs[n])

StampInv == LogStamped(backups) /\ LogStamped(file.log)

(* The logs without records have nothing to stamp.                          *)
LEMMA EmptyStamped == LogStamped(EmptyLog) /\ LogStamped(Absent.log) /\ LogStamped(Torn.log)
  BY DEF LogStamped, EmptyLog, Absent, Torn

(* What the operations put into memory.                                     *)
LEMMA EditsStamped ==
    ASSUME TypeOK, LogStamped(backups)
    PROVE  /\ \A n \in Numbers, t \in Targets : LogStamped(WithNew(backups, n, t, clock))
           /\ \A id, paths, size : \A status \in {"success", "error"} :
                 paths \in SUBSET Organisations /\ size \in Nat
                 => LogStamped(WithStatus(backups, id, status, paths, size, clock))
           /\ \A id : \A status \in {"success", "error"} :
                 LogStamped(WithUpload(backups, id, status))
           /\ \A id : LogStamped(WithDeletion(backups, id))
           /\ LogStamped(Purged(backups, clock))
  <1>1. \A n \in DOMAIN backups : backups[n] \in Record /\ Stamped(backups[n])
    BY DEF TypeOK, IsLog, LogStamped
  <1>2. \A t \in Targets : Stamped(NewRecord(t, clock))
    BY DEF Stamped, NewRecord, NoTime
  <1>3. ASSUME NEW n \in DOMAIN backups, NEW status \in {"success", "error"},
               NEW paths \in SUBSET Organisations, NEW size \in Nat
        PROVE  /\ Stamped(Settled(backups[n], status, paths, size, clock))
               /\ Stamped(Uploaded(backups[n], status))
               /\ Stamped(Deleted(backups[n]))
    <2>1. backups[n] \in Record /\ Stamped(backups[n])
      BY <1>1
    <2>2. Stamped(Settled(backups[n], status, paths, size, clock))
      BY <2>1 DEF Settled, Stamped, Record, TypeOK
    <2>3. Stamped(Uploaded(backups[n], status)) /\ Stamped(Deleted(backups[n]))
      BY <2>1 DEF Uploaded, Deleted, Stamped, Record
    <2> QED BY <2>2, <2>3
  <1>4. \A n \in Numbers, t \in Targets : LogStamped(WithNew(backups, n, t, clock))
    BY <1>1, <1>2 DEF LogStamped, WithNew
  <1>5. \A id, paths, size : \A status \in {"success", "error"} :
           paths \in SUBSET Organisations /\ size \in Nat
           => LogStamped(WithStatus(backups, id, status, paths, size, clock))
    BY <1>1, <1>3 DEF LogStamped, WithStatus, EditFirst
  <1>6. \A id : \A status \in {"success", "error"} : LogStamped(WithUpload(backups, id, status))
    <2>1. {} \in SUBSET Organisations /\ 0 \in Nat
      OBVIOUS
    <2> QED BY <1>1, <1>3, <2>1 DEF LogStamped, WithUpload, EditFirst
  <1>7. \A id : LogStamped(WithDeletion(backups, id))
    <2>1. {} \in SUBSET Organisations /\ 0 \in Nat /\ "error" \in {"success", "error"}
      OBVIOUS
    <2> QED BY <1>1, <1>3, <2>1 DEF LogStamped, WithDeletion, EditFirst
  <1>8. LogStamped(Purged(backups, clock))
    BY <1>1 DEF LogStamped, Purged
  <1> QED BY <1>4, <1>5, <1>6, <1>7, <1>8

(* The clock is moved by Tick alone, and by one second.                     *)
LEMMA ClockSteps ==
    ASSUME TypeOK, [Next]_vars
    PROVE  clock' = clock \/ (Tick /\ clock' = clock + 1)
  BY StepCases DEF Start, FinishSave, Crash, Tick, Operation, vars

(* What a step puts into memory, and what it puts into the file.            *)
LEMMA MemorySteps ==
    ASSUME TypeOK, Next, LogStamped(backups), LogStamped(file.log)
    PROVE  LogStamped(backups')
  <1>1. CASE Start
    BY <1>1, EmptyStamped DEF Start, BeginSave
  <1>2. CASE FinishSave \/ Tick \/ Save \/ \E id \in KnownIds : UpdateLogFilePath(id)
    BY <1>2 DEF FinishSave, Tick, memory, Save, UpdateLogFilePath, BeginSave
  <1>3. CASE Crash
    BY <1>3, EmptyStamped DEF Crash
  <1>4. CASE PurgeDeletedBackups
    BY <1>4, EditsStamped DEF PurgeDeletedBackups, BeginSave
  <1>5. CASE \E t \in Targets : CreateBackupMeta(t)
    <2>1. PICK t \in Targets : CreateBackupMeta(t)
      BY <1>5
    <2>2. appended' \in Numbers
      BY <2>1 DEF CreateBackupMeta, TypeOK, Numbers
    <2> QED BY <2>1, <2>2, EditsStamped DEF CreateBackupMeta, BeginSave
  <1>6. CASE \E id \in KnownIds :
                \/ \E size \in Sizes : UpdateBackupStatus(id, "success", LocalPaths, size)
                \/ UpdateBackupStatus(id, "error", {}, 0)
    BY <1>6, EditsStamped, StoreAssumption DEF UpdateBackupStatus, BeginSave, LocalPaths
  <1>7. CASE \E id \in KnownIds : \E status \in {"success", "error"} :
                UpdateS3UploadStatus(id, status)
    BY <1>7, EditsStamped DEF UpdateS3UploadStatus, BeginSave
  <1>8. CASE \E id \in KnownIds : MarkBackupDeleted(id)
    BY <1>8, EditsStamped DEF MarkBackupDeleted, BeginSave
  <1> QED BY <1>1, <1>2, <1>3, <1>4, <1>5, <1>6, <1>7, <1>8 DEF Next

(* A step leaves the file, tears it, or writes the records of memory to it. *)
LEMMA FileSteps ==
    ASSUME TypeOK, [Next]_vars
    PROVE  file' \in {file, Torn} \/ file'.log = backups
  <1>1. ASSUME NEW bs, BeginSave(bs) PROVE file' \in {file, Torn}
    BY <1>1 DEF BeginSave
  <1>2. CASE Start
    BY <1>1, <1>2 DEF Start
  <1>3. CASE FinishSave
    BY <1>3 DEF FinishSave, Whole
  <1>4. CASE Crash \/ Tick \/ UNCHANGED vars
    BY <1>4 DEF Crash, Tick, vars
  <1> QED BY <1>1, <1>2, <1>3, <1>4, StepCases

(* Every finished record carries the second it finished in, and no record   *)
(* in progress does, across edits, saves, crashes and restarts.             *)
THEOREM CompletionStamped == Spec => []CompletionIsStamped
<1>1. Init => StampInv
  BY EmptyStamped DEF Init, StampInv
<1>2. TypeOK /\ TypeOK' /\ StampInv /\ [Next]_vars => StampInv'
  <2> SUFFICES ASSUME TypeOK, TypeOK', StampInv, [Next]_vars PROVE StampInv'
    OBVIOUS
  <2>1. LogStamped(backups') /\ LogStamped(file'.log)
    <3>1. CASE Next
      BY <3>1, MemorySteps, FileSteps, EmptyStamped DEF StampInv
    <3>2. CASE UNCHANGED vars
      BY <3>2 DEF vars, StampInv
    <3> QED BY <3>1, <3>2
  <2>2. IsLog(backups') /\ IsLog(file'.log)
    BY DEF TypeOK, IsFile
  <2>3. clock' \in {clock, clock + 1}
    BY ClockSteps
  <2>4. ASSUME NEW bs, IsLog(bs), LogStamped(bs), NEW n \in DOMAIN bs
        PROVE  /\ bs[n].status = "pending" => bs[n].doneAt = NoTime
               /\ bs[n].status \in {"success", "error"} => bs[n].doneAt \in 1..clock'
    BY <2>3, <2>4 DEF LogStamped, Stamped, TypeOK, IsLog, Record
  <2> QED BY <2>1, <2>2, <2>4 DEF StampInv, LogStamped, Stamped
<1>3. StampInv => CompletionIsStamped
  BY DEF StampInv, LogStamped, CompletionIsStamped
<1> QED BY <1>1, <1>2, <1>3, TypeCorrect, PTL DEF Spec

-------------------------------------------------------------------------------
(* Nothing but a purge of deleted records removes a record from the running *)
(* store.                                                                   *)
THEOREM NothingLiveVanishes == Spec => OnlyDeletedVanish
<1>1. TypeOK /\ StoreInv /\ [Next]_vars =>
        [up' => \A n \in DOMAIN backups \ DOMAIN backups' : backups[n].status = "deleted"]_vars
  <2> SUFFICES ASSUME TypeOK, StoreInv, Next, up', NEW n \in DOMAIN backups, n \notin DOMAIN backups'
               PROVE  backups[n].status = "deleted"
    BY DEF vars
  <2>1. ~Start
    BY DEF Start, StoreInv, DeadIsEmpty, EmptyLog
  <2>2. ~(FinishSave \/ Tick \/ Save \/ \E id \in KnownIds : UpdateLogFilePath(id))
    BY DEF FinishSave, Tick, memory, Save, UpdateLogFilePath, BeginSave
  <2>3. ~Crash
    BY DEF Crash
  <2>4. CASE PurgeDeletedBackups
    BY <2>4 DEF PurgeDeletedBackups, BeginSave, Purged, Purgeable
  <2>5. ~\E t \in Targets : CreateBackupMeta(t)
    BY DEF CreateBackupMeta, BeginSave, WithNew
  <2>6. ~\E id \in KnownIds :
           \/ \E size \in Sizes : UpdateBackupStatus(id, "success", LocalPaths, size)
           \/ UpdateBackupStatus(id, "error", {}, 0)
    BY DEF UpdateBackupStatus, BeginSave, WithStatus, EditFirst
  <2>7. ~\E id \in KnownIds :
           \/ \E status \in {"success", "error"} : UpdateS3UploadStatus(id, status)
           \/ MarkBackupDeleted(id)
    BY DEF UpdateS3UploadStatus, MarkBackupDeleted, BeginSave, WithUpload, WithDeletion, EditFirst
  <2> QED BY <2>1, <2>2, <2>3, <2>4, <2>5, <2>6, <2>7 DEF Next
<1> QED BY <1>1, TypeCorrect, StoreInvariant, PTL DEF Spec, OnlyDeletedVanish

(* What the file holds, if anything, is the last completed save.            *)
SavedInv ==
    /\ file.state = "absent" => saved = EmptyLog
    /\ file.state = "whole" => file.log = saved

(* What the file holds is the last completed save throughout.               *)
LEMMA SavedInvariant == Spec => []SavedInv
<1>1. Init => SavedInv
  BY DEF Init, SavedInv, Absent
<1>2. TypeOK /\ SavedInv /\ [Next]_vars => SavedInv'
  <2> SUFFICES ASSUME TypeOK, SavedInv, [Next]_vars PROVE SavedInv'
    OBVIOUS
  <2>0. ASSUME NEW bs, BeginSave(bs), saved' = saved PROVE SavedInv'
    BY <2>0 DEF BeginSave, SavedInv, Torn
  <2>1. CASE Start
    <3>1. CASE BeginSave(EmptyLog)
      BY <2>0, <2>1, <3>1 DEF Start
    <3>2. CASE UNCHANGED <<file, lock>>
      BY <2>1, <3>2 DEF Start, SavedInv
    <3> QED BY <2>1, <3>1, <3>2 DEF Start
  <2>2. CASE FinishSave
    BY <2>2 DEF FinishSave, SavedInv, Whole
  <2>3. CASE Crash
    BY <2>3 DEF Crash, SavedInv, ghosts
  <2>4. CASE Tick
    BY <2>4 DEF Tick, SavedInv, ghosts
  <2>5. CASE Operation /\ \E bs : BeginSave(bs)
    BY <2>0, <2>5 DEF Operation
  <2>6. CASE UNCHANGED vars
    BY <2>6 DEF vars, SavedInv
  <2> QED BY <2>1, <2>2, <2>3, <2>4, <2>5, <2>6, StepCases
<1> QED BY <1>1, <1>2, TypeCorrect, PTL DEF Spec

(* The only step that starts the process is Start.                          *)
LEMMA OnlyStartStarts ==
    ASSUME TypeOK, Next, ~up, up'
    PROVE  Start
  BY StepCases DEF FinishSave, Crash, Tick, Operation

(* With local storage, and whatever faults happen, a restart restores the   *)
(* last completed save or starts empty with a warning.                      *)
THEOREM RestartAllOrNothing == Spec => RestartRestoresOrWarns
<1>1. TypeOK /\ SavedInv /\ [Next]_vars =>
        [(LocalEnabled /\ ~up /\ up') =>
            \/ backups' = saved
            \/ backups' = EmptyLog /\ dirty']_vars
  <2> SUFFICES ASSUME TypeOK, SavedInv, Next, LocalEnabled, ~up, up'
               PROVE  backups' = saved \/ (backups' = EmptyLog /\ dirty')
    BY DEF vars
  <2> QED BY OnlyStartStarts DEF Start, SavedInv, BeginSave
<1> QED BY <1>1, SavedInvariant, TypeCorrect, PTL DEF Spec, RestartRestoresOrWarns

(* Without a torn write or a failed read the first of the two happens.      *)
NoTornFile == LocalEnabled /\ Faults \subseteq {"crash", "open_error"}

(* A torn file is then only ever seen by the process that is writing it.    *)
TornWhileSaving == file.state = "torn" => up /\ lock = "saving"

(* Where no crash, write or read tears or hides metadata.json, a restart of *)
(* metadata.Initialize restores the last completed save.                    *)
THEOREM RestartSafe == NoTornFile /\ Spec => RestartRestoresSaved
<1> SUFFICES ASSUME NoTornFile PROVE Spec => RestartRestoresSaved
  OBVIOUS
<1> USE DEF NoTornFile
<1>1. Init => TornWhileSaving
  BY DEF Init, TornWhileSaving, Absent
<1>2. TypeOK /\ StoreInv /\ TornWhileSaving /\ [Next]_vars => TornWhileSaving'
  <2> SUFFICES ASSUME TypeOK, StoreInv, TornWhileSaving, [Next]_vars PROVE TornWhileSaving'
    OBVIOUS
  <2>0. ASSUME NEW bs, BeginSave(bs), up' PROVE TornWhileSaving'
    BY <2>0 DEF BeginSave, TornWhileSaving, StoreInv, DeadIsEmpty
  <2>1. CASE Start
    BY <2>0, <2>1 DEF Start, TornWhileSaving
  <2>2. CASE FinishSave
    BY <2>2 DEF FinishSave, TornWhileSaving, Whole
  <2>3. CASE Crash
    BY <2>3 DEF Crash, TornWhileSaving, ghosts
  <2>4. CASE Tick
    BY <2>4 DEF Tick, TornWhileSaving, ghosts
  <2>5. CASE Operation /\ \E bs : BeginSave(bs)
    BY <2>0, <2>5 DEF Operation
  <2>6. CASE UNCHANGED vars
    BY <2>6 DEF vars, TornWhileSaving
  <2> QED BY <2>1, <2>2, <2>3, <2>4, <2>5, <2>6, StepCases
<1>3. TypeOK /\ SavedInv /\ TornWhileSaving /\ [Next]_vars =>
        [(~up /\ up') => backups' = saved]_vars
  <2> SUFFICES ASSUME TypeOK, SavedInv, TornWhileSaving, Next, ~up, up' PROVE backups' = saved
    BY DEF vars
  <2>1. file.state \in {"absent", "whole"}
    BY DEF TornWhileSaving, TypeOK, IsFile
  <2> QED BY <2>1, OnlyStartStarts DEF Start, SavedInv, BeginSave
<1> QED BY <1>1, <1>2, <1>3, TypeCorrect, StoreInvariant, SavedInvariant, PTL
        DEF Spec, RestartRestoresSaved

--------------------------------------------------------------------------------
(* The recovery command.                                                    *)

(* The command gives a record the path "default", which no backup has: its  *)
(* logs have the fields of records, not all their values.                   *)
Fields == {"id", "target", "status", "s3", "paths", "size", "doneAt"}
Shaped(bs) == DOMAIN bs \subseteq Numbers /\ \A n \in DOMAIN bs : DOMAIN bs[n] = Fields

(* A log has the shape, the empty one too.                                  *)
LEMMA LogsAreShaped ==
    /\ Shaped(EmptyLog) /\ DOMAIN EmptyLog = {}
    /\ \A bs : IsLog(bs) => Shaped(bs)
  BY DEF Shaped, Fields, EmptyLog, IsLog, Record

(* An edit leaves every record but the first match as it is, and of that    *)
(* one what it does not name.                                               *)
Edited(bs, id, log) ==
    /\ Shaped(log) /\ DOMAIN log = DOMAIN bs
    /\ \A n \in DOMAIN bs : ~IsFirst(bs, id, n) => log[n] = bs[n]
    /\ \A n \in DOMAIN bs : log[n].id = bs[n].id /\ log[n].target = bs[n].target

(* What the three edits leave of a log, and what they put into the first    *)
(* match.                                                                   *)
LEMMA EditFields ==
    ASSUME NEW bs, Shaped(bs)
    PROVE  /\ \A id, paths, size, now :
                 LET settled == WithStatus(bs, id, "success", paths, size, now)
                 IN  /\ Edited(bs, id, settled)
                     /\ \A n \in DOMAIN bs : IsFirst(bs, id, n) =>
                           settled[n].paths = paths /\ settled[n].size = size
           /\ \A id :
                 LET uploaded == WithUpload(bs, id, "success")
                 IN  /\ Edited(bs, id, uploaded)
                     /\ \A n \in DOMAIN bs : IsFirst(bs, id, n) =>
                           /\ uploaded[n].status = bs[n].status /\ uploaded[n].size = bs[n].size
                           /\ uploaded[n].s3 = "success"
  <1>1. ASSUME NEW r, DOMAIN r = Fields
        PROVE  /\ \A paths, size, now :
                     LET settled == Settled(r, "success", paths, size, now)
                     IN  /\ DOMAIN settled = Fields
                         /\ settled.id = r.id /\ settled.target = r.target
                         /\ settled.paths = paths /\ settled.size = size
               /\ DOMAIN Uploaded(r, "success") = Fields
               /\ Uploaded(r, "success").id = r.id
               /\ Uploaded(r, "success").target = r.target
               /\ Uploaded(r, "success").status = r.status
               /\ Uploaded(r, "success").size = r.size
               /\ Uploaded(r, "success").s3 = "success"
    BY <1>1 DEF Settled, Uploaded, Fields
  <1>2. \A n \in DOMAIN bs : DOMAIN bs[n] = Fields
    BY DEF Shaped
  <1>3. DOMAIN bs \subseteq Numbers
    BY DEF Shaped
  <1>4. ASSUME NEW id, NEW paths, NEW size, NEW now
        PROVE  LET settled == WithStatus(bs, id, "success", paths, size, now)
               IN  /\ Edited(bs, id, settled)
                   /\ \A n \in DOMAIN bs : IsFirst(bs, id, n) =>
                         settled[n].paths = paths /\ settled[n].size = size
    <2> DEFINE settled == WithStatus(bs, id, "success", paths, size, now)
    <2>1. /\ DOMAIN settled = DOMAIN bs
          /\ \A n \in DOMAIN bs : settled[n] = IF IsFirst(bs, id, n)
                                                THEN Settled(bs[n], "success", paths, size, now)
                                                ELSE bs[n]
      BY DEF WithStatus, EditFirst
    <2> HIDE DEF settled
    <2>2. Edited(bs, id, settled)
      BY <1>1, <1>2, <1>3, <2>1 DEF Edited, Shaped
    <2>3. \A n \in DOMAIN bs : IsFirst(bs, id, n) => settled[n].paths = paths /\ settled[n].size = size
      BY <1>1, <1>2, <2>1
    <2> QED BY <2>2, <2>3 DEF settled
  <1>5. ASSUME NEW id
        PROVE  LET uploaded == WithUpload(bs, id, "success")
               IN  /\ Edited(bs, id, uploaded)
                   /\ \A n \in DOMAIN bs : IsFirst(bs, id, n) =>
                         /\ uploaded[n].status = bs[n].status /\ uploaded[n].size = bs[n].size
                         /\ uploaded[n].s3 = "success"
    <2> DEFINE uploaded == WithUpload(bs, id, "success")
    <2>1. /\ DOMAIN uploaded = DOMAIN bs
          /\ \A n \in DOMAIN bs : uploaded[n] = IF IsFirst(bs, id, n)
                                                 THEN Uploaded(bs[n], "success")
                                                 ELSE bs[n]
      BY DEF WithUpload, EditFirst
    <2> HIDE DEF uploaded
    <2>2. Edited(bs, id, uploaded)
      BY <1>1, <1>2, <1>3, <2>1 DEF Edited, Shaped
    <2>3. \A n \in DOMAIN bs : IsFirst(bs, id, n) =>
             /\ uploaded[n].status = bs[n].status /\ uploaded[n].size = bs[n].size
             /\ uploaded[n].s3 = "success"
      BY <1>1, <1>2, <2>1
    <2> QED BY <2>2, <2>3 DEF uploaded
  <1> QED BY <1>4, <1>5

(* So does an append, under a number that was never used.                   *)
LEMMA AppendFields ==
    \A bs, n, t, now : Shaped(bs) /\ n \in Numbers /\ n \notin DOMAIN bs =>
        LET log == WithNew(bs, n, t, now)
        IN  /\ Shaped(log) /\ DOMAIN log = DOMAIN bs \cup {n}
            /\ \A m \in DOMAIN bs : log[m] = bs[m]
            /\ log[n].status = "pending"
  BY DEF Shaped, WithNew, NewRecord, Fields

-------------------------------------------------------------------------------
(* Memory and file hold logs of numbers that were given out, and the file   *)
(* being processed is one of those listed.                                  *)
Working == {"next", "created", "settled", "end"}

ShapeInv ==
    /\ Shaped(backups) /\ Shaped(file.log)
    /\ appended \in Nat /\ \A n \in DOMAIN backups \cup DOMAIN file.log : n <= appended
    /\ todo \subseteq listed /\ listed \subseteq Files
    /\ pc \in {"created", "settled"} => current \in listed
    /\ pc = "settled" => current.store = "s3"

(* Until it has scanned, a run has the records it found.  Then, merging, it *)
(* knows their identifiers and works on files that have others; and without *)
(* a flag it found none.                                                    *)
KeptInv == up =>
    /\ pc = "loaded" => backups = before
    /\ pc \in Working =>
          /\ flags.force \/ flags.merge \/ before = EmptyLog
          /\ flags.merge => \A n \in DOMAIN before : before[n].id \in existing
    /\ pc \in {"created", "settled"} => IdOf(current) \notin existing
    /\ ExistingRecordsKept

(* The steps of a run and what they do to the store.                        *)
SavedAs(bs) == backups' = bs /\ file'.log \in {file.log, EmptyLog} /\ UNCHANGED up

(* The operations of the store the command calls, as the log they save.     *)
LEMMA StoreEdits ==
    /\ \A t : CreateBackupMeta(t) =>
          appended' = appended + 1 /\ SavedAs(WithNew(backups, appended', t, clock))
    /\ \A id, status, paths, size : UpdateBackupStatus(id, status, paths, size) =>
          UNCHANGED appended /\ SavedAs(WithStatus(backups, id, status, paths, size, clock))
    /\ \A id, status : UpdateS3UploadStatus(id, status) =>
          UNCHANGED appended /\ SavedAs(WithUpload(backups, id, status))
    /\ Save => UNCHANGED appended /\ SavedAs(backups)
    /\ FinishSave => UNCHANGED <<up, backups, appended>> /\ file'.log \in {file.log, backups}
  BY DEF CreateBackupMeta, UpdateBackupStatus, UpdateS3UploadStatus, Save, FinishSave, BeginSave,
         Operation, SavedAs, Torn, Whole

(* CreateBackupMeta gives out a number that is nobody else's.               *)
LEMMA AppendedRecord ==
    ASSUME ShapeInv, NEW t, CreateBackupMeta(t)
    PROVE  /\ appended' = appended + 1 /\ appended' \in Numbers /\ appended' \notin DOMAIN backups
           /\ SavedAs(WithNew(backups, appended', t, clock))
           /\ backups' = WithNew(backups, appended', t, clock)
  <1>1. appended' = appended + 1 /\ SavedAs(WithNew(backups, appended', t, clock))
    BY StoreEdits
  <1>2. appended \in Nat /\ \A n \in DOMAIN backups : n <= appended
    BY DEF ShapeInv
  <1> QED BY <1>1, <1>2 DEF Numbers, SavedAs

(* A start takes the log of the file, or an empty one.                      *)
LEMMA StartEdits ==
    Start => /\ up' /\ UNCHANGED appended
             /\ backups' \in {file.log, EmptyLog} /\ file'.log \in {file.log, EmptyLog}
  BY DEF Start, BeginSave, Torn, Absent

(* The process ends in one of three ways, and is then as if it never ran.   *)
LEMMA EndEdits ==
    Refuse \/ End \/ Die =>
        /\ ~up' /\ backups' = EmptyLog /\ UNCHANGED <<file, appended>>
        /\ pc' = "off" /\ todo' = {} /\ listed' = {}
  BY DEF Refuse, End, Die, Exit, Forget, Crash, ghosts

(* A save keeps memory and file in shape, whichever way it goes.            *)
LEMMA RecoveryShape ==
    ASSUME NEW bs, Shaped(bs), ShapeInv, SavedAs(bs), appended' \in Nat,
           \A n \in DOMAIN bs \cup DOMAIN file.log : n <= appended'
    PROVE  /\ Shaped(backups') /\ Shaped(file'.log)
           /\ \A n \in DOMAIN backups' \cup DOMAIN file'.log : n <= appended'
  BY LogsAreShaped DEF SavedAs, ShapeInv

(* Every step keeps memory and file in shape.                               *)
LEMMA ShapeStep == ShapeInv /\ [RecoveryNext]_allvars => ShapeInv'
  <1> SUFFICES ASSUME ShapeInv, [RecoveryNext]_allvars PROVE ShapeInv'
    OBVIOUS
  <1> USE DEF ShapeInv
  <1>1. ASSUME NEW with \in Flags, Launch(with) PROVE ShapeInv'
    BY <1>1, StartEdits, LogsAreShaped DEF Launch
  <1>2. CASE Refuse \/ End \/ Die
    BY <1>2, EndEdits, LogsAreShaped
  <1>3. CASE Scan
    BY <1>3 DEF Scan, Scanned, Goes, vars, ghosts
  <1>4. ASSUME NEW f \in todo, Skip(f) PROVE ShapeInv'
    BY <1>4 DEF Skip, Goes, vars, ghosts
  <1>5. ASSUME NEW f \in todo, CreateRecord(f) PROVE ShapeInv'
    <2>1. /\ appended' = appended + 1 /\ appended' \in Numbers /\ appended' \notin DOMAIN backups
          /\ SavedAs(WithNew(backups, appended', f.target, clock))
      BY <1>5, AppendedRecord DEF CreateRecord
    <2>2. /\ Shaped(WithNew(backups, appended', f.target, clock))
          /\ DOMAIN WithNew(backups, appended', f.target, clock) = DOMAIN backups \cup {appended'}
      BY <2>1, AppendFields
    <2>3. /\ appended' \in Nat /\ appended' <= appended'
          /\ \A n \in DOMAIN backups \cup DOMAIN file.log : n <= appended'
      BY <2>1 DEF Shaped, Numbers
    <2>4. /\ Shaped(backups') /\ Shaped(file'.log)
          /\ \A n \in DOMAIN backups' \cup DOMAIN file'.log : n <= appended'
      BY <2>1, <2>2, <2>3, RecoveryShape
    <2> QED BY <1>5, <2>3, <2>4 DEF CreateRecord, Goes
  <1>6. CASE SettleRecord
    <2>1. CASE UpdateBackupStatus(IdOf(current), "success", PathsOf(current), current.size)
      <3>1. UNCHANGED appended
            /\ SavedAs(WithStatus(backups, IdOf(current), "success", PathsOf(current), current.size, clock))
        BY <2>1, StoreEdits
      <3>2. /\ Shaped(backups') /\ Shaped(file'.log)
            /\ \A n \in DOMAIN backups' \cup DOMAIN file'.log : n <= appended'
        BY <3>1, EditFields, RecoveryShape DEF Edited
      <3> QED BY <1>6, <3>1, <3>2 DEF SettleRecord, Goes
    <2>2. CASE UNCHANGED vars
      BY <1>6, <2>2 DEF SettleRecord, Goes, vars, ghosts
    <2> QED BY <1>6, <2>1, <2>2 DEF SettleRecord
  <1>7. CASE UploadRecord
    <2>1. CASE UpdateS3UploadStatus(IdOf(current), "success")
      <3>1. UNCHANGED appended /\ SavedAs(WithUpload(backups, IdOf(current), "success"))
        BY <2>1, StoreEdits
      <3>2. /\ Shaped(backups') /\ Shaped(file'.log)
            /\ \A n \in DOMAIN backups' \cup DOMAIN file'.log : n <= appended'
        BY <3>1, EditFields, RecoveryShape DEF Edited
      <3> QED BY <1>7, <3>1, <3>2 DEF UploadRecord, Goes
    <2>2. CASE UNCHANGED vars
      BY <1>7, <2>2 DEF UploadRecord, Goes, vars, ghosts
    <2> QED BY <1>7, <2>1, <2>2 DEF UploadRecord
  <1>8. CASE Finish
    <2>1. (UNCHANGED appended /\ SavedAs(backups)) \/ UNCHANGED vars
      BY <1>8, StoreEdits DEF Finish
    <2>2. /\ Shaped(backups') /\ Shaped(file'.log) /\ UNCHANGED appended
          /\ \A n \in DOMAIN backups' \cup DOMAIN file'.log : n <= appended'
      BY <2>1, RecoveryShape DEF vars, ghosts
    <2> QED BY <1>8, <2>2 DEF Finish, Goes
  <1>9. CASE (FinishSave \/ Tick) /\ UNCHANGED recovery
    <2>1. UNCHANGED <<backups, appended>> /\ file'.log \in {file.log, backups}
      BY <1>9, StoreEdits DEF Tick, memory, ghosts
    <2> QED BY <1>9, <2>1 DEF recovery
  <1>10. CASE UNCHANGED allvars
    BY <1>10 DEF allvars, vars, ghosts, recovery
  <1> QED BY <1>1, <1>2, <1>3, <1>4, <1>5, <1>6, <1>7, <1>8, <1>9, <1>10 DEF RecoveryNext

(* Memory and file have the shape of logs throughout.                       *)
LEMMA ShapeInvariant == RecoverySpec => []ShapeInv
<1>1. RecoveryInit => ShapeInv
  <2> SUFFICES ASSUME RecoveryInit PROVE ShapeInv
    OBVIOUS
  <2>1. IsLog(file.log) /\ IsFiniteSet(DOMAIN file.log) /\ DOMAIN file.log = 1..Cardinality(DOMAIN file.log)
    BY RecoveryAssumption DEF RecoveryInit
  <2>2. Cardinality(DOMAIN file.log) \in Nat
    BY <2>1, FS_CardinalityType
  <2> QED BY <2>1, <2>2, LogsAreShaped DEF RecoveryInit, ShapeInv
<1> QED BY <1>1, ShapeStep, PTL DEF RecoverySpec

-------------------------------------------------------------------------------
(* A step that edits the records of an identifier the run knew nothing of.  *)
LEMMA KeptStep == ShapeInv /\ KeptInv /\ [RecoveryNext]_allvars => KeptInv'
  <1> SUFFICES ASSUME ShapeInv, KeptInv, [RecoveryNext]_allvars, up' PROVE KeptInv'
    BY DEF KeptInv
  <1> DEFINE Kept(log) ==
         ~Replaces => \A n \in DOMAIN before : n \in DOMAIN log /\ log[n] = before[n]
  <1>1. ASSUME NEW with \in Flags, Launch(with) PROVE KeptInv'
    BY <1>1 DEF Launch, KeptInv, ExistingRecordsKept, Replaces, Working
  <1>2. CASE Refuse \/ End \/ Die
    BY <1>2, EndEdits
  <1>3. CASE Scan
    <2>1. /\ UNCHANGED <<up, backups, flags, before>> /\ up
          /\ pc = "loaded" /\ pc' = "next" /\ Allowed /\ existing' = ExistingIds
      BY <1>3 DEF Scan, Goes, vars
    <2>2. backups = before /\ ExistingRecordsKept
      BY <2>1 DEF KeptInv
    <2>3. flags.merge => \A n \in DOMAIN before : before[n].id \in existing'
      BY <2>1, <2>2 DEF ExistingIds, KnownIds
    <2> QED BY <2>1, <2>2, <2>3 DEF KeptInv, Allowed, ExistingRecordsKept, Replaces
  <1>4. ASSUME NEW f \in todo, Skip(f) PROVE KeptInv'
    BY <1>4 DEF Skip, Goes, vars, KeptInv, Working, ExistingRecordsKept, Replaces
  <1>5. ASSUME NEW f \in todo, CreateRecord(f) PROVE KeptInv'
    <2>1. /\ UNCHANGED <<flags, existing, before>> /\ up
          /\ pc = "next" /\ pc' = "created" /\ current' = f /\ IdOf(f) \notin existing
      BY <1>5 DEF CreateRecord, Goes
    <2>2. /\ appended' \in Numbers /\ appended' \notin DOMAIN backups
          /\ backups' = WithNew(backups, appended', f.target, clock)
      BY <1>5, AppendedRecord DEF CreateRecord
    <2>3. \A n \in DOMAIN backups : n \in DOMAIN backups' /\ backups'[n] = backups[n]
      BY <2>2 DEF WithNew
    <2>4. Kept(backups')
      BY <2>1, <2>3 DEF KeptInv, ExistingRecordsKept, Replaces
    <2> QED BY <2>1, <2>4 DEF KeptInv, Working, ExistingRecordsKept, Replaces, IdOf
  <1>6. CASE SettleRecord \/ UploadRecord
    <2>1. /\ UNCHANGED <<flags, existing, before, current>> /\ up
          /\ pc \in {"created", "settled"} /\ pc' \in {"settled", "next"}
      BY <1>6 DEF SettleRecord, UploadRecord, Goes
    <2>2. \/ UNCHANGED backups
          \/ \E paths, size : backups' = WithStatus(backups, IdOf(current), "success", paths, size, clock)
          \/ backups' = WithUpload(backups, IdOf(current), "success")
      BY <1>6, StoreEdits DEF SettleRecord, UploadRecord, SavedAs, vars
    <2>3. \A n \in DOMAIN backups :
             /\ n \in DOMAIN backups'
             /\ backups'[n].id = backups[n].id /\ backups'[n].target = backups[n].target
             /\ backups[n].id # IdOf(current) => backups'[n] = backups[n]
      <3>1. UNCHANGED backups \/ Edited(backups, IdOf(current), backups')
        BY <2>2, EditFields DEF ShapeInv
      <3> QED BY <3>1 DEF Edited, IsFirst, Matches
    <2>4. /\ IdOf(current) \notin existing /\ Kept(backups)
          /\ flags.force \/ flags.merge \/ before = EmptyLog
          /\ flags.merge => \A n \in DOMAIN before : before[n].id \in existing
      BY <2>1 DEF KeptInv, Working, ExistingRecordsKept, Replaces
    <2>5. Kept(backups')
      <3> SUFFICES ASSUME NEW n \in DOMAIN before, ~Replaces
                   PROVE  n \in DOMAIN backups' /\ backups'[n] = before[n]
        OBVIOUS
      <3>1. flags.merge
        BY <2>4, LogsAreShaped DEF Replaces
      <3> QED BY <2>3, <2>4, <3>1
    <2> QED BY <2>1, <2>4, <2>5 DEF KeptInv, Working, ExistingRecordsKept, Replaces, IdOf
  <1>7. CASE Finish
    <2>1. /\ UNCHANGED <<flags, existing, before, current, backups>> /\ up
          /\ pc = "next" /\ pc' = "end"
      BY <1>7, StoreEdits DEF Finish, Goes, SavedAs, vars
    <2> QED BY <2>1 DEF KeptInv, Working, ExistingRecordsKept, Replaces
  <1>8. CASE ((FinishSave \/ Tick) /\ UNCHANGED recovery) \/ UNCHANGED allvars
    <2>1. UNCHANGED <<up, backups, recovery>>
      BY <1>8, StoreEdits DEF Tick, memory, allvars, vars
    <2> QED BY <2>1 DEF recovery, KeptInv, Working, ExistingRecordsKept, Replaces, IdOf
  <1> QED BY <1>1, <1>2, <1>3, <1>4, <1>5, <1>6, <1>7, <1>8 DEF RecoveryNext

(* However often the command is run, and wherever it dies: a run that        *)
(* merges, or that is not forced, leaves every record it found as it was.   *)
THEOREM RecoveryKeepsRecords == RecoverySpec => []ExistingRecordsKept
<1>1. RecoveryInit => KeptInv
  BY DEF RecoveryInit, KeptInv
<1>2. KeptInv => ExistingRecordsKept
  BY DEF KeptInv, ExistingRecordsKept
<1> QED BY <1>1, <1>2, KeptStep, ShapeInvariant, PTL DEF RecoverySpec

-------------------------------------------------------------------------------
(* The record of an object has its size before it is said to be uploaded.   *)
BeingUploaded(n) == pc = "settled" /\ IsFirst(backups, IdOf(current), n)

Accounted(n) ==
    /\ BeingUploaded(n) => backups[n].size = current.size
    /\ \/ backups[n].status # "success"
       \/ n \in DOMAIN before /\ backups[n] = before[n]
       \/ \E f \in listed : StandsFor(backups[n], f)
       \/ BeingUploaded(n)

SuccessInv == up => \A n \in DOMAIN backups : Accounted(n)

(* Every step keeps what the command declared successful with a file it     *)
(* listed.                                                                  *)
LEMMA SuccessStep == ShapeInv /\ KeptInv /\ SuccessInv /\ [RecoveryNext]_allvars => SuccessInv'
  <1> SUFFICES ASSUME ShapeInv, KeptInv, SuccessInv, [RecoveryNext]_allvars, up',
                      NEW n \in DOMAIN backups'
               PROVE  Accounted(n)'
    BY DEF SuccessInv
  <1>1. ASSUME NEW with \in Flags, Launch(with) PROVE Accounted(n)'
    <2>1. before' = backups' /\ pc' = "loaded"
      BY <1>1 DEF Launch
    <2> QED BY <2>1 DEF Accounted, BeingUploaded
  <1>2. CASE Refuse \/ End \/ Die
    BY <1>2, EndEdits
  <1>3. CASE Scan
    <2>1. UNCHANGED <<backups, before>> /\ backups = before /\ pc' = "next"
      BY <1>3 DEF Scan, Goes, vars, KeptInv
    <2> QED BY <2>1 DEF Accounted, BeingUploaded
  <1>4. ASSUME NEW f \in todo, Skip(f) PROVE Accounted(n)'
    <2>1. UNCHANGED <<backups, before, listed>> /\ pc = "next" /\ pc' = "next" /\ up
      BY <1>4 DEF Skip, Goes, vars
    <2> QED BY <2>1 DEF SuccessInv, Accounted, BeingUploaded, StandsFor, IdOf
  <1>5. ASSUME NEW f \in todo, CreateRecord(f) PROVE Accounted(n)'
    <2>1. UNCHANGED <<before, listed>> /\ pc = "next" /\ pc' = "created" /\ up
      BY <1>5 DEF CreateRecord, Goes
    <2>2. /\ appended' \in Numbers /\ appended' \notin DOMAIN backups
          /\ backups' = WithNew(backups, appended', f.target, clock)
      BY <1>5, AppendedRecord DEF CreateRecord
    <2>3. CASE n \in DOMAIN backups
      <3>1. backups'[n] = backups[n]
        BY <2>2, <2>3 DEF WithNew
      <3> QED BY <2>1, <2>3, <3>1 DEF SuccessInv, Accounted, BeingUploaded, StandsFor, IdOf
    <2>4. CASE n \notin DOMAIN backups
      <3>1. backups'[n].status = "pending"
        BY <2>2, <2>4 DEF WithNew, NewRecord
      <3> QED BY <2>1, <3>1 DEF Accounted, BeingUploaded
    <2> QED BY <2>3, <2>4
  <1>6. CASE SettleRecord
    <2>1. /\ UNCHANGED <<before, listed, current>> /\ pc = "created" /\ up /\ current \in listed
          /\ pc' = IF current.store = "s3" THEN "settled" ELSE "next"
          /\ current.store \in {"local", "s3"}
      BY <1>6, RecoveryAssumption DEF SettleRecord, Goes, ShapeInv
    <2>2. CASE ~Known(backups, IdOf(current)) /\ UNCHANGED vars
      <3>1. n \in DOMAIN backups /\ UNCHANGED backups
        BY <2>2 DEF vars
      <3>2. ~IsFirst(backups', IdOf(current), n)
        BY <2>2, <3>1 DEF Known, IsFirst, Matches
      <3>3. ~BeingUploaded(n)'
        BY <2>1, <3>2 DEF BeingUploaded, IdOf
      <3> QED BY <2>1, <3>1, <3>3 DEF SuccessInv, Accounted, BeingUploaded, StandsFor, IdOf
    <2>3. CASE backups' = WithStatus(backups, IdOf(current), "success", PathsOf(current),
                                     current.size, clock)
      <3>1. /\ Edited(backups, IdOf(current), backups')
            /\ IsFirst(backups, IdOf(current), n) =>
                  backups'[n].paths = PathsOf(current) /\ backups'[n].size = current.size
        BY <2>3, EditFields DEF ShapeInv, Edited
      <3>2. n \in DOMAIN backups
        BY <3>1 DEF Edited
      <3>0. Matches(backups', IdOf(current)) = Matches(backups, IdOf(current))
        BY <3>1 DEF Edited, Matches
      <3>3. CASE ~IsFirst(backups, IdOf(current), n)
        <4>1. backups'[n] = backups[n]
          BY <3>1, <3>2, <3>3 DEF Edited
        <4>2. ~BeingUploaded(n)'
          BY <2>1, <3>0, <3>3 DEF BeingUploaded, IsFirst, IdOf
        <4> QED BY <2>1, <3>2, <4>1, <4>2 DEF SuccessInv, Accounted, BeingUploaded, StandsFor, IdOf
      <3>4. CASE IsFirst(backups, IdOf(current), n)
        <4>1. backups'[n].id = IdOf(current)
          BY <3>1, <3>2, <3>4 DEF Edited, IsFirst, Matches
        <4>2. CASE current.store = "local"
          BY <2>1, <3>1, <3>4, <4>1, <4>2 DEF Accounted, BeingUploaded, StandsFor, PathsOf, IdOf
        <4>3. CASE current.store = "s3"
          <5>1. BeingUploaded(n)'
            BY <2>1, <3>0, <3>4, <4>3 DEF BeingUploaded, IsFirst, IdOf
          <5> QED BY <2>1, <3>1, <3>4, <5>1 DEF Accounted
        <4> QED BY <2>1, <4>2, <4>3
      <3> QED BY <3>3, <3>4
    <2> QED BY <1>6, <2>2, <2>3, StoreEdits DEF SettleRecord, SavedAs
  <1>7. CASE UploadRecord
    <2>1. /\ UNCHANGED <<before, listed, current>> /\ pc = "settled" /\ pc' = "next" /\ up /\ current \in listed
          /\ current.store = "s3"
      BY <1>7 DEF UploadRecord, Goes, ShapeInv
    <2>2. CASE ~Known(backups, IdOf(current)) /\ UNCHANGED vars
      <3>1. ~IsFirst(backups, IdOf(current), n) /\ n \in DOMAIN backups
        BY <2>2 DEF Known, IsFirst, vars
      <3>2. ~BeingUploaded(n) /\ ~BeingUploaded(n)'
        BY <2>1, <3>1 DEF BeingUploaded
      <3> QED BY <2>1, <2>2, <3>1, <3>2 DEF vars, SuccessInv, Accounted, StandsFor, IdOf
    <2>3. CASE backups' = WithUpload(backups, IdOf(current), "success")
      <3>1. /\ Edited(backups, IdOf(current), backups')
            /\ IsFirst(backups, IdOf(current), n) =>
                  /\ backups'[n].status = backups[n].status /\ backups'[n].size = backups[n].size
                  /\ backups'[n].s3 = "success"
        BY <2>3, EditFields DEF ShapeInv, Edited
      <3>2. n \in DOMAIN backups
        BY <3>1 DEF Edited
      <3>3. CASE ~IsFirst(backups, IdOf(current), n)
        <4>1. backups'[n] = backups[n]
          BY <3>1, <3>2, <3>3 DEF Edited
        <4> QED BY <2>1, <3>2, <3>3, <4>1 DEF SuccessInv, Accounted, BeingUploaded, StandsFor, IdOf
      <3>4. CASE IsFirst(backups, IdOf(current), n)
        <4>1. backups'[n].id = IdOf(current)
          BY <3>1, <3>2, <3>4 DEF Edited, IsFirst, Matches
        <4>2. BeingUploaded(n) /\ ~BeingUploaded(n)'
          BY <2>1, <3>4 DEF BeingUploaded
        <4>3. backups'[n].size = current.size
          BY <2>1, <3>1, <3>2, <3>4, <4>2 DEF SuccessInv, Accounted
        <4>4. StandsFor(backups'[n], current)
          BY <2>1, <3>1, <3>4, <4>1, <4>3 DEF StandsFor
        <4>5. \E f \in listed' : StandsFor(backups[n], f)'
          BY <2>1, <4>4 DEF StandsFor, IdOf
        <4> QED BY <4>2, <4>5 DEF Accounted
      <3> QED BY <3>3, <3>4
    <2> QED BY <1>7, <2>2, <2>3, StoreEdits DEF UploadRecord, SavedAs
  <1>8. CASE Finish
    <2>1. UNCHANGED <<before, listed, backups>> /\ up /\ pc = "next" /\ pc' = "end"
      BY <1>8, StoreEdits DEF Finish, Goes, SavedAs, vars
    <2> QED BY <2>1 DEF SuccessInv, Accounted, BeingUploaded, StandsFor, IdOf
  <1>9. CASE ((FinishSave \/ Tick) /\ UNCHANGED recovery) \/ UNCHANGED allvars
    <2>1. UNCHANGED <<up, backups, recovery>>
      BY <1>9, StoreEdits DEF Tick, memory, allvars, vars
    <2> QED BY <2>1 DEF recovery, SuccessInv, Accounted, BeingUploaded, StandsFor, IdOf
  <1> QED BY <1>1, <1>2, <1>3, <1>4, <1>5, <1>6, <1>7, <1>8, <1>9 DEF RecoveryNext

(* A record that a run turned into a successful backup stands for a file    *)
(* the run listed and says where to find it, but for the moment between the *)
(* two updates of the record of an object.                                  *)
THEOREM RecoveredRecordsHaveFiles == RecoverySpec => []SuccessStandsForAFile
<1>1. RecoveryInit => SuccessInv
  BY DEF RecoveryInit, SuccessInv
<1>2. SuccessInv => SuccessStandsForAFile
  BY DEF SuccessInv, SuccessStandsForAFile, Accounted, BeingUploaded
<1>3. RecoveryInit => KeptInv
  BY DEF RecoveryInit, KeptInv
<1> QED BY <1>1, <1>2, <1>3, KeptStep, SuccessStep, ShapeInvariant, PTL DEF RecoverySpec
================================================================================
