-------------------------------- MODULE Recovery --------------------------------
(***************************************************************************)
(* The command that rebuilds the records of the store from the names of    *)
(* backup files (cmd/metadata-recovery/main.go), on top of the operations  *)
(* of MetadataStore: a process of its own, which may die at any of them,   *)
(* and which may be started again with other flags.                        *)
(***************************************************************************)
EXTENDS MetadataStore
LOCAL INSTANCE FiniteSetsExt

CONSTANTS
    Files,          (* files on disk and objects in the bucket               *)
    InitialFiles,   (* what metadata.json may be beforehand                  *)
    Flags,          (* the flags the command may be started with             *)
    ScanFails       (* a file or a page of the listing may be out of reach   *)

(* A file is named when its name is {server}-{database}-{type}-{stamp}; the  *)
(* names pkg/backup gives its files are not of that form.                   *)
ASSUME RecoveryAssumption ==
    /\ Files \subseteq [store : {"local", "s3"}, target : Targets, stamp : Nat,
                        size : Nat, named : BOOLEAN]
    /\ \A f \in InitialFiles : f = Absent \/ f = Torn \/ f = Whole(f.log, Totals(f.log))
    /\ \A f \in InitialFiles : /\ IsLog(f.log) /\ IsFiniteSet(DOMAIN f.log)
                              /\ DOMAIN f.log = 1..Cardinality(DOMAIN f.log)
    /\ Flags \subseteq [dryRun : BOOLEAN, force : BOOLEAN, merge : BOOLEAN,
                        scan : SUBSET {"local", "s3"}]
    /\ ScanFails \in BOOLEAN

VARIABLES
    flags,     (* those of this run                                          *)
    pc,        (* where main is                                              *)
    todo,      (* recoveredBackups not yet processed                         *)
    existing,  (* existingIDs                                                *)
    current    (* the file being processed                                   *)

(* Observed, not used: the records the run found, and the files it listed.  *)
VARIABLES before, listed

recovery == <<flags, pc, todo, existing, current, before, listed>>
allvars == <<vars, recovery>>

NoFlags == [dryRun |-> FALSE, force |-> FALSE, merge |-> FALSE, scan |-> {}]
NoFile == [store |-> "none"]

(* The files were named before the command is started.                      *)
Later == 1 + Max({f.stamp : f \in Files})

IdOf(f) == IdAt(f.target, f.stamp)

RecoveryInit ==
    /\ up = FALSE /\ lock = "free"
    /\ backups = EmptyLog /\ totals = Totals(EmptyLog)
    /\ file \in InitialFiles
    /\ clock = Later
    /\ appended = Cardinality(DOMAIN file.log)
    /\ saved = file.log /\ dirty = FALSE
    /\ flags = NoFlags /\ pc = "off"
    /\ todo = {} /\ existing = {} /\ current = NoFile
    /\ before = EmptyLog /\ listed = {}

-------------------------------------------------------------------------------
(* A step of main; a step of the store holds its mutex until it has saved.  *)
Goes(from, to) == up /\ lock = "free" /\ pc = from /\ pc' = to

Launch(with) ==
    /\ Start
    /\ flags' = with /\ pc' = "loaded"
    /\ before' = backups'
    /\ UNCHANGED <<todo, existing, current, listed>>

Forget ==
    /\ flags' = NoFlags /\ pc' = "off"
    /\ todo' = {} /\ existing' = {} /\ current' = NoFile
    /\ before' = EmptyLog /\ listed' = {}

(* The process ends, whether its last save has reached the file or not.     *)
Exit ==
    /\ up' = FALSE
    /\ backups' = EmptyLog /\ totals' = Totals(EmptyLog)
    /\ UNCHANGED <<lock, file, clock, ghosts>>
    /\ Forget

Allowed == backups = EmptyLog \/ flags.force \/ flags.merge

Refuse == up /\ lock = "free" /\ pc = "loaded" /\ ~Allowed /\ Exit

(* scanLocalStorage and scanS3Storage; what cannot be reached is left out.  *)
Scanned(stores) == {f \in Files : f.store \in stores /\ f.named}

(* Mutant: the records of the store are not asked for.                      *)
NoneExisting == {}

ExistingIds == IF flags.merge THEN KnownIds ELSE {}

Scan ==
    /\ Goes("loaded", "next") /\ Allowed
    /\ \E found \in SUBSET Scanned(flags.scan) :
          /\ found = Scanned(flags.scan) \/ ScanFails
          /\ todo' = found /\ listed' = found
    /\ existing' = ExistingIds
    /\ UNCHANGED <<vars, flags, current, before>>

(* processRecoveredBackups: local files first.  In merge mode a file whose  *)
(* record exists is passed over.                                            *)
IsNext(f) == f \in todo /\ (f.store = "s3" => \A g \in todo : g.store = "s3")

Skip(f) ==
    /\ Goes("next", "next") /\ IsNext(f)
    /\ IdOf(f) \in existing
    /\ todo' = todo \ {f}
    /\ UNCHANGED <<vars, flags, existing, current, before, listed>>

(* CreateBackupMeta makes a record with the identifier of this very second. *)
(* The identifier of the file is then given to a copy of it.                *)
CreateRecord(f) ==
    /\ Goes("next", "created") /\ IsNext(f)
    /\ IdOf(f) \notin existing
    /\ CreateBackupMeta(f.target)
    /\ todo' = todo \ {f} /\ current' = f
    /\ UNCHANGED <<flags, existing, before, listed>>

(* The updates go by the identifier of the file; where it names no record,  *)
(* an error is logged.  An object has no local paths.                       *)
PathsOf(f) == IF f.store = "local" THEN {"default"} ELSE {}

SettleRecord ==
    /\ Goes("created", IF current.store = "s3" THEN "settled" ELSE "next")
    /\ \/ UpdateBackupStatus(IdOf(current), "success", PathsOf(current), current.size)
       \/ ~Known(backups, IdOf(current)) /\ UNCHANGED vars
    /\ UNCHANGED <<flags, todo, existing, current, before, listed>>

(* Mutant: the status of the upload is forgotten.                           *)
ForgetUpload ==
    /\ Goes("settled", "next")
    /\ UNCHANGED <<vars, flags, todo, existing, current, before, listed>>

UploadRecord ==
    /\ Goes("settled", "next")
    /\ \/ UpdateS3UploadStatus(IdOf(current), "success")
       \/ ~Known(backups, IdOf(current)) /\ UNCHANGED vars
    /\ UNCHANGED <<flags, todo, existing, current, before, listed>>

(* Everything above was saved as it was done; a dry run only leaves out     *)
(* this last save.                                                          *)
Finish ==
    /\ Goes("next", "end") /\ todo = {}
    /\ \/ ~flags.dryRun /\ Save
       \/ flags.dryRun /\ UNCHANGED vars
    /\ UNCHANGED <<flags, todo, existing, current, before, listed>>

End == up /\ lock = "free" /\ pc = "end" /\ Exit

Die == Crash /\ Forget

RecoveryNext ==
    \/ \E with \in Flags : Launch(with)
    \/ Refuse \/ Scan
    \/ \E f \in todo : Skip(f) \/ CreateRecord(f)
    \/ SettleRecord \/ UploadRecord \/ Finish \/ End \/ Die
    \/ (FinishSave \/ Tick) /\ UNCHANGED recovery

RecoverySpec == RecoveryInit /\ [][RecoveryNext]_allvars

-------------------------------------------------------------------------------
(* A run that merges ("Merge with existing metadata instead of replacing")  *)
(* leaves every record it found as it was, and so does one with neither     *)
(* flag, which is refused where there are records.  A forced run without    *)
(* -merge is said to replace them; the code rebuilds on top of them, and    *)
(* nothing is claimed of such a run.                                        *)
Replaces == flags.force /\ ~flags.merge

ExistingRecordsKept ==
    (up /\ ~Replaces) => \A n \in DOMAIN before :
                             n \in DOMAIN backups /\ backups[n] = before[n]

(* A record that a run turned into a successful backup stands for a file    *)
(* the run listed, which it says where to find, once the run is done with   *)
(* the file; between the two updates of an object it does not yet.          *)
StandsFor(r, f) ==
    /\ IdOf(f) = r.id /\ f.size = r.size
    /\ IF f.store = "local" THEN r.paths = {"default"} ELSE r.s3 = "success"

SuccessStandsForAFile ==
    (up /\ pc # "settled") =>
        \A n \in DOMAIN backups :
            \/ backups[n].status # "success"
            \/ n \in DOMAIN before /\ backups[n] = before[n]
            \/ \E f \in listed : StandsFor(backups[n], f)

(* A run that ends has a successful record for every file it listed         *)
(* ("automatically reconstructs metadata from existing backup files").      *)
ListedIsRecovered ==
    pc = "end" => \A f \in listed : \E n \in DOMAIN backups :
                      backups[n].id = IdOf(f) /\ backups[n].status = "success"
===============================================================================
