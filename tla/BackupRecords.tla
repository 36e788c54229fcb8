----------------------------- MODULE BackupRecords -----------------------------
(***************************************************************************)
(* The records of the metadata store and the edits its operations make to  *)
(* them (pkg/metadata/metadata.go, pkg/metadata/types/types.go).           *)
(*                                                                         *)
(* The slice Data.Backups is a LOG: a function from append numbers to      *)
(* records.  Appending uses a number larger than any used before, and      *)
(* removing a record leaves a gap, so the order of the numbers is the      *)
(* order of the slice and a number names one record for its whole life.    *)
(* The module has no state: the stores that keep a log are elsewhere.      *)
(***************************************************************************)
EXTENDS Integers, FiniteSets, Functions

CONSTANTS
    Targets,    (* what is backed up: a server, a database and a backup type *)
    NameOf,     (* the text "server-database-type" a target is printed as   *)
    PurgeAge    (* seconds a deleted record is kept                          *)

(* NameOf joins three names with hyphens, and names may contain hyphens:    *)
(* nothing says that two targets are printed differently.                   *)
ASSUME RecordsAssumption ==
    /\ NameOf \in [Targets -> Nat]
    /\ PurgeAge \in Nat \ {0}

Statuses      == {"pending", "success", "error", "deleted"}
Organisations == {"by-server", "by-type"}

(* The zero time.Time; the clock of every module starts at 1.               *)
NoTime == 0

(* Identifiers: the printed target and the second the record was made in.   *)
Ids == Nat \X Nat

(* A record keeps LocalPaths as the organisations it has a path for.  Its    *)
(* S3 keys are left out: BackupPipeline, whose runs make them, keeps them   *)
(* beside the log.  So is the path of the log file.                         *)
Record ==
    [id: Ids, target: Targets, status: Statuses, s3: Statuses,
     paths: SUBSET Organisations, size: Nat, doneAt: Nat]

Numbers == Nat \ {0}
IsLog(bs) == DOMAIN bs \subseteq Numbers /\ bs \in [DOMAIN bs -> Record]

EmptyLog == [n \in {} |-> 0]

IdAt(t, now) == <<NameOf[t], now>>

(* Mutant: the upload status is left at the empty string Go starts it with. *)
NewRecordWithoutUpload(t, now) ==
    [id |-> IdAt(t, now), target |-> t, status |-> "pending", s3 |-> "",
     paths |-> {}, size |-> 0, doneAt |-> NoTime]

NewRecord(t, now) ==
    [id |-> IdAt(t, now), target |-> t, status |-> "pending", s3 |-> "pending",
     paths |-> {}, size |-> 0, doneAt |-> NoTime]

-------------------------------------------------------------------------------
(* Appending a record, under a number that was never used.                  *)
WithNew(bs, n, t, now) ==
    [m \in DOMAIN bs \cup {n} |-> IF m = n THEN NewRecord(t, now) ELSE bs[m]]

(* Every edit by identifier scans the slice and stops at the first match.   *)
Matches(bs, id) == {n \in DOMAIN bs : bs[n].id = id}
IsFirst(bs, id, n) == n \in Matches(bs, id) /\ \A m \in Matches(bs, id) : n <= m
Known(bs, id) == Matches(bs, id) # {}

(* The edits of one record.  An edit keeps every field it does not name.    *)
(* Mutants: an outcome without its completion time, an upload that sets the *)
(* status of the backup as well, a status that is none.                     *)
SettledUnstamped(r, status, paths, size, now) ==
    [r EXCEPT !.status = status, !.paths = paths, !.size = size]
UploadedAsOutcome(r, status) == [r EXCEPT !.s3 = status, !.status = status]

Settled(r, status, paths, size, now) ==
    [r EXCEPT !.status = status, !.paths = paths, !.size = size, !.doneAt = now]
Uploaded(r, status) == [r EXCEPT !.s3 = status]
DeletedAsExpired(r) == [r EXCEPT !.status = "expired"]
Deleted(r) == [r EXCEPT !.status = "deleted"]

(* The log after one of the edits has been made to the first match, or      *)
(* unchanged when nothing matches ("backup with ID %s not found").          *)
EditFirst(bs, id, NewValue(_)) ==
    [n \in DOMAIN bs |-> IF IsFirst(bs, id, n) THEN NewValue(bs[n]) ELSE bs[n]]

WithStatus(bs, id, status, paths, size, now) ==
    EditFirst(bs, id, LAMBDA r : Settled(r, status, paths, size, now))
WithUpload(bs, id, status) == EditFirst(bs, id, LAMBDA r : Uploaded(r, status))
WithDeletion(bs, id) == EditFirst(bs, id, Deleted)

-------------------------------------------------------------------------------
(* A deleted record is dropped once its COMPLETION lies PurgeAge or more in *)
(* the past; the zero time lies in the past of every threshold.             *)
(* The mutant forgets to ask whether the record is deleted at all.          *)
PurgeableByAge(r, now) == r.doneAt = NoTime \/ r.doneAt + PurgeAge <= now

Purgeable(r, now) ==
    /\ r.status = "deleted"
    /\ r.doneAt = NoTime \/ r.doneAt + PurgeAge <= now

Purged(bs, now) == [n \in {m \in DOMAIN bs : ~Purgeable(bs[m], now)} |-> bs[n]]

(* The two totals: sizes of the successful backups, and of those uploaded.  *)
Totals(bs) ==
    LET SizeOf == [n \in DOMAIN bs |-> bs[n].size]
    IN  [local |-> SumFunctionOnSet(SizeOf,
                       {n \in DOMAIN bs : bs[n].status = "success"}),
         s3    |-> SumFunctionOnSet(SizeOf,
                       {n \in DOMAIN bs : bs[n].s3 = "success"})]

(* What a reader is shown: the records of some targets, all of them or only *)
(* the successful ones.                                                     *)
Filtered(bs, wanted, activeOnly) ==
    {n \in DOMAIN bs : /\ bs[n].target \in wanted
                       /\ activeOnly => bs[n].status = "success"}
===============================================================================
