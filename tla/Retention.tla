------------------------------- MODULE Retention -------------------------------
(***************************************************************************)
(* Retention: EnforceRetentionPolicies (pkg/backup/backup.go) and the      *)
(* EnforceRetention of the two storage clients (pkg/storage/local/local.go,*)
(* pkg/storage/s3/s3.go), run by cron and by hand at the same time, with   *)
(* backups, user deletions and crashes in between.                         *)
(*                                                                         *)
(* Backups are stored by server and by type; the clients look for them in  *)
(* one directory per type, the FLAT layout of GetBackupPath and            *)
(* UploadBackup.  LEGACY backups are those found there when the program    *)
(* starts; others were made by server and by type before that, by a        *)
(* program that shared the directory, the bucket and the metadata with the *)
(* older one.  Every file and object carries the second its backup was     *)
(* made in, which is also its modification time.                           *)
(***************************************************************************)
EXTENDS BackupRecords, FiniteSetsExt, Sequences

CONSTANTS
    Types,      (* the backup types of the configuration                    *)
    TypeOf,     (* the backup type of a target                              *)
    DbOf,       (* the database of a target, without its server             *)
    Before,     (* targets with a backup from before, as their records come *)
    Legacy,     (* those of them that have it in the flat layout            *)
    KeysAlike,  (* targets whose key by server ends with the flat key of    *)
                (* its last component: all if the prefix in the bucket is   *)
                (* empty, else those of a server named like the prefix      *)
    Enforcers,  (* goroutines that enforce retention: cron's, the handler's *)
    Keep,       (* for each store and type, how old a backup may grow       *)
    Skipped,    (* for each store, the types that are disabled, kept        *)
                (* forever, or given a duration that does not parse         *)
    Faults,     (* what may go wrong                                        *)
    MaxClock,   (* bound: the last second                                   *)
    MaxRecords  (* bound: the number of records ever appended               *)

Stores == {"local", "s3"}
FaultKinds == {"list", "remove", "crash"}

(* Legacy backups of one type have files of their own.                      *)
ASSUME RetentionAssumption ==
    /\ TypeOf \in [Targets -> Types] /\ DOMAIN DbOf = Targets
    /\ Before \in Seq(Targets)
    /\ \A m, n \in DOMAIN Before : Before[m] = Before[n] => m = n
    /\ Legacy \subseteq {Before[n] : n \in DOMAIN Before}
    /\ KeysAlike \subseteq Targets
    /\ \A t, u \in Legacy : TypeOf[t] = TypeOf[u] /\ DbOf[t] = DbOf[u] => t = u
    /\ Keep \in [Stores -> [Types -> Nat]]
    /\ Skipped \in [Stores -> SUBSET Types]
    /\ Faults \subseteq FaultKinds
    /\ MaxClock \in Nat /\ MaxRecords \in Nat

VARIABLES
    pc,       (* where each enforcer is                                      *)
    store,    (* the store it works on                                       *)
    left,     (* the types it has left there                                 *)
    list,     (* the files or objects of the current type it has left        *)
    hit,      (* what it has just removed                                    *)
    found,    (* the identifier of the record it found for it                *)
    backups,  (* the log of the metadata store                               *)
    stored,   (* the files and the objects there are                         *)
    clock

(* Observed, not used.                                                      *)
VARIABLES
    appended,   (* how many records were ever appended                       *)
    started,    (* when each enforcer's last pass began                      *)
    byUser,     (* the records users deleted                                 *)
    troubled,   (* enforcers in whose pass a listing or a removal failed     *)
    orphaned,   (* what was removed, but its record not marked, at a crash   *)
    mistaken    (* what was removed, and another record found for it         *)

passVars == <<pc, store, left, list, hit, found>>
ghosts == <<appended, started, byUser, troubled, orphaned, mistaken>>
vars == <<pc, store, left, list, hit, found, backups, stored, clock,
          appended, started, byUser, troubled, orphaned, mistaken>>

(* A path or key: an organisation, a target and the second in the name.     *)
Layouts == Organisations \cup {"flat"}
Place(t, at, org) == [org |-> org, target |-> t, at |-> at]
NoPlace == [org |-> "none"]
NoId == <<0, 0>>

(* Backups from before were made in the first second, the clock starts at 2.*)
FirstSecond == 1
EarlierLog ==
    [n \in DOMAIN Before |->
        Uploaded(Settled(NewRecord(Before[n], FirstSecond), "success",
                         IF Before[n] \in Legacy THEN {} ELSE Organisations, 1, FirstSecond),
                 "success")]

FlatPlaces == {Place(t, FirstSecond, "flat") : t \in Legacy}

Init ==
    /\ pc = [e \in Enforcers |-> "idle"]
    /\ store = [e \in Enforcers |-> "local"]
    /\ left = [e \in Enforcers |-> {}]
    /\ list = [e \in Enforcers |-> {}]
    /\ hit = [e \in Enforcers |-> NoPlace]
    /\ found = [e \in Enforcers |-> NoId]
    /\ backups = EarlierLog
    /\ stored = [s \in Stores |-> FlatPlaces \cup
                   {Place(Before[n], FirstSecond, org) :
                       n \in {m \in DOMAIN Before : Before[m] \notin Legacy},
                       org \in Organisations}]
    /\ clock = FirstSecond + 1
    /\ appended = Len(Before)
    /\ started = [e \in Enforcers |-> 0]
    /\ byUser = {}
    /\ troubled = {}
    /\ orphaned = {}
    /\ mistaken = {}

-------------------------------------------------------------------------------
(* A pass: purge first, then each type of each store, in any order.         *)
Begin(e) ==
    /\ pc[e] \in {"idle", "over"}
    /\ backups' = Purged(backups, clock)
    /\ pc' = [pc EXCEPT ![e] = "types"]
    /\ store' = [store EXCEPT ![e] = "local"]
    /\ left' = [left EXCEPT ![e] = Types]
    /\ started' = [started EXCEPT ![e] = clock]
    /\ troubled' = troubled \ {e}
    /\ UNCHANGED <<list, hit, found, stored, clock, appended, byUser, orphaned,
                   mistaken>>

(* A file or object is too old for its type at a given time.                *)
Expired(s, p, now) == now - p.at > Keep[s][TypeOf[p.target]]

(* Glob("<dir>/<type>/*.sql.gz"), or the objects under "<prefix>/<type>/":  *)
(* what is stored by server or by type is not among them.  The objects are  *)
(* held against the time of the listing, the files each against its own.    *)
(* A page of the listing that fails ends it.                                *)
Candidates(s, type) ==
    {p \in stored[s] : /\ p.org = "flat" /\ TypeOf[p.target] = type
                       /\ s = "s3" => Expired(s, p, clock)}

(* Mutant: a type that is skipped ends the loop.                            *)
ListTypeUntilSkipped(e, type) ==
    /\ pc[e] = "types"
    /\ type \in left[e]
    /\ \/ /\ type \in Skipped[store[e]]
          /\ left' = [left EXCEPT ![e] = {}]
          /\ UNCHANGED <<pc, list, troubled>>
       \/ /\ type \notin Skipped[store[e]]
          /\ left' = [left EXCEPT ![e] = @ \ {type}]
          /\ pc' = [pc EXCEPT ![e] = "items"]
          /\ LET all == Candidates(store[e], type)
             IN  \/ /\ list' = [list EXCEPT ![e] = all]
                    /\ UNCHANGED troubled
                 \/ /\ "list" \in Faults
                    /\ \E some \in SUBSET all : list' = [list EXCEPT ![e] = some]
                    /\ troubled' = troubled \cup {e}
    /\ UNCHANGED <<store, hit, found, backups, stored, clock, appended, started, byUser, orphaned,
                   mistaken>>

ListType(e, type) ==
    /\ pc[e] = "types"
    /\ type \in left[e]
    /\ left' = [left EXCEPT ![e] = @ \ {type}]
    /\ \/ /\ type \in Skipped[store[e]]
          /\ UNCHANGED <<pc, list, troubled>>
       \/ /\ type \notin Skipped[store[e]]
          /\ pc' = [pc EXCEPT ![e] = "items"]
          /\ LET all == Candidates(store[e], type)
             IN  \/ /\ list' = [list EXCEPT ![e] = all]
                    /\ UNCHANGED troubled
                 \/ /\ "list" \in Faults
                    /\ \E some \in SUBSET all : list' = [list EXCEPT ![e] = some]
                    /\ troubled' = troubled \cup {e}
    /\ UNCHANGED <<store, hit, found, backups, stored, clock, appended, started, byUser, orphaned,
                   mistaken>>

(* One file or object.  A file that is gone is passed over; DeleteObject    *)
(* succeeds for an object that is gone as well.                             *)
Removable(s, p) == s = "local" => p \in stored["local"]

CheckItem(e, p) ==
    /\ pc[e] = "items"
    /\ p \in list[e]
    /\ list' = [list EXCEPT ![e] = @ \ {p}]
    /\ \/ /\ Expired(store[e], p, clock) /\ Removable(store[e], p)
          /\ stored' = [stored EXCEPT ![store[e]] = @ \ {p}]
          /\ hit' = [hit EXCEPT ![e] = p]
          /\ pc' = [pc EXCEPT ![e] = "lookup"]
          /\ UNCHANGED troubled
       \/ /\ ~Expired(store[e], p, clock) \/ ~Removable(store[e], p)
          /\ UNCHANGED <<pc, hit, stored, troubled>>
       \/ /\ Expired(store[e], p, clock) /\ "remove" \in Faults
          /\ troubled' = troubled \cup {e}
          /\ UNCHANGED <<pc, hit, stored>>
    /\ UNCHANGED <<store, left, found, backups, clock, appended, started, byUser, orphaned, mistaken>>

(* LocalPath and S3Key, the one path of a record the clients compare with.  *)
PathOf(r) ==
    Place(r.target, r.id[2],
          IF r.id[2] = FirstSecond /\ r.target \in Legacy THEN "flat" ELSE "by-server")

(* A file's record is found by the last component of the path, an object's  *)
(* by the end of the key; only active records of the type are looked at,    *)
(* and the first that fits is taken.                                        *)
(* Mutant: the database alone is compared.                                  *)
SameDatabase(p, q) == DbOf[p.target] = DbOf[q.target]
SameBase(p, q) == DbOf[p.target] = DbOf[q.target] /\ p.at = q.at

(* Mutant: the file is looked for in LocalPaths, which legacy records lack. *)
IsItsRecordByPaths(s, r, p) == PathOf(r) = p /\ p.org \in r.paths

IsItsRecord(s, r, p) ==
    CASE s = "local" -> PathOf(r) = p \/ SameBase(PathOf(r), p)
      [] s = "s3"    -> /\ r.s3 = "success"
                        /\ PathOf(r) = p \/ (r.target \in KeysAlike /\ SameBase(PathOf(r), p))

RecordsFor(s, p) ==
    {n \in Filtered(backups, {t \in Targets : TypeOf[t] = TypeOf[p.target]}, TRUE) :
        IsItsRecord(s, backups[n], p)}

NextItem(e) ==
    /\ pc' = [pc EXCEPT ![e] = "items"]
    /\ hit' = [hit EXCEPT ![e] = NoPlace]
    /\ found' = [found EXCEPT ![e] = NoId]

Lookup(e) ==
    /\ pc[e] = "lookup"
    /\ LET candidates == RecordsFor(store[e], hit[e])
       IN  \/ /\ candidates # {}
              /\ found' = [found EXCEPT ![e] = backups[Min(candidates)].id]
              /\ pc' = [pc EXCEPT ![e] = "mark"]
              /\ mistaken' = mistaken \cup ({hit[e]} \ {PathOf(backups[Min(candidates)])})
              /\ UNCHANGED hit
           \/ /\ candidates = {}
              /\ NextItem(e)
              /\ UNCHANGED mistaken
    /\ UNCHANGED <<store, left, list, backups, stored, clock, appended, started, byUser, troubled,
                   orphaned>>

(* The store was unlocked in between: the record may have been purged.      *)
Mark(e) ==
    /\ pc[e] = "mark"
    /\ backups' = WithDeletion(backups, found[e])
    /\ NextItem(e)
    /\ UNCHANGED <<store, left, list, stored, clock, ghosts>>

TypeOver(e) ==
    /\ pc[e] = "items"
    /\ list[e] = {}
    /\ pc' = [pc EXCEPT ![e] = "types"]
    /\ UNCHANGED <<store, left, list, hit, found, backups, stored, clock, ghosts>>

StoreOver(e) ==
    /\ pc[e] = "types"
    /\ left[e] = {}
    /\ \/ /\ store[e] = "local"
          /\ store' = [store EXCEPT ![e] = "s3"]
          /\ left' = [left EXCEPT ![e] = Types]
          /\ UNCHANGED pc
       \/ /\ store[e] = "s3"
          /\ pc' = [pc EXCEPT ![e] = "over"]
          /\ UNCHANGED <<store, left>>
    /\ UNCHANGED <<list, hit, found, backups, stored, clock, ghosts>>

-------------------------------------------------------------------------------
(* What goes on meanwhile.  A backup is one step here: BackupPipeline has   *)
(* its inside.                                                              *)
PerformBackup(t) ==
    /\ appended < MaxRecords
    /\ ~Known(backups, IdAt(t, clock))
    /\ appended' = appended + 1
    /\ backups' = WithUpload(
                      WithStatus(WithNew(backups, appended', t, clock),
                                 IdAt(t, clock), "success", Organisations, 1, clock),
                      IdAt(t, clock), "success")
    /\ stored' = [s \in Stores |->
                     stored[s] \cup {Place(t, clock, org) : org \in Organisations}]
    /\ UNCHANGED <<passVars, clock, started, byUser, troubled, orphaned, mistaken>>

DeleteBackup(id) ==
    /\ backups' = WithDeletion(backups, id)
    /\ byUser' = byUser \cup Matches(backups, id)
    /\ UNCHANGED <<passVars, stored, clock, appended, started, troubled, orphaned, mistaken>>

Crash ==
    /\ "crash" \in Faults
    /\ pc' = [e \in Enforcers |-> "idle"]
    /\ store' = [e \in Enforcers |-> "local"]
    /\ left' = [e \in Enforcers |-> {}]
    /\ list' = [e \in Enforcers |-> {}]
    /\ hit' = [e \in Enforcers |-> NoPlace]
    /\ found' = [e \in Enforcers |-> NoId]
    /\ started' = [e \in Enforcers |-> 0]
    /\ troubled' = {}
    /\ orphaned' = orphaned \cup ({hit[e] : e \in Enforcers} \ {NoPlace})
    /\ UNCHANGED <<backups, stored, clock, appended, byUser, mistaken>>

Tick ==
    /\ clock < MaxClock
    /\ clock' = clock + 1
    /\ UNCHANGED <<passVars, backups, stored, ghosts>>

Places == [org : Layouts, target : Targets, at : 1..clock]

Pass(e) ==
    \/ Begin(e) \/ Lookup(e) \/ Mark(e) \/ TypeOver(e) \/ StoreOver(e)
    \/ \E type \in left[e] : ListType(e, type)
    \/ \E p \in list[e] : CheckItem(e, p)

Next ==
    \/ \E e \in Enforcers : Pass(e)
    \/ \E t \in Targets : PerformBackup(t)
    \/ \E n \in DOMAIN backups : DeleteBackup(backups[n].id)
    \/ Crash \/ Tick

Spec == Init /\ [][Next]_vars

-------------------------------------------------------------------------------
TypeOK ==
    /\ pc \in [Enforcers -> {"idle", "types", "items", "lookup", "mark", "over"}]
    /\ store \in [Enforcers -> Stores]
    /\ left \in [Enforcers -> SUBSET Types]
    /\ \A e \in Enforcers : list[e] \subseteq Places /\ hit[e] \in Places \cup {NoPlace}
    /\ found \in [Enforcers -> Ids]
    /\ IsLog(backups)
    /\ \A s \in Stores : stored[s] \subseteq Places
    /\ clock \in Nat \ {0}

(* A record that claims a successful backup has the file its LocalPath      *)
(* names, or an enforcer that removed it is about to find and mark the      *)
(* record: with two enforcers on one directory, the one that removes a file *)
(* is the one that marks it.  Only its death in between, or another record  *)
(* of the same last component found before it, leaves a record without its  *)
(* file.                                                                    *)
Handling(e, p) == pc[e] \in {"lookup", "mark"} /\ hit[e] = p

ActiveMeansStored ==
    \A n \in DOMAIN backups :
        LET path == PathOf(backups[n])
        IN  backups[n].status = "success"
                => \/ path \in stored["local"] \cup orphaned \cup mistaken
                   \/ \E e \in Enforcers : Handling(e, path)

(* Retention marks a record deleted only when a flat backup is gone that is *)
(* of its type, its second and a database of its name: its own, unless a    *)
(* database of that name on another server was backed up in that second.    *)
MarkedWasRemoved ==
    \A n \in DOMAIN backups \ byUser :
        backups[n].status = "deleted" =>
            /\ backups[n].id[2] = FirstSecond
            /\ \E s \in Stores, t \in Legacy :
                  /\ TypeOf[t] = TypeOf[backups[n].target] /\ DbOf[t] = DbOf[backups[n].target]
                  /\ Place(t, FirstSecond, "flat") \notin stored[s]

(* When a pass without a failed listing or removal is over, what it looked  *)
(* for and was too old when it began is gone, whatever the other enforcer   *)
(* removed under its feet.                                                  *)
GoneAfterPass(s, layouts) ==
    \A e \in Enforcers \ troubled : pc[e] = "over" =>
        \A p \in stored[s] :
            (p.org \in layouts /\ TypeOf[p.target] \notin Skipped[s])
                => ~Expired(s, p, started[e])

FlatLayoutIsEnforced == \A s \in Stores : GoneAfterPass(s, {"flat"})

-------------------------------------------------------------------------------
(* What the documents promise and the code does not do.                     *)

(* "Expired backups are removed according to retention policies": when a    *)
(* pass is over no backup of any layout is older than its type allows, in   *)
(* either store.                                                            *)
ExpiredBackupsAreRemoved == \A s \in Stores : GoneAfterPass(s, Layouts)
===============================================================================
