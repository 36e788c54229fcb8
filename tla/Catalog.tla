-------------------------------- MODULE Catalog --------------------------------
(***************************************************************************)
(* What a catalogue of backups promises its callers                        *)
(* (types.MetadataStore), when an identifier names at most one backup:     *)
(* every call is one indivisible edit of one entry, a purge takes deleted  *)
(* entries only, an import only adds, and the totals shown are recomputed  *)
(* by every edit except a new entry and a deletion.                        *)
(***************************************************************************)
EXTENDS BackupRecords

CONSTANT Sizes     (* sizes of backup files                                  *)

VARIABLES
    entries,   (* identifier -> record                                       *)
    shown,     (* the two totals a reader is shown                           *)
    clock      (* the current second                                         *)

catalog == <<entries, shown, clock>>

CatalogInit ==
    /\ entries = EmptyLog
    /\ shown = Totals(entries)
    /\ clock \in Nat

Recount == shown' = Totals(entries')

New(t) ==
    /\ IdAt(t, clock) \notin DOMAIN entries
    /\ entries' = [id \in DOMAIN entries \cup {IdAt(t, clock)} |->
                      IF id = IdAt(t, clock) THEN NewRecord(t, clock) ELSE entries[id]]
    /\ UNCHANGED <<shown, clock>>

(* An outcome: the caller chose status, paths and size, the clock the time. *)
Settle(id, status) ==
    /\ id \in DOMAIN entries'
    /\ LET new == entries'[id]
       IN  /\ new.paths \subseteq Organisations
           /\ new.size \in Sizes \cup {0}
           /\ new.doneAt <= clock
           /\ entries' = [entries EXCEPT ![id] =
                             Settled(@, status, new.paths, new.size, new.doneAt)]
    /\ Recount
    /\ UNCHANGED clock

Upload(id, status) ==
    /\ entries' = [entries EXCEPT ![id] = Uploaded(@, status)]
    /\ Recount
    /\ UNCHANGED clock

Delete(id) ==
    /\ entries' = [entries EXCEPT ![id] = Deleted(@)]
    /\ UNCHANGED <<shown, clock>>

(* The entries that are gone were deleted, and had completed long enough    *)
(* ago; nothing else changes.                                               *)
Purge ==
    /\ DOMAIN entries' \subseteq DOMAIN entries
    /\ entries' = [id \in DOMAIN entries' |-> entries[id]]
    /\ \A id \in DOMAIN entries \ DOMAIN entries' : Purgeable(entries[id], clock)
    /\ Recount
    /\ UNCHANGED clock

(* Entries from elsewhere join; those already there are not touched.  An    *)
(* edit of an entry that does not exist only recounts: the empty import.    *)
Import ==
    /\ DOMAIN entries \subseteq DOMAIN entries'
    /\ \A id \in DOMAIN entries : entries'[id] = entries[id]
    /\ \A id \in DOMAIN entries' : entries'[id] \in Record
    /\ Recount
    /\ UNCHANGED clock

Pass == clock' \in Nat /\ clock' > clock /\ UNCHANGED <<entries, shown>>

CatalogNext ==
    \/ Pass \/ Purge \/ Import
    \/ \E t \in Targets : New(t)
    \/ \E id \in DOMAIN entries :
          \/ \E status \in {"success", "error"} :
                Settle(id, status) \/ Upload(id, status)
          \/ Delete(id)

CatalogSpec == CatalogInit /\ [][CatalogNext]_catalog
===============================================================================
