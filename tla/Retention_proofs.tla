---------------------------- MODULE Retention_proofs ----------------------------
(***************************************************************************)
(* Proofs about Retention, for any targets, stores' policies and number of *)
(* goroutines that enforce them.                                           *)
(***************************************************************************)
EXTENDS Retention, BackupRecords_proofs, FiniteSetTheorems

(* A set of natural numbers that is not empty has a smallest one.           *)
LEMMA SmallestNumber ==
    ASSUME NEW S, S \subseteq Nat, S # {}
    PROVE  Min(S) \in S
  <1> DEFINE Below(x) == 0..x
             family == {Below(x) : x \in S}
  <1>1. family \subseteq FiniteSubsetsOf(Nat) /\ family # {}
    <2>1. \A x \in S : IsFiniteSet(Below(x)) /\ Below(x) \subseteq Nat
      BY FS_Interval
    <2> QED BY <2>1 DEF FiniteSubsetsOf
  <1>2. PICK least \in family : \A set \in family : <<set, least>> \notin StrictSubsetOrdering(Nat)
    <2> HIDE DEF family
    <2> QED BY <1>1, FS_StrictSubsetOrderingWellFounded, WFMin
  <1>3. PICK x \in S : least = Below(x)
    BY <1>2
  <1>4. ASSUME NEW y \in S, y < x PROVE FALSE
    <2>1. Below(y) \subseteq Below(x) /\ x \in Below(x) /\ x \notin Below(y)
      BY <1>4
    <2>2. Below(y) \in family /\ Below(x) \subseteq Nat
      OBVIOUS
    <2>3. <<Below(y), Below(x)>> \in StrictSubsetOrdering(Nat)
      BY <2>1, <2>2 DEF StrictSubsetOrdering
    <2> QED BY <1>2, <1>3, <2>2, <2>3
  <1>5. \A y \in S : x <= y
    BY <1>4
  <1> QED BY <1>5 DEF Min

-------------------------------------------------------------------------------
(* The targets with a backup from before the start.                         *)
Earlier == {Before[n] : n \in DOMAIN Before}

(* Where the fields of a record come from, ...                              *)
Made(r) ==
    /\ r.target \in Targets
    /\ r.id = IdAt(r.target, r.id[2]) /\ r.id[2] \in 1..clock
    /\ r.id[2] = FirstSecond => r.target \in Earlier
    /\ r.status \in {"success", "deleted"} /\ r.s3 = "success"

(* ... and the log at the start has one such record for each of them.       *)
LEMMA EarlierRecords ==
    /\ IsLog(EarlierLog) /\ DOMAIN EarlierLog = DOMAIN Before
    /\ Len(Before) \in Nat /\ \A n \in DOMAIN Before : n <= Len(Before)
    /\ \A n \in DOMAIN EarlierLog :
          /\ EarlierLog[n].id = IdAt(EarlierLog[n].target, FirstSecond)
          /\ EarlierLog[n].target = Before[n]
          /\ EarlierLog[n].status = "success" /\ EarlierLog[n].s3 = "success"
    /\ \A m, n \in DOMAIN EarlierLog : EarlierLog[m].target = EarlierLog[n].target => m = n
    /\ Legacy \subseteq Earlier /\ Earlier \subseteq Targets
  <1> DEFINE paths(t) == IF t \in Legacy THEN {} ELSE Organisations
             settled(t) == Settled(NewRecord(t, FirstSecond), "success", paths(t), 1, FirstSecond)
             first(t) == Uploaded(settled(t), "success")
  <1>1. /\ Before \in Seq(Targets) /\ Legacy \subseteq Earlier /\ Earlier \subseteq Targets
        /\ DOMAIN Before = 1..Len(Before) /\ Len(Before) \in Nat
        /\ \A n \in DOMAIN Before : Before[n] \in Targets
    BY RetentionAssumption DEF Earlier
  <1>2. \A n \in DOMAIN Before : EarlierLog[n] = first(Before[n])
    BY DEF EarlierLog
  <1>3. ASSUME NEW t \in Targets
        PROVE  /\ first(t) \in Record /\ first(t).target = t /\ first(t).id = IdAt(t, FirstSecond)
               /\ first(t).status = "success" /\ first(t).s3 = "success"
    <2>1. FirstSecond \in Nat /\ "success" \in Statuses /\ paths(t) \in SUBSET Organisations
      BY DEF FirstSecond, Statuses
    <2>2. NewRecord(t, FirstSecond) \in Record
      BY <2>1, NewRecordType
    <2>3. NewRecord(t, FirstSecond).target = t /\ NewRecord(t, FirstSecond).id = IdAt(t, FirstSecond)
      BY DEF NewRecord
    <2> HIDE DEF paths
    <2>4. /\ settled(t) \in Record /\ settled(t).status = "success"
          /\ settled(t).target = t /\ settled(t).id = IdAt(t, FirstSecond)
      BY <2>1, <2>2, <2>3 DEF Settled, Record
    <2> HIDE DEF settled
    <2> QED BY <2>1, <2>4 DEF Uploaded, Record
  <1> HIDE DEF first
  <1>4. DOMAIN EarlierLog = DOMAIN Before
    BY DEF EarlierLog
  <1>5. \A n \in DOMAIN Before : EarlierLog[n] \in Record /\ n \in Numbers /\ n <= Len(Before)
    BY <1>1, <1>2, <1>3 DEF Numbers
  <1>6. IsLog(EarlierLog)
    <2>1. EarlierLog = [n \in DOMAIN Before |-> EarlierLog[n]]
      BY DEF EarlierLog
    <2> QED BY <1>4, <1>5, <2>1 DEF IsLog
  <1> QED BY <1>1, <1>2, <1>3, <1>4, <1>5, <1>6, RetentionAssumption

-------------------------------------------------------------------------------
(* Shape, with what each enforcer may hold: the clients see the flat layout *)
(* only, so all they list and remove is legacy, and what an enforcer looks  *)
(* up the record of is gone.                                                *)
Shape ==
    /\ DOMAIN list = Enforcers /\ DOMAIN hit = Enforcers /\ DOMAIN stored = Stores
    /\ started \in [Enforcers -> Nat] /\ \A e \in Enforcers : started[e] <= clock
    /\ appended \in Nat /\ \A n \in DOMAIN backups : n <= appended
    /\ clock > FirstSecond

FlatInv ==
    /\ \A s \in Stores : \A p \in stored[s] : p.org = "flat" => p \in FlatPlaces
    /\ \A e \in Enforcers :
          /\ list[e] \subseteq FlatPlaces
          /\ pc[e] \in {"lookup", "mark"} => hit[e] \in FlatPlaces /\ hit[e] \notin stored[store[e]]

TypeInv == TypeOK /\ Shape

-------------------------------------------------------------------------------
(* A backup adds one record, of its own second, and touches no other.       *)
LEMMA BackupAdded ==
    ASSUME TypeInv, NEW t \in Targets, PerformBackup(t)
    PROVE  /\ IsLog(backups') /\ DOMAIN backups' = DOMAIN backups \cup {appended'}
           /\ appended' = appended + 1 /\ appended' \notin DOMAIN backups
           /\ \A n \in DOMAIN backups : backups'[n] = backups[n] /\ backups[n].id # IdAt(t, clock)
           /\ backups'[appended'].target = t /\ backups'[appended'].id = IdAt(t, clock)
           /\ backups'[appended'].status = "success" /\ backups'[appended'].s3 = "success"
  <1> DEFINE id == IdAt(t, clock)
             new == appended + 1
             made == WithNew(backups, new, t, clock)
             done == WithStatus(made, id, "success", Organisations, 1, clock)
  <1>1. /\ appended' = new /\ backups' = WithUpload(done, id, "success")
        /\ IsLog(backups) /\ clock \in Nat /\ new \in Numbers /\ new \notin DOMAIN backups
        /\ \A n \in DOMAIN backups : backups[n].id # id
    BY DEF PerformBackup, Known, Matches, TypeInv, TypeOK, Shape, Numbers
  <1>2. /\ IsLog(made) /\ DOMAIN made = DOMAIN backups \cup {new}
        /\ \A n \in DOMAIN backups : made[n] = backups[n]
        /\ made[new].target = t /\ made[new].id = id
    BY <1>1, WithNewType DEF WithNew, NewRecord
  <1>3. ASSUME NEW log, IsLog(log), DOMAIN log = DOMAIN made,
               \A n \in DOMAIN log : log[n].id = made[n].id, NEW n \in DOMAIN log
        PROVE  IsFirst(log, id, n) <=> n = new
    <2>1. Matches(log, id) = {new} /\ new <= new
      BY <1>1, <1>2, <1>3 DEF Matches, Numbers
    <2> QED BY <2>1 DEF IsFirst
  <1>4. "success" \in Statuses /\ Organisations \in SUBSET Organisations /\ 1 \in Nat
    BY DEF Statuses
  <1>5. /\ IsLog(done) /\ DOMAIN done = DOMAIN made
        /\ \A n \in DOMAIN backups : done[n] = backups[n]
        /\ done[new].target = t /\ done[new].id = id /\ done[new].status = "success"
    <2>1. IsLog(done) /\ DOMAIN done = DOMAIN made
      BY <1>1, <1>2, <1>4, WithStatusType, EditDomains
    <2>2. \A n \in DOMAIN made :
             done[n] = IF n = new THEN Settled(made[n], "success", Organisations, 1, clock) ELSE made[n]
      BY <1>2, <1>3 DEF WithStatus, EditFirst
    <2>3. made[new] \in Record
      BY <1>2 DEF IsLog
    <2>4. ASSUME NEW r \in Record
          PROVE  LET new_r == Settled(r, "success", Organisations, 1, clock)
                 IN  new_r.target = r.target /\ new_r.id = r.id /\ new_r.status = "success"
      BY ONLY <2>4 DEF Settled, Record
    <2> QED BY <1>1, <1>2, <2>1, <2>2, <2>3, <2>4
  <1>6. /\ IsLog(backups') /\ DOMAIN backups' = DOMAIN done
        /\ \A n \in DOMAIN done :
              backups'[n] = IF n = new THEN Uploaded(done[n], "success") ELSE done[n]
    <2>1. \A n \in DOMAIN done : done[n].id = made[n].id
      BY <1>2, <1>5
    <2>2. \A n \in DOMAIN done : IsFirst(done, id, n) <=> n = new
      BY <1>3, <1>5, <2>1
    <2> QED BY <1>1, <1>4, <1>5, <2>2, WithUploadType, EditDomains DEF WithUpload, EditFirst
  <1>7. done[new] \in Record
    BY <1>2, <1>5 DEF IsLog
  <1> QED BY <1>1, <1>2, <1>5, <1>6, <1>7 DEF Uploaded, Record

(* Other steps purge the log, mark records in it, or leave it alone.        *)
LEMMA LogSteps ==
    ASSUME [Next]_vars
    PROVE  \/ UNCHANGED backups
           \/ \E e \in Enforcers : Begin(e) \/ Mark(e)
           \/ \E t \in Targets : PerformBackup(t)
           \/ \E n \in DOMAIN backups : DeleteBackup(backups[n].id)
  BY DEF Next, Pass, Lookup, TypeOver, StoreOver, ListType, CheckItem, Crash, Tick, vars

(* Shapes at the start ...                                                  *)
LEMMA TypeStart == Init => TypeInv /\ FlatInv
  <1> SUFFICES ASSUME Init PROVE TypeInv /\ FlatInv
    OBVIOUS
  <1>1. /\ FirstSecond = 1 /\ clock = 2 /\ "flat" \in Layouts /\ "local" \in Stores
        /\ FlatPlaces \subseteq Places
    BY EarlierRecords DEF Init, FirstSecond, Layouts, Stores, FlatPlaces, Place, Places
  <1>2. NoId \in Ids
    BY DEF NoId, Ids
  <1>3. \A s \in Stores : stored[s] \subseteq Places /\ \A p \in stored[s] : p.org = "flat" => p \in FlatPlaces
    <2>1. \A n \in DOMAIN Before, org \in Organisations :
             Place(Before[n], FirstSecond, org) \in Places /\ Place(Before[n], FirstSecond, org).org # "flat"
      BY <1>1, EarlierRecords DEF Earlier, Place, Places, Organisations, Layouts
    <2> QED BY <1>1, <2>1 DEF Init
  <1>4. IsLog(backups)
    BY EarlierRecords DEF Init
  <1>5. TypeOK
    BY <1>1, <1>2, <1>3, <1>4 DEF Init, TypeOK
  <1>6. \A n \in DOMAIN backups : n <= appended
    BY EarlierRecords DEF Init
  <1>7. Shape
    BY <1>1, <1>6, EarlierRecords DEF Init, Shape
  <1> QED BY <1>3, <1>5, <1>7 DEF Init, TypeInv, FlatInv

(* ... and after every step.                                                *)
LEMMA TypeStep == TypeInv /\ FlatInv /\ [Next]_vars => (TypeInv /\ FlatInv)'
  <1> SUFFICES ASSUME TypeInv, FlatInv, [Next]_vars PROVE TypeInv' /\ FlatInv'
    OBVIOUS
  <1>1. IsLog(backups')
    BY LogSteps, BackupAdded, PurgedType, WithDeletionType
       DEF TypeInv, TypeOK, Begin, Mark, DeleteBackup
  <1>2. ASSUME NEW e \in Enforcers, Begin(e) PROVE TypeInv' /\ FlatInv'
    <2>1. /\ "local" \in Stores /\ clock \in Nat
          /\ \A n \in DOMAIN backups' : n \in DOMAIN backups
          /\ \A d \in Enforcers : pc'[d] \in {"lookup", "mark"} => pc[d] = pc'[d] /\ store'[d] = store[d]
      BY <1>2, EditDomains DEF Begin, Stores, TypeInv, TypeOK
    <2> QED BY <1>1, <1>2, <2>1 DEF Begin, TypeInv, TypeOK, Shape, FlatInv, Places
  <1>3. ASSUME NEW e \in Enforcers, NEW type \in left[e], ListType(e, type)
        PROVE  TypeInv' /\ FlatInv'
    <2>1. Candidates(store[e], type) \subseteq Places /\ Candidates(store[e], type) \subseteq FlatPlaces
      BY DEF Candidates, TypeInv, TypeOK, FlatInv
    <2>2. \A d \in Enforcers : list'[d] \subseteq Places /\ list'[d] \subseteq FlatPlaces
      BY <1>3, <2>1 DEF ListType, TypeInv, TypeOK, Shape, FlatInv
    <2>3. /\ \A d \in Enforcers : pc'[d] \in {"lookup", "mark"} => pc[d] = pc'[d]
          /\ pc' \in [Enforcers -> {"idle", "types", "items", "lookup", "mark", "over"}]
          /\ left' \in [Enforcers -> SUBSET Types] /\ DOMAIN list' = Enforcers
      BY <1>3 DEF ListType, TypeInv, TypeOK, Shape
    <2> QED BY <1>1, <1>3, <2>2, <2>3 DEF ListType, TypeInv, TypeOK, Shape, FlatInv, Places
  <1>4. ASSUME NEW e \in Enforcers, NEW p \in list[e], CheckItem(e, p)
        PROVE  TypeInv' /\ FlatInv'
    <2>1. /\ p \in Places /\ p \in FlatPlaces
          /\ \A d \in Enforcers : list'[d] \subseteq list[d]
          /\ DOMAIN list' = Enforcers
      BY <1>4 DEF CheckItem, TypeInv, TypeOK, Shape, FlatInv
    <2>2. CASE UNCHANGED <<pc, hit, stored>>
      BY <1>1, <1>4, <2>1, <2>2 DEF CheckItem, TypeInv, TypeOK, Shape, FlatInv, Places
    <2>3. CASE /\ stored' = [stored EXCEPT ![store[e]] = @ \ {p}]
               /\ hit' = [hit EXCEPT ![e] = p]
               /\ pc' = [pc EXCEPT ![e] = "lookup"]
      <3>1. /\ \A s \in Stores : stored'[s] \subseteq stored[s]
            /\ p \notin stored'[store[e]] /\ DOMAIN stored' = Stores
        BY <2>3 DEF TypeInv, TypeOK, Shape
      <3>2. \A d \in Enforcers : hit'[d] = IF d = e THEN p ELSE hit[d]
        BY <2>3 DEF TypeInv, Shape
      <3>3. \A d \in Enforcers \ {e} : pc'[d] = pc[d]
        BY <2>3 DEF TypeInv, TypeOK
      <3>4. FlatInv'
        BY <1>4, <2>1, <3>1, <3>2, <3>3 DEF CheckItem, TypeInv, TypeOK, FlatInv
      <3>5. TypeOK'
        BY <1>1, <1>4, <2>1, <2>3, <3>1, <3>2 DEF CheckItem, TypeInv, TypeOK, Places
      <3> QED BY <1>4, <2>1, <2>3, <3>1, <3>4, <3>5 DEF CheckItem, TypeInv, Shape
    <2> QED BY <1>4, <2>2, <2>3 DEF CheckItem
  <1>5. ASSUME NEW e \in Enforcers, Lookup(e) PROVE TypeInv' /\ FlatInv'
    <2>1. RecordsFor(store[e], hit[e]) \subseteq Nat /\ RecordsFor(store[e], hit[e]) \subseteq DOMAIN backups
      BY DEF RecordsFor, Filtered, TypeInv, TypeOK, IsLog, Numbers
    <2>2. RecordsFor(store[e], hit[e]) # {} => backups[Min(RecordsFor(store[e], hit[e]))].id \in Ids
      BY <2>1, SmallestNumber DEF TypeInv, TypeOK, IsLog, Record
    <2>3. NoId \in Ids
      BY DEF NoId, Ids
    <2>4. /\ UNCHANGED <<store, left, list, backups, stored, clock, appended, started>>
          /\ found' \in [Enforcers -> Ids]
          /\ pc' \in [Enforcers -> {"idle", "types", "items", "lookup", "mark", "over"}]
          /\ DOMAIN hit' = Enforcers
          /\ \A d \in Enforcers : hit'[d] = hit[d] \/ hit'[d] = NoPlace
          /\ \A d \in Enforcers : pc'[d] \in {"lookup", "mark"} =>
                                     pc[d] \in {"lookup", "mark"} /\ hit'[d] = hit[d]
      BY <1>5, <2>2, <2>3 DEF Lookup, NextItem, ghosts, TypeInv, TypeOK, Shape
    <2> QED BY <2>4 DEF TypeInv, TypeOK, Shape, FlatInv, Places
  <1>6. ASSUME NEW e \in Enforcers, Mark(e) PROVE TypeInv' /\ FlatInv'
    <2>1. NoId \in Ids
      BY DEF NoId, Ids
    <2>2. /\ UNCHANGED <<store, left, list, stored, clock, appended, started>>
          /\ found' \in [Enforcers -> Ids]
          /\ pc' \in [Enforcers -> {"idle", "types", "items", "lookup", "mark", "over"}]
          /\ DOMAIN hit' = Enforcers
          /\ \A d \in Enforcers : hit'[d] = hit[d] \/ hit'[d] = NoPlace
          /\ \A d \in Enforcers : pc'[d] \in {"lookup", "mark"} =>
                                     pc[d] \in {"lookup", "mark"} /\ hit'[d] = hit[d]
          /\ DOMAIN backups' = DOMAIN backups
      BY <1>6, <2>1, EditDomains DEF Mark, NextItem, ghosts, TypeInv, TypeOK, Shape
    <2> QED BY <1>1, <2>2 DEF TypeInv, TypeOK, Shape, FlatInv, Places
  <1>7. ASSUME NEW e \in Enforcers, TypeOver(e) \/ StoreOver(e) PROVE TypeInv' /\ FlatInv'
    <2>1. /\ UNCHANGED <<list, hit, found, backups, stored, clock, appended, started>>
          /\ pc' \in [Enforcers -> {"idle", "types", "items", "lookup", "mark", "over"}]
          /\ store' \in [Enforcers -> Stores] /\ left' \in [Enforcers -> SUBSET Types]
          /\ \A d \in Enforcers : pc'[d] \in {"lookup", "mark"} => pc[d] = pc'[d] /\ store'[d] = store[d]
      BY <1>7 DEF TypeOver, StoreOver, ghosts, Stores, TypeInv, TypeOK
    <2> QED BY <2>1 DEF TypeInv, TypeOK, Shape, FlatInv, Places
  <1>8. ASSUME NEW t \in Targets, PerformBackup(t) PROVE TypeInv' /\ FlatInv'
    <2>1. \A s \in Stores : stored'[s] = stored[s] \cup {Place(t, clock, org) : org \in Organisations}
      BY <1>8 DEF PerformBackup
    <2>2. \A org \in Organisations : Place(t, clock, org) \in Places /\ Place(t, clock, org).org # "flat"
      BY DEF Place, Places, Organisations, Layouts, TypeInv, TypeOK
    <2>3. \A s \in Stores : stored'[s] \subseteq Places /\ \A p \in stored'[s] : p.org = "flat" => p \in stored[s]
      BY <2>1, <2>2 DEF TypeInv, TypeOK
    <2>4. /\ UNCHANGED <<pc, store, left, list, hit, found, clock, started>>
          /\ DOMAIN stored' = Stores
      BY <1>8 DEF PerformBackup, passVars
    <2>5. TypeOK'
      BY <1>1, <2>3, <2>4 DEF TypeInv, TypeOK, Places
    <2>6. \A n \in DOMAIN backups' : n <= appended'
      BY <1>8, BackupAdded DEF TypeInv, Shape, TypeOK, IsLog, Numbers
    <2>7. Shape'
      BY <1>8, <2>4, <2>6, BackupAdded DEF TypeInv, Shape
    <2>8. \A e \in Enforcers : pc[e] \in {"lookup", "mark"} => hit[e] \notin stored'[store[e]]
      <3>1. \A p \in FlatPlaces : p.org = "flat"
        BY DEF FlatPlaces, Place
      <3> QED BY <2>3, <3>1 DEF FlatInv, TypeInv, TypeOK
    <2> QED BY <2>3, <2>4, <2>5, <2>7, <2>8 DEF TypeInv, FlatInv
  <1>9. ASSUME NEW n \in DOMAIN backups, DeleteBackup(backups[n].id) PROVE TypeInv' /\ FlatInv'
    <2>1. UNCHANGED <<pc, store, left, list, hit, found, stored, clock, appended, started>>
      BY <1>9 DEF DeleteBackup, passVars
    <2>2. DOMAIN backups' = DOMAIN backups
      BY <1>9, EditDomains DEF DeleteBackup
    <2> QED BY <1>1, <2>1, <2>2 DEF TypeInv, TypeOK, Shape, FlatInv, Places
  <1>10. CASE Crash
    <2>1. NoId \in Ids /\ "local" \in Stores
      BY DEF NoId, Ids, Stores
    <2> QED BY <1>1, <1>10, <2>1 DEF Crash, TypeInv, TypeOK, Shape, FlatInv, Places
  <1>11. CASE Tick
    <2>1. /\ UNCHANGED <<pc, store, left, list, hit, found, backups, stored, appended, started>>
          /\ clock \in Nat /\ clock' = clock + 1
      BY <1>11 DEF Tick, passVars, ghosts, TypeInv, TypeOK
    <2>2. Places \subseteq Places' /\ clock' > FirstSecond /\ \A e \in Enforcers : started[e] <= clock'
      BY <2>1 DEF Places, TypeInv, Shape, FirstSecond
    <2> QED BY <2>1, <2>2 DEF TypeInv, TypeOK, Shape, FlatInv
  <1>12. CASE UNCHANGED vars
    BY <1>12 DEF vars, TypeInv, TypeOK, Shape, FlatInv, Places
  <1> QED BY <1>2, <1>3, <1>4, <1>5, <1>6, <1>7, <1>8, <1>9, <1>10, <1>11, <1>12 DEF Next, Pass

(* The shape of the state, and flat files only of backups that were there at*)
(* the start.                                                               *)
LEMMA TypeInvariant == Spec => [](TypeInv /\ FlatInv)
  BY TypeStart, TypeStep, PTL DEF Spec

(* Enforcers, records and stored backups keep their shape.                  *)
THEOREM RetentionTypeCorrect == Spec => []TypeOK
<1>1. TypeInv => TypeOK
  BY DEF TypeInv
<1> QED BY <1>1, TypeInvariant, PTL

-------------------------------------------------------------------------------
(* Every record was made by a backup, before the program started or since,  *)
(* and an enforcer is to mark the record of what it removed, or of a backup *)
(* of the same last component.                                              *)
Namesake(t, p) == TypeOf[t] = TypeOf[p.target] /\ DbOf[t] = DbOf[p.target]

RecordInv ==
    /\ \A n \in DOMAIN backups : Made(backups[n])
    /\ \A e \in Enforcers : pc[e] = "mark" =>
          /\ hit[e] \in mistaken \/ found[e] = IdAt(hit[e].target, FirstSecond)
          /\ \E t \in Earlier : Namesake(t, hit[e]) /\ found[e] = IdAt(t, FirstSecond)

(* A step gives a record no other identifier, target or upload status, and  *)
(* no other status than "deleted".                                          *)
LEMMA RecordsKept ==
    ASSUME TypeInv, [Next]_vars, NEW n \in DOMAIN backups'
    PROVE  \/ /\ n \in DOMAIN backups
              /\ backups'[n].id = backups[n].id /\ backups'[n].target = backups[n].target
              /\ backups'[n].s3 = backups[n].s3
              /\ backups'[n].status \in {backups[n].status, "deleted"}
           \/ /\ n \notin DOMAIN backups /\ n = appended'
              /\ \E t \in Targets : PerformBackup(t)
  <1>1. \A m \in DOMAIN backups : backups[m] \in Record
    BY DEF TypeInv, TypeOK, IsLog
  <1>2. ASSUME NEW id, backups' = WithDeletion(backups, id)
        PROVE  /\ n \in DOMAIN backups
               /\ backups'[n].id = backups[n].id /\ backups'[n].target = backups[n].target
               /\ backups'[n].s3 = backups[n].s3
               /\ backups'[n].status \in {backups[n].status, "deleted"}
    <2>1. n \in DOMAIN backups /\ backups'[n] \in {backups[n], Deleted(backups[n])}
      BY <1>2 DEF WithDeletion, EditFirst
    <2> QED BY <1>1, <2>1 DEF Deleted, Record
  <1>3. ASSUME backups' = Purged(backups, clock)
        PROVE  n \in DOMAIN backups /\ backups'[n] = backups[n]
    BY <1>3 DEF Purged
  <1>4. ASSUME NEW t \in Targets, PerformBackup(t)
        PROVE  \/ n \in DOMAIN backups /\ backups'[n] = backups[n]
               \/ n \notin DOMAIN backups /\ n = appended'
    BY <1>4, BackupAdded
  <1> QED BY <1>2, <1>3, <1>4, LogSteps DEF Begin, Mark, DeleteBackup

(* What is found for a legacy backup is the record of a backup of that      *)
(* second, type and database, its own among them if it is active.           *)
LEMMA RecordsOfLegacy ==
    ASSUME TypeInv, RecordInv, NEW s \in Stores, NEW p \in FlatPlaces
    PROVE  /\ \A n \in RecordsFor(s, p) :
                 /\ n \in DOMAIN backups /\ backups[n].target \in Earlier
                 /\ Namesake(backups[n].target, p)
                 /\ backups[n].id = IdAt(backups[n].target, FirstSecond)
           /\ \A n \in DOMAIN backups :
                 PathOf(backups[n]) = p =>
                     /\ backups[n].id = IdAt(p.target, FirstSecond)
                     /\ backups[n].status = "success" => n \in RecordsFor(s, p)
  <1>1. PICK t \in Legacy : p = Place(t, FirstSecond, "flat")
    BY DEF FlatPlaces
  <1>2. p.target = t /\ p.at = FirstSecond /\ t \in Earlier
    BY <1>1, EarlierRecords DEF Place
  <1>3. ASSUME NEW n \in RecordsFor(s, p)
        PROVE  /\ n \in DOMAIN backups /\ backups[n].target \in Earlier
               /\ Namesake(backups[n].target, p)
               /\ backups[n].id = IdAt(backups[n].target, FirstSecond)
    <2>1. /\ n \in DOMAIN backups /\ TypeOf[backups[n].target] = TypeOf[t]
          /\ IsItsRecord(s, backups[n], p) /\ Made(backups[n])
      BY <1>2 DEF RecordsFor, Filtered, RecordInv
    <2>2. \/ PathOf(backups[n]) = p
          \/ DbOf[backups[n].target] = DbOf[t] /\ backups[n].id[2] = FirstSecond
      BY <1>2, <2>1 DEF IsItsRecord, SameBase, PathOf, Place, Stores
    <2>3. DbOf[backups[n].target] = DbOf[t] /\ backups[n].id[2] = FirstSecond
      BY <1>1, <2>2 DEF PathOf, Place
    <2> QED BY <1>2, <2>1, <2>3 DEF Made, Namesake
  <1>4. ASSUME NEW n \in DOMAIN backups, PathOf(backups[n]) = p
        PROVE  /\ backups[n].id = IdAt(p.target, FirstSecond)
               /\ backups[n].status = "success" => n \in RecordsFor(s, p)
    <2>1. /\ backups[n].target = t /\ backups[n].s3 = "success" /\ backups[n].target \in Targets
          /\ backups[n].id = IdAt(t, FirstSecond)
      BY <1>1, <1>4 DEF PathOf, Place, RecordInv, Made
    <2> QED BY <1>2, <1>4, <2>1 DEF RecordsFor, Filtered, IsItsRecord, Stores
  <1> QED BY <1>3, <1>4

(* At the start every record was made by a backup before it.                *)
LEMMA RecordStart == Init => RecordInv
  <1> SUFFICES ASSUME Init PROVE RecordInv
    OBVIOUS
  <1>1. clock = 2 /\ FirstSecond = 1 /\ \A n : IdAt(n, FirstSecond)[2] = FirstSecond
    BY DEF Init, FirstSecond, IdAt
  <1>2. ASSUME NEW n \in DOMAIN backups PROVE Made(backups[n])
    <2>1. /\ backups[n].id = IdAt(backups[n].target, FirstSecond) /\ backups[n].target = Before[n]
          /\ n \in DOMAIN Before /\ backups[n].status = "success" /\ backups[n].s3 = "success"
      BY EarlierRecords DEF Init
    <2>2. backups[n].target \in Earlier /\ Earlier \subseteq Targets
      BY <2>1, EarlierRecords DEF Earlier
    <2> QED BY <1>1, <2>1, <2>2 DEF Made
  <1> QED BY <1>2 DEF Init, RecordInv

(* No step makes a record out of nothing, or finds that of another backup.  *)
LEMMA RecordStep == TypeInv /\ FlatInv /\ RecordInv /\ [Next]_vars => RecordInv'
  <1> SUFFICES ASSUME TypeInv, FlatInv, RecordInv, [Next]_vars PROVE RecordInv'
    OBVIOUS
  <1>1. clock' \in Nat /\ clock \in Nat /\ clock <= clock' /\ clock > FirstSecond
    BY DEF Next, Pass, Begin, Lookup, Mark, TypeOver, StoreOver, ListType, CheckItem, PerformBackup,
           DeleteBackup, Crash, Tick, vars, TypeInv, TypeOK, Shape
  <1>2. ASSUME NEW n \in DOMAIN backups' PROVE Made(backups[n])'
    <2>1. CASE /\ n \in DOMAIN backups
               /\ backups'[n].id = backups[n].id /\ backups'[n].target = backups[n].target
               /\ backups'[n].s3 = backups[n].s3
               /\ backups'[n].status \in {backups[n].status, "deleted"}
      <3>1. Made(backups[n]) /\ 1..clock \subseteq 1..clock'
        BY <1>1, <2>1 DEF RecordInv
      <3> QED BY <2>1, <3>1 DEF Made
    <2>2. ASSUME NEW t \in Targets, PerformBackup(t), n = appended' PROVE Made(backups[n])'
      <3>1. /\ backups'[n].target = t /\ backups'[n].id = IdAt(t, clock) /\ clock' = clock
            /\ backups'[n].status = "success" /\ backups'[n].s3 = "success"
        BY <2>2, BackupAdded DEF PerformBackup
      <3>2. IdAt(t, clock)[2] = clock /\ clock # FirstSecond /\ clock \in 1..clock
        BY <1>1 DEF IdAt, FirstSecond
      <3> QED BY <3>1, <3>2 DEF Made
    <2> QED BY <2>1, <2>2, RecordsKept
  <1>3. mistaken \subseteq mistaken'
    BY DEF Next, Pass, Begin, Lookup, Mark, TypeOver, StoreOver, ListType, CheckItem, PerformBackup,
           DeleteBackup, Crash, Tick, vars, ghosts
  <1>4. ASSUME NEW e \in Enforcers, pc'[e] = "mark"
        PROVE  /\ hit'[e] \in mistaken' \/ found'[e] = IdAt(hit'[e].target, FirstSecond)
               /\ \E t \in Earlier : Namesake(t, hit'[e]) /\ found'[e] = IdAt(t, FirstSecond)
    <2>1. ASSUME Lookup(e)
          PROVE  /\ hit'[e] \in mistaken' \/ found'[e] = IdAt(hit'[e].target, FirstSecond)
                 /\ \E t \in Earlier : Namesake(t, hit'[e]) /\ found'[e] = IdAt(t, FirstSecond)
      <3> DEFINE candidates == RecordsFor(store[e], hit[e])
                 first == Min(candidates)
      <3>1. hit[e] \in FlatPlaces /\ store[e] \in Stores
        BY <2>1 DEF Lookup, FlatInv, TypeInv, TypeOK
      <3>2. candidates \subseteq Nat
        BY DEF RecordsFor, Filtered, TypeInv, TypeOK, IsLog, Numbers
      <3>3. /\ candidates # {} /\ found'[e] = backups[first].id /\ hit'[e] = hit[e]
            /\ mistaken' = mistaken \cup ({hit[e]} \ {PathOf(backups[first])})
        BY <1>4, <2>1 DEF Lookup, NextItem, TypeInv, TypeOK, Shape
      <3>4. first \in candidates
        BY <3>2, <3>3, SmallestNumber
      <3> HIDE DEF first, candidates
      <3>5. /\ first \in DOMAIN backups /\ backups[first].target \in Earlier
            /\ Namesake(backups[first].target, hit[e])
            /\ backups[first].id = IdAt(backups[first].target, FirstSecond)
            /\ PathOf(backups[first]) = hit[e] => backups[first].id = IdAt(hit[e].target, FirstSecond)
        BY <3>1, <3>4, RecordsOfLegacy DEF candidates
      <3> QED BY <3>3, <3>5
    <2>2. CASE pc[e] = "mark" /\ hit'[e] = hit[e] /\ found'[e] = found[e]
      BY <1>3, <2>2 DEF RecordInv
    <2>3. Lookup(e) \/ (pc[e] = "mark" /\ hit'[e] = hit[e] /\ found'[e] = found[e])
      BY <1>4 DEF Next, Pass, Begin, Lookup, Mark, NextItem, TypeOver, StoreOver, ListType, CheckItem,
                  PerformBackup, DeleteBackup, Crash, Tick, vars, passVars, TypeInv, TypeOK, Shape
    <2> QED BY <2>1, <2>2, <2>3
  <1> QED BY <1>2, <1>4 DEF RecordInv, Namesake

-------------------------------------------------------------------------------
(* The name of a target joins three names with hyphens.  If the backups     *)
(* there at the start have different names, every identifier names one      *)
(* record: a second backup of the same name and second is not made.         *)
EarlierNamesDiffer == \A t, u \in Earlier : NameOf[t] = NameOf[u] => t = u

(* At the start an identifier names one record.                             *)
LEMMA UniqueStart == EarlierNamesDiffer /\ Init => OneRecordEach(backups)
  <1> SUFFICES ASSUME EarlierNamesDiffer, Init, NEW m \in DOMAIN backups, NEW n \in DOMAIN backups,
                      backups[m].id = backups[n].id
               PROVE  m = n
    BY DEF OneRecordEach
  <1>1. /\ backups = EarlierLog
        /\ IdAt(backups[m].target, FirstSecond) = IdAt(backups[n].target, FirstSecond)
    BY EarlierRecords DEF Init
  <1>2. backups[m].target = backups[n].target
    <2>1. backups[m].target \in Earlier /\ backups[n].target \in Earlier
      BY <1>1, EarlierRecords DEF Earlier
    <2> QED BY <1>1, <2>1 DEF IdAt, EarlierNamesDiffer
  <1> QED BY <1>1, <1>2, EarlierRecords

(* Every step keeps an identifier the name of one record.                   *)
LEMMA UniqueStep == TypeInv /\ OneRecordEach(backups) /\ [Next]_vars => OneRecordEach(backups')
  <1> SUFFICES ASSUME TypeInv, OneRecordEach(backups), [Next]_vars,
                      NEW m \in DOMAIN backups', NEW n \in DOMAIN backups',
                      backups'[m].id = backups'[n].id
               PROVE  m = n
    BY DEF OneRecordEach
  <1>1. CASE m \in DOMAIN backups /\ n \in DOMAIN backups
    <2>1. backups'[m].id = backups[m].id /\ backups'[n].id = backups[n].id
      BY <1>1, RecordsKept
    <2> QED BY <1>1, <2>1 DEF OneRecordEach
  <1>2. CASE m \notin DOMAIN backups /\ n \notin DOMAIN backups
    BY <1>2, RecordsKept
  <1>3. ASSUME NEW old \in DOMAIN backups, NEW new, new \in DOMAIN backups', new \notin DOMAIN backups,
               old \in DOMAIN backups'
        PROVE  backups'[old].id # backups'[new].id
    <2>1. PICK t \in Targets : PerformBackup(t)
      BY <1>3, RecordsKept
    <2> QED BY <1>3, <2>1, BackupAdded
  <1> QED BY <1>1, <1>2, <1>3

-------------------------------------------------------------------------------
(* A record stays active only while its file is there, or is about to be    *)
(* accounted for.                                                           *)
LEMMA ActiveStep ==
    TypeInv /\ FlatInv /\ RecordInv /\ OneRecordEach(backups) /\ ActiveMeansStored /\ [Next]_vars
        => ActiveMeansStored'
  <1> SUFFICES ASSUME TypeInv, FlatInv, RecordInv, OneRecordEach(backups), ActiveMeansStored, [Next]_vars,
                      NEW n \in DOMAIN backups', backups'[n].status = "success"
               PROVE  \/ PathOf(backups'[n]) \in stored'["local"] \cup orphaned' \cup mistaken'
                      \/ \E e \in Enforcers : pc'[e] \in {"lookup", "mark"} /\ hit'[e] = PathOf(backups'[n])
    BY DEF ActiveMeansStored, Handling
  <1> DEFINE path == PathOf(backups'[n])
  <1>0. "local" \in Stores /\ \A t, at, org : Place(t, at, org) # NoPlace
    BY DEF Stores, Place, NoPlace
  <1>1. ASSUME NEW t \in Targets, PerformBackup(t), n = appended'
        PROVE  path \in stored'["local"]
    <2>1. backups'[n].target = t /\ backups'[n].id[2] = clock /\ clock # FirstSecond
      BY <1>1, BackupAdded DEF IdAt, TypeInv, Shape, TypeOK, FirstSecond
    <2> QED BY <1>0, <1>1, <2>1 DEF PerformBackup, PathOf, Organisations
  <1>2. ASSUME n \in DOMAIN backups, backups[n].status = "success", PathOf(backups[n]) = path
        PROVE  \/ path \in stored'["local"] \cup orphaned' \cup mistaken'
               \/ \E e \in Enforcers : pc'[e] \in {"lookup", "mark"} /\ hit'[e] = path
    <2>0. mistaken \subseteq mistaken'
      BY DEF Next, Pass, Begin, Lookup, Mark, TypeOver, StoreOver, ListType, CheckItem, PerformBackup,
             DeleteBackup, Crash, Tick, vars, ghosts
    <2>1. \/ path \in stored["local"] \cup orphaned \cup mistaken
          \/ \E e \in Enforcers : pc[e] \in {"lookup", "mark"} /\ hit[e] = path
      BY <1>2 DEF ActiveMeansStored, Handling
    <2>2. CASE path \in stored["local"] \cup orphaned
      <3>1. ASSUME NEW e \in Enforcers, NEW p \in list[e], CheckItem(e, p)
            PROVE  path \in stored'["local"] \cup orphaned' \/ (pc'[e] = "lookup" /\ hit'[e] = path)
        BY <1>0, <2>2, <3>1 DEF CheckItem, TypeInv, TypeOK, Shape
      <3>2. CASE Crash
        BY <2>2, <3>2 DEF Crash
      <3>3. ASSUME NEW t \in Targets, PerformBackup(t)
            PROVE  path \in stored'["local"] \cup orphaned'
        BY <1>0, <2>2, <3>3 DEF PerformBackup
      <3>4. CASE UNCHANGED <<stored, orphaned>>
        BY <2>2, <3>4
      <3>5. \/ UNCHANGED <<stored, orphaned>> \/ Crash \/ \E t \in Targets : PerformBackup(t)
            \/ \E e \in Enforcers : \E p \in list[e] : CheckItem(e, p)
        BY DEF Next, Pass, Begin, Lookup, Mark, TypeOver, StoreOver, ListType, DeleteBackup, Tick, vars,
               passVars, ghosts
      <3> QED BY <3>1, <3>2, <3>3, <3>4, <3>5
    <2>3. ASSUME NEW e \in Enforcers, pc[e] \in {"lookup", "mark"}, hit[e] = path
          PROVE  path \in orphaned' \cup mistaken' \/ (pc'[e] \in {"lookup", "mark"} /\ hit'[e] = path)
      <3>1. hit[e] \in FlatPlaces /\ store[e] \in Stores
        BY <2>3 DEF FlatInv, TypeInv, TypeOK
      <3>2. CASE Lookup(e)
        <4>1. n \in RecordsFor(store[e], hit[e])
          BY <1>2, <2>3, <3>1, RecordsOfLegacy
        <4> QED BY <2>3, <3>2, <4>1 DEF Lookup, NextItem, TypeInv, TypeOK, Shape
      <3>3. CASE Mark(e)
        <4>0. CASE hit[e] \in mistaken
          BY <2>0, <2>3, <4>0
        <4>1. backups[n].id = IdAt(hit[e].target, FirstSecond)
          BY <1>2, <2>3, <3>1, RecordsOfLegacy
        <4>2. ASSUME hit[e] \notin mistaken
              PROVE  backups[n].id = found[e] /\ backups' = WithDeletion(backups, found[e])
          BY <3>3, <4>1, <4>2 DEF Mark, RecordInv
        <4>3. IsLog(backups) /\ backups[n] \in Record
          BY <1>2 DEF TypeInv, TypeOK, IsLog
        <4>4. ASSUME hit[e] \notin mistaken PROVE backups'[n] = Deleted(backups[n])
          BY <1>2, <4>2, <4>3, <4>4, EditsTheOne, 0 \in Nat
        <4>5. ASSUME hit[e] \notin mistaken PROVE backups'[n].status = "deleted"
          BY <4>3, <4>4, <4>5 DEF Deleted, Record
        <4> QED BY <4>0, <4>5
      <3>4. CASE Crash
        <4>1. hit[e] # NoPlace
          BY <2>3, <1>0 DEF PathOf
        <4> QED BY <2>3, <3>4, <4>1 DEF Crash
      <3>5. CASE pc'[e] = pc[e] /\ hit'[e] = hit[e]
        BY <2>3, <3>5
      <3>6. Lookup(e) \/ Mark(e) \/ Crash \/ (pc'[e] = pc[e] /\ hit'[e] = hit[e])
        BY <2>3 DEF Next, Pass, Begin, Lookup, Mark, NextItem, TypeOver, StoreOver, ListType, CheckItem,
                    PerformBackup, DeleteBackup, Tick, vars, passVars, TypeInv, TypeOK, Shape
      <3> QED BY <3>2, <3>3, <3>4, <3>5, <3>6
    <2>4. CASE path \in mistaken
      BY <2>0, <2>4
    <2> QED BY <2>1, <2>2, <2>3, <2>4
  <1>3. ASSUME n \in DOMAIN backups, backups'[n].id = backups[n].id,
               backups'[n].target = backups[n].target, backups'[n].status \in {backups[n].status, "deleted"}
        PROVE  backups[n].status = "success" /\ PathOf(backups[n]) = path
    BY <1>3 DEF PathOf
  <1> HIDE DEF path
  <1>4. CASE n \in DOMAIN backups
    BY <1>2, <1>3, <1>4, RecordsKept DEF path
  <1>5. CASE n \notin DOMAIN backups
    BY <1>1, <1>5, RecordsKept DEF path
  <1> QED BY <1>4, <1>5

(* With two enforcers on one directory, with backups, deletions by users    *)
(* and failures in between, a record that claims a successful backup has    *)
(* its file, but for an enforcer that died between removal and mark, or     *)
(* that took another record of the same last component for its own.         *)
THEOREM ActiveRecordsHaveFiles == EarlierNamesDiffer => (Spec => []ActiveMeansStored)
<1> SUFFICES ASSUME EarlierNamesDiffer PROVE Spec => []ActiveMeansStored
  OBVIOUS
<1>1. Init => ActiveMeansStored
  <2> SUFFICES ASSUME Init, NEW n \in DOMAIN backups PROVE PathOf(backups[n]) \in stored["local"]
    BY DEF ActiveMeansStored
  <2>1. n \in DOMAIN Before /\ backups[n].target = Before[n] /\ backups[n].id[2] = FirstSecond
    BY EarlierRecords DEF Init, IdAt
  <2>2. CASE Before[n] \in Legacy
    BY <2>1, <2>2 DEF Init, PathOf, Stores, FlatPlaces
  <2>3. CASE Before[n] \notin Legacy
    BY <2>1, <2>3 DEF Init, PathOf, Stores, Organisations
  <2> QED BY <2>2, <2>3
<1>2. Init => OneRecordEach(backups)
  BY UniqueStart
<1>3. OneRecordEach(backups)' <=> OneRecordEach(backups')
  BY DEF OneRecordEach
<1> QED BY <1>1, <1>2, <1>3, UniqueStep, ActiveStep, RecordStart, RecordStep, TypeInvariant, PTL DEF Spec

-------------------------------------------------------------------------------
(* Backups go by server and by type: a legacy one that is gone stays gone.  *)
LEMMA LegacyGoesForGood ==
    ASSUME TypeInv, [Next]_vars, NEW s \in Stores, NEW p \in FlatPlaces, p \in stored'[s]
    PROVE  p \in stored[s]
  <1>1. ASSUME NEW t \in Targets, PerformBackup(t) PROVE p \in stored[s]
    <2>1. p.org = "flat" /\ \A org \in Organisations : Place(t, clock, org).org # "flat"
      BY DEF FlatPlaces, Place, Organisations
    <2>2. stored'[s] = stored[s] \cup {Place(t, clock, org) : org \in Organisations}
      BY <1>1 DEF PerformBackup
    <2> QED BY <2>1, <2>2
  <1>2. ASSUME NEW e \in Enforcers, NEW q \in list[e], CheckItem(e, q) PROVE p \in stored[s]
    BY <1>2 DEF CheckItem, TypeInv, TypeOK, Shape
  <1>3. UNCHANGED stored \/ (\E t \in Targets : PerformBackup(t))
            \/ \E e \in Enforcers : \E q \in list[e] : CheckItem(e, q)
    BY DEF Next, Pass, Begin, Lookup, Mark, TypeOver, StoreOver, ListType, DeleteBackup, Crash, Tick,
           vars, passVars
  <1> QED BY <1>1, <1>2, <1>3

(* What retention, not a user, marked is a backup from before the start,    *)
(* and a legacy backup of its type and last component lost a copy.          *)
LostACopy(r) ==
    /\ r.id[2] = FirstSecond
    /\ \E s \in Stores, t \in Legacy :
          /\ TypeOf[t] = TypeOf[r.target] /\ DbOf[t] = DbOf[r.target]
          /\ Place(t, FirstSecond, "flat") \notin stored[s]

(* Every step keeps a record marked as deleted without one of its copies.   *)
LEMMA MarkedStep ==
    EarlierNamesDiffer /\ TypeInv /\ FlatInv /\ RecordInv /\ MarkedWasRemoved /\ [Next]_vars
        => MarkedWasRemoved'
  <1> SUFFICES ASSUME EarlierNamesDiffer, TypeInv, FlatInv, RecordInv, MarkedWasRemoved, [Next]_vars,
                      NEW n \in DOMAIN backups', n \notin byUser', backups'[n].status = "deleted"
               PROVE  LostACopy(backups[n])'
    BY DEF MarkedWasRemoved, LostACopy
  <1>1. /\ n \in DOMAIN backups /\ n \notin byUser
        /\ backups'[n].id = backups[n].id /\ backups'[n].target = backups[n].target
    <2>1. \A t \in Targets : PerformBackup(t) => backups'[appended'].status = "success"
      BY BackupAdded
    <2>2. byUser \subseteq byUser'
      BY DEF Next, Pass, Begin, Lookup, Mark, TypeOver, StoreOver, ListType, CheckItem, PerformBackup,
             DeleteBackup, Crash, Tick, vars, ghosts
    <2> QED BY <2>1, <2>2, RecordsKept
  <1>2. ASSUME NEW s \in Stores, NEW t \in Legacy, Place(t, FirstSecond, "flat") \notin stored[s]
        PROVE  Place(t, FirstSecond, "flat") \notin stored'[s]
    BY <1>2, LegacyGoesForGood DEF FlatPlaces
  <1>3. ASSUME LostACopy(backups[n]) PROVE LostACopy(backups[n])'
    BY <1>1, <1>2, <1>3 DEF LostACopy
  <1>5. CASE backups[n].status = "deleted"
    BY <1>1, <1>3, <1>5 DEF MarkedWasRemoved, LostACopy
  <1>4. CASE backups[n].status # "deleted"
    <2>1. ASSUME NEW id, backups' = WithDeletion(backups, id) PROVE n \in Matches(backups, id)
      BY <1>1, <1>4, <2>1 DEF WithDeletion, EditFirst, IsFirst
    <2>2. ASSUME NEW m \in DOMAIN backups, DeleteBackup(backups[m].id) PROVE FALSE
      BY <2>1, <2>2 DEF DeleteBackup
    <2>3. ASSUME backups' = Purged(backups, clock) PROVE FALSE
      BY <1>4, <2>3 DEF Purged
    <2>4. ASSUME NEW t \in Targets, PerformBackup(t) PROVE FALSE
      BY <1>1, <1>4, <2>4, BackupAdded
    <2>5. PICK e \in Enforcers : Mark(e)
      BY <1>1, <1>4, <2>2, <2>3, <2>4, LogSteps DEF Begin
    <2>6. PICK t \in Earlier : Namesake(t, hit[e]) /\ backups[n].id = IdAt(t, FirstSecond)
      BY <2>1, <2>5 DEF Mark, Matches, RecordInv
    <2>7. PICK u \in Legacy : hit[e] = Place(u, FirstSecond, "flat")
      BY <2>5 DEF Mark, FlatInv, FlatPlaces
    <2>8. backups[n].id[2] = FirstSecond /\ backups[n].id[1] = NameOf[t]
      BY <2>6 DEF IdAt
    <2>9. backups[n].target \in Earlier /\ NameOf[backups[n].target] = NameOf[t]
      BY <1>1, <2>8 DEF RecordInv, Made, IdAt
    <2>10. backups[n].target = t
      BY <2>9 DEF EarlierNamesDiffer
    <2>11. hit[e] \notin stored[store[e]] /\ store[e] \in Stores
      BY <2>5 DEF Mark, FlatInv, TypeInv, TypeOK
    <2>12. TypeOf[u] = TypeOf[t] /\ DbOf[u] = DbOf[t]
      BY <2>6, <2>7 DEF Namesake, Place
    <2> QED BY <1>3, <2>7, <2>8, <2>10, <2>11, <2>12 DEF LostACopy
  <1> QED BY <1>4, <1>5

(* Retention marks a record deleted only when a copy is gone of a flat      *)
(* backup of its type, its second and a database of its name: of its own    *)
(* backup, unless another server has a database of that name.               *)
THEOREM MarkedBackupsLostACopy == EarlierNamesDiffer => (Spec => []MarkedWasRemoved)
<1> SUFFICES ASSUME EarlierNamesDiffer PROVE Spec => []MarkedWasRemoved
  OBVIOUS
<1>1. Init => MarkedWasRemoved
  BY EarlierRecords DEF Init, MarkedWasRemoved
<1> QED BY <1>1, MarkedStep, RecordStart, RecordStep, TypeInvariant, PTL DEF Spec

-------------------------------------------------------------------------------
(* A pass without trouble has, in the part of it that lies behind, left     *)
(* nothing that was too old when it began, but for what it has yet to look  *)
(* at of the current type.                                                  *)
Behind(e, s, type) ==
    \/ s = "local" /\ store[e] = "s3"
    \/ s = store[e] /\ type \notin left[e]

Remains(e, s, p) ==
    /\ Behind(e, s, TypeOf[p.target]) /\ TypeOf[p.target] \notin Skipped[s]
    /\ Expired(s, p, started[e])

PassInv ==
    \A e \in Enforcers \ troubled : pc[e] # "idle" =>
        /\ pc[e] = "over" => store[e] = "s3" /\ left[e] = {}
        /\ \A s \in Stores : \A p \in stored[s] \cap FlatPlaces : Remains(e, s, p) =>
              s = store[e] /\ p \in list[e] /\ pc[e] \in {"items", "lookup", "mark"}

(* What is too old stays too old.                                           *)
LEMMA OlderAndOlder ==
    ASSUME TypeInv, NEW s \in Stores, NEW p \in FlatPlaces, NEW e \in Enforcers,
           Expired(s, p, started[e])
    PROVE  Expired(s, p, clock)
  <1>1. PICK t \in Legacy : p = Place(t, FirstSecond, "flat")
    BY DEF FlatPlaces
  <1>2. p.at = FirstSecond /\ p.target = t /\ t \in Targets
    BY <1>1, EarlierRecords DEF Place
  <1>3. Keep[s][TypeOf[p.target]] \in Nat
    <2>1. TypeOf[p.target] \in Types
      BY <1>2, RetentionAssumption
    <2>2. Keep[s] \in [Types -> Nat]
      BY RetentionAssumption
    <2> QED BY <2>1, <2>2
  <1> QED BY <1>2, <1>3 DEF Expired, TypeInv, TypeOK, Shape, FirstSecond

(* Every step keeps what a pass has been over free of what expired before it.*)
LEMMA PassStep == TypeInv /\ FlatInv /\ PassInv /\ [Next]_vars => PassInv'
  <1> SUFFICES ASSUME TypeInv, FlatInv, PassInv, [Next]_vars,
                      NEW e \in Enforcers, e \notin troubled', pc'[e] # "idle"
               PROVE  /\ pc'[e] = "over" => store'[e] = "s3" /\ left'[e] = {}
                      /\ \A s \in Stores : \A p \in stored'[s] \cap FlatPlaces : Remains(e, s, p)' =>
                            s = store'[e] /\ p \in list'[e] /\ pc'[e] \in {"items", "lookup", "mark"}
    BY DEF PassInv
  <1> DEFINE Goal == /\ pc'[e] = "over" => store'[e] = "s3" /\ left'[e] = {}
                     /\ \A s \in Stores : \A p \in stored'[s] \cap FlatPlaces : Remains(e, s, p)' =>
                           s = store'[e] /\ p \in list'[e] /\ pc'[e] \in {"items", "lookup", "mark"}
  <1>1. \A s \in Stores : \A p \in FlatPlaces : p \in stored'[s] => p \in stored[s]
    BY LegacyGoesForGood
  <1>2. \A p \in FlatPlaces : p.org = "flat" /\ TypeOf[p.target] \in Types /\ p.target \in Legacy
    BY EarlierRecords, RetentionAssumption DEF FlatPlaces, Place
  (* Its own pass: what it had left behind, unless the pass begins.         *)
  <1>3. ASSUME e \notin troubled, pc[e] # "idle"
        PROVE  /\ pc[e] = "over" => store[e] = "s3" /\ left[e] = {}
               /\ \A s \in Stores : \A p \in stored[s] \cap FlatPlaces : Remains(e, s, p) =>
                     s = store[e] /\ p \in list[e] /\ pc[e] \in {"items", "lookup", "mark"}
    BY <1>3 DEF PassInv
  <1>4. ASSUME Begin(e) PROVE Goal
    <2>1. store'[e] = "local" /\ left'[e] = Types /\ pc'[e] = "types"
      BY <1>4 DEF Begin, TypeInv, TypeOK
    <2> QED BY <1>2, <2>1 DEF Remains, Behind
  <1>5. ASSUME NEW type \in left[e], ListType(e, type) PROVE Goal
    <2>1. /\ UNCHANGED <<store, started, stored>> /\ pc[e] = "types"
          /\ left'[e] = left[e] \ {type} /\ e \notin troubled
      BY <1>5 DEF ListType, TypeInv, TypeOK
    <2>2. ASSUME NEW s \in Stores, NEW p \in stored[s] \cap FlatPlaces, Remains(e, s, p)'
          PROVE  s = store[e] /\ TypeOf[p.target] = type /\ Expired(s, p, started[e])
      <3>1. ~Remains(e, s, p)
        BY <1>3, <2>1
      <3> QED BY <2>1, <2>2, <3>1 DEF Remains, Behind, Expired
    <2>3. CASE type \in Skipped[store[e]] /\ UNCHANGED <<pc, list, troubled>>
      BY <2>1, <2>2, <2>3 DEF Remains
    <2>4. CASE pc'[e] = "items" /\ list'[e] = Candidates(store[e], type)
      <3>1. \A s \in Stores : \A p \in stored[s] \cap FlatPlaces : Remains(e, s, p)' =>
               s = store[e] /\ p \in Candidates(store[e], type)
        BY <1>2, <2>2, OlderAndOlder DEF Candidates
      <3> QED BY <2>1, <2>4, <3>1
    <2>5. \/ type \in Skipped[store[e]] /\ UNCHANGED <<pc, list, troubled>>
          \/ pc'[e] = "items" /\ list'[e] = Candidates(store[e], type)
      BY <1>5 DEF ListType, TypeInv, TypeOK, Shape
    <2> QED BY <2>3, <2>4, <2>5
  <1>6. ASSUME NEW p \in list[e], CheckItem(e, p) PROVE Goal
    <2>1. /\ UNCHANGED <<store, started, left>> /\ pc[e] = "items" /\ e \notin troubled
          /\ pc'[e] \in {"items", "lookup"} /\ list'[e] = list[e] \ {p}
          /\ store[e] \in Stores
      BY <1>6 DEF CheckItem, TypeInv, TypeOK, Shape
    <2>2. p \in stored'[store[e]] => ~Expired(store[e], p, clock)
      <3>1. CASE stored' = [stored EXCEPT ![store[e]] = @ \ {p}]
        BY <2>1, <3>1 DEF TypeInv, Shape
      <3>2. CASE ~Expired(store[e], p, clock) \/ ~Removable(store[e], p)
        BY <1>6, <2>1, <3>2 DEF CheckItem, Removable, TypeInv, Shape
      <3> QED BY <1>6, <3>1, <3>2 DEF CheckItem
    <2>3. ASSUME NEW s \in Stores, NEW q \in stored'[s] \cap FlatPlaces, Remains(e, s, q)'
          PROVE  s = store[e] /\ q \in list[e] /\ q # p
      <3>1. q \in stored[s] /\ Remains(e, s, q)
        BY <1>1, <2>1, <2>3 DEF Remains, Behind, Expired
      <3>2. Expired(s, q, clock)
        BY <3>1, OlderAndOlder DEF Remains
      <3> QED BY <1>3, <2>1, <2>2, <3>1, <3>2
    <2> QED BY <2>1, <2>3
  <1>7. ASSUME TypeOver(e) PROVE Goal
    <2>1. /\ UNCHANGED <<store, started, left, list, stored, troubled>>
          /\ pc[e] = "items" /\ pc'[e] = "types" /\ list[e] = {}
      BY <1>7 DEF TypeOver, ghosts, TypeInv, TypeOK
    <2>2. \A s \in Stores : \A p \in stored[s] \cap FlatPlaces : ~Remains(e, s, p)
      BY <1>3, <2>1
    <2> QED BY <2>1, <2>2 DEF Remains, Behind, Expired
  <1>8. ASSUME StoreOver(e) PROVE Goal
    <2>1. /\ UNCHANGED <<started, list, stored, troubled>> /\ pc[e] = "types" /\ left[e] = {}
          /\ \/ store[e] = "local" /\ store'[e] = "s3" /\ left'[e] = Types /\ pc'[e] = "types"
             \/ store[e] = "s3" /\ store'[e] = "s3" /\ left'[e] = {} /\ pc'[e] = "over"
      BY <1>8 DEF StoreOver, ghosts, TypeInv, TypeOK
    <2>2. \A s \in Stores : \A p \in stored[s] \cap FlatPlaces : ~Remains(e, s, p)
      BY <1>3, <2>1
    <2>3. \A s \in Stores : \A p \in stored[s] \cap FlatPlaces : Remains(e, s, p)' => Remains(e, s, p)
      BY <1>2, <2>1 DEF Remains, Behind, Expired
    <2> QED BY <2>1, <2>2, <2>3
  <1>9. ASSUME UNCHANGED <<store[e], started[e], left[e], list[e]>>, e \notin troubled,
               \/ pc'[e] = pc[e]
               \/ pc[e] \in {"items", "lookup", "mark"} /\ pc'[e] \in {"items", "lookup", "mark"}
        PROVE  Goal
    <2>1. \A s \in Stores : \A p \in stored'[s] \cap FlatPlaces :
             p \in stored[s] /\ (Remains(e, s, p)' => Remains(e, s, p))
      BY <1>1, <1>9 DEF Remains, Behind, Expired
    <2> QED BY <1>3, <1>9, <2>1
  <1>10. ASSUME NEW d \in Enforcers, d # e, Pass(d) PROVE Goal
    <2>1. /\ UNCHANGED <<store[e], started[e], left[e], list[e]>> /\ pc'[e] = pc[e]
          /\ e \notin troubled
      BY <1>10 DEF Pass, Begin, Lookup, Mark, NextItem, TypeOver, StoreOver, ListType, CheckItem, ghosts,
                   TypeInv, TypeOK, Shape
    <2> QED BY <1>9, <2>1
  <1>11. ASSUME Lookup(e) \/ Mark(e) PROVE Goal
    <2>1. /\ UNCHANGED <<store[e], started[e], left[e], list[e]>> /\ e \notin troubled
          /\ pc[e] \in {"lookup", "mark"} /\ pc'[e] \in {"items", "mark"}
      BY <1>11 DEF Lookup, Mark, NextItem, ghosts, TypeInv, TypeOK
    <2> QED BY <1>9, <2>1
  <1>12. ASSUME \/ \E t \in Targets : PerformBackup(t)
                \/ \E n \in DOMAIN backups : DeleteBackup(backups[n].id)
                \/ Tick \/ UNCHANGED vars
         PROVE  Goal
    <2>1. UNCHANGED <<store[e], started[e], left[e], list[e]>> /\ e \notin troubled /\ pc'[e] = pc[e]
      BY <1>12 DEF PerformBackup, DeleteBackup, Tick, vars, passVars, ghosts
    <2> QED BY <1>9, <2>1
  <1>13. ~Crash
    BY DEF Crash
  <1> HIDE DEF Goal
  <1>14. Goal
    BY <1>4, <1>5, <1>6, <1>7, <1>8, <1>10, <1>11, <1>12, <1>13 DEF Next, Pass
  <1> QED BY <1>14 DEF Goal

(* When a pass without a failed listing or removal is over, no backup in    *)
(* the flat layout is left that was too old when it began, whatever another *)
(* enforcer removed under its feet.                                         *)
THEOREM FlatLayoutEnforced == Spec => []FlatLayoutIsEnforced
<1>1. Init => PassInv
  BY DEF Init, PassInv
<1>2. FlatInv /\ PassInv => FlatLayoutIsEnforced
  <2> SUFFICES ASSUME FlatInv, PassInv, NEW s \in Stores, NEW e \in Enforcers \ troubled,
                      pc[e] = "over", NEW p \in stored[s], p.org = "flat",
                      TypeOf[p.target] \notin Skipped[s], Expired(s, p, started[e])
               PROVE  FALSE
    BY DEF FlatLayoutIsEnforced, GoneAfterPass
  <2>1. p \in FlatPlaces /\ store[e] = "s3" /\ left[e] = {}
    BY DEF FlatInv, PassInv
  <2>2. Remains(e, s, p)
    BY <2>1 DEF Remains, Behind, Stores
  <2> QED BY <2>1, <2>2 DEF PassInv
<1> QED BY <1>1, <1>2, PassStep, TypeInvariant, PTL DEF Spec
===============================================================================
