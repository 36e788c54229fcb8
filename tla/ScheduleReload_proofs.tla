------------------------- MODULE ScheduleReload_proofs -------------------------
(***************************************************************************)
(* Proofs about ScheduleReload, for every finite set of schedules, every   *)
(* set of types and expressions, and any number of reloading goroutines.   *)
(***************************************************************************)
EXTENDS ScheduleReload, FiniteSetTheorems, TLAPS

(* A finite set of numbers that is not empty has a largest one.             *)
LEMMA LargestNumber ==
    ASSUME NEW S, S \subseteq Int, IsFiniteSet(S), S # {}
    PROVE  \E x \in S : \A y \in S : x >= y
  <1> DEFINE Above(x) == {y \in S : y > x}
             family == {Above(x) : x \in S}
  <1>1. family \subseteq FiniteSubsetsOf(S) /\ family # {}
    <2>1. \A x \in S : IsFiniteSet(Above(x))
      BY FS_Subset
    <2> QED BY <2>1 DEF FiniteSubsetsOf
  <1>2. PICK least \in family : \A set \in family : <<set, least>> \notin StrictSubsetOrdering(S)
    <2> HIDE DEF family
    <2> QED BY <1>1, FS_StrictSubsetOrderingWellFounded, WFMin
  <1>3. PICK x \in S : least = Above(x)
    BY <1>2
  <1>4. ASSUME NEW y \in S, y > x PROVE FALSE
    <2>1. Above(y) \subseteq Above(x) /\ y \in Above(x) /\ y \notin Above(y)
      <3>1. x \in Int /\ y \in Int /\ \A z \in S : z \in Int
        OBVIOUS
      <3>2. \A z \in Int : z > y => z > x
        BY <1>4, <3>1
      <3>3. ~(y > y)
        BY <3>1
      <3> QED BY <1>4, <3>1, <3>2, <3>3
    <2>2. Above(y) \in family
      OBVIOUS
    <2>3. <<Above(y), Above(x)>> \in StrictSubsetOrdering(S)
      BY <2>1 DEF StrictSubsetOrdering
    <2> QED BY <1>2, <1>3, <2>2, <2>3
  <1> QED BY <1>4

(* The rows make a configuration, whatever they are.                        *)
LEMMA FromRowsType ==
    ASSUME NEW rs \in Rows
    PROVE  IsConfig(FromRows(rs))
  <1>1. ASSUME NEW t \in Types, EnabledFor(rs, t) # {} PROVE FromRows(rs)[t] \in Exprs
    <2>1. EnabledFor(rs, t) \subseteq Nat /\ IsFiniteSet(EnabledFor(rs, t))
      BY ScheduleAssumption, FS_Subset DEF EnabledFor
    <2>2. \E s \in EnabledFor(rs, t) : \A u \in EnabledFor(rs, t) : s >= u
      BY <1>1, <2>1, LargestNumber
    <2>3. Max(EnabledFor(rs, t)) \in EnabledFor(rs, t)
      BY <2>2 DEF Max
    <2>4. \A s \in EnabledFor(rs, t) : rs[s] \in Row
      BY DEF EnabledFor, Rows
    <2>5. FromRows(rs)[t] = rs[Max(EnabledFor(rs, t))].expr
      BY <1>1 DEF FromRows
    <2>6. \A row \in Row : row.expr \in Exprs
      BY DEF Row
    <2> QED BY <2>3, <2>4, <2>5, <2>6
  <1> QED BY <1>1 DEF IsConfig, FromRows

-------------------------------------------------------------------------------
(* Types, with what a goroutine holds at the steps that use it.             *)
Update == [id : Schedules, row : Row]

Local ==
    /\ DOMAIN read = Reloaders /\ DOMAIN todo = Reloaders
    /\ DOMAIN job = Reloaders /\ DOMAIN request = Reloaders
    /\ \A r \in Reloaders :
          /\ pc[r] = "saving" => request[r] \in Update
          /\ pc[r] \in {"deleting", "storing"} => job[r].type \in Types
          /\ pc[r] = "storing" => job[r].id \in 1..(nextID - 1)

TypeInv == TypeOK /\ Local

(* The numbers of the entries.  Each names one entry, and is in jobIDs for  *)
(* one type, unless the goroutine that got it is about to put it there; an  *)
(* entry that is not in jobIDs yet cannot be removed.                       *)
NumbersInv ==
    /\ \A e, f \in entries : e.id = f.id => e = f
    /\ \A e \in entries : e.id < nextID
    /\ \A t, u \in DOMAIN jobIDs : jobIDs[t] = jobIDs[u] => t = u
    /\ \A r \in Reloaders : At(r, "storing") =>
          /\ \E e \in entries : e.id = job[r].id /\ e.type = job[r].type
          /\ \A t \in DOMAIN jobIDs : jobIDs[t] # job[r].id
          /\ \A q \in Reloaders : At(q, "storing") /\ job[q].id = job[r].id => q = r

(* A type that has an expression has its entry, or a goroutine that took    *)
(* the present configuration is still to add it, or one has its setup, and  *)
(* with it a look at the present configuration, still before it.            *)
Fires(t) == \E e \in entries : e.type = t /\ e.expr = backupTypes[t]
Rebuilding == {"publish", "reload", "removing", "deleting"}
WillAdd(r, t) ==
    /\ pc[r] \in {"adding", "storing"}
    /\ t \in todo[r] /\ t \in DOMAIN read[r] /\ read[r][t] = backupTypes[t]

ScheduleInv ==
    \A t \in Accepted(backupTypes) :
        \/ Fires(t)
        \/ \E r \in Reloaders : pc[r] \in Rebuilding \/ WillAdd(r, t)

(* No update that may bring a deleted row back is under way, except those   *)
(* that met the deletion.                                                   *)
DeletedInv == \A s \in deleted \ raced : rows[s] = NoRow /\ Saving(s) = {}

(* Reloads that do not overlap: one goroutine is at work at most, and how   *)
(* far it has come says what the entries and jobIDs have in common with the *)
(* configuration.                                                           *)
AtWork(r) == pc[r] \notin {"idle", "saving"}
Untouched == \A r \in Reloaders : pc[r] \in {"idle", "saving", "read", "publish"}

Matched(e) ==
    \/ e.type \in DOMAIN jobIDs /\ jobIDs[e.type] = e.id
    \/ \E r \in Reloaders : At(r, "storing") /\ job[r].type = e.type /\ job[r].id = e.id

Current == \A e \in entries : e.type \in DOMAIN backupTypes /\ e.expr = backupTypes[e.type]

Progress(r) ==
    /\ pc[r] \in {"removing", "deleting"} => DOMAIN jobIDs \subseteq todo[r]
    /\ pc[r] = "deleting" =>
          /\ job[r].type \in DOMAIN jobIDs /\ job[r].id = jobIDs[job[r].type]
          /\ \A e \in entries : e.id # job[r].id
    /\ pc[r] \in {"adding", "storing"} =>
          read[r] = backupTypes /\ todo[r] \subseteq DOMAIN backupTypes /\ Current
    /\ pc[r] = "adding" => DOMAIN jobIDs = Accepted(backupTypes) \ todo[r]
    /\ pc[r] = "storing" =>
          /\ job[r].type \in Accepted(backupTypes) \ todo[r]
          /\ DOMAIN jobIDs = Accepted(backupTypes) \ (todo[r] \cup {job[r].type})

SoloInv == ~overlapped =>
    /\ \A q, r \in Reloaders : AtWork(q) /\ AtWork(r) => q = r
    /\ \A e \in entries : Matched(e)
    /\ Untouched => DOMAIN jobIDs = Accepted(backupTypes) /\ Current
    /\ \A r \in Reloaders : Progress(r)

(* ... and whether the configuration is that of the rows.                   *)
FollowInv == ~overlapped =>
    /\ \A r \in Reloaders : At(r, "publish") => read[r] = FromRows(rows)
    /\ \A r \in Reloaders :
          pc[r] \in {"reload", "removing", "deleting", "adding", "storing"}
              => backupTypes = FromRows(rows)
    /\ Quiet /\ ~unread => backupTypes = FromRows(rows)

-------------------------------------------------------------------------------
(* The rows have finitely many types, ...                                   *)
LEMMA AcceptedFinite ==
    ASSUME NEW rs \in Rows
    PROVE  IsFiniteSet(Accepted(FromRows(rs)))
  <1> DEFINE types == Accepted(FromRows(rs))
             last == [t \in types |-> Max(EnabledFor(rs, t))]
  <1>1. ASSUME NEW t \in types PROVE last[t] \in EnabledFor(rs, t)
    <2>1. EnabledFor(rs, t) \subseteq Nat /\ IsFiniteSet(EnabledFor(rs, t)) /\ EnabledFor(rs, t) # {}
      BY ScheduleAssumption, FS_Subset DEF EnabledFor, Accepted, FromRows
    <2>2. \E s \in EnabledFor(rs, t) : \A u \in EnabledFor(rs, t) : s >= u
      BY <2>1, LargestNumber
    <2> QED BY <2>2 DEF Max
  <1>2. \A t \in types : last[t] \in Schedules /\ rs[last[t]].type = t
    BY <1>1 DEF EnabledFor
  <1>3. last \in Injection(types, Schedules)
    <2> HIDE DEF types
    <2>1. last \in [types -> Schedules]
      BY <1>2
    <2> HIDE DEF last
    <2>2. \A t, u \in types : last[t] = last[u] => t = u
      BY <1>2
    <2> QED BY <2>1, <2>2 DEF Injection, IsInjective
  <1> QED BY <1>3, ScheduleAssumption, FS_Injection

(* ... so SetupJobs numbers the entries from 1 up, one for each type.       *)
LEMMA FreshEntries ==
    ASSUME NEW rs \in Rows, NEW c, c = FromRows(rs), NEW ids \in Numberings(c),
           NEW es, es = EntriesOf(c, ids)
    PROVE  /\ IsConfig(c)
           /\ Cardinality(es) \in Nat
           /\ DOMAIN ids = Accepted(c) /\ Accepted(c) \subseteq Types
           /\ \A t \in Accepted(c) : ids[t] \in 1..Cardinality(es)
           /\ \A t, u \in Accepted(c) : ids[t] = ids[u] => t = u
           /\ \A t \in Accepted(c) : \E e \in es : e.id = ids[t] /\ e.type = t /\ e.expr = c[t]
           /\ \A e \in es : /\ e \in Entry
                            /\ e.type \in Accepted(c) /\ e.id = ids[e.type] /\ e.expr = c[e.type]
           /\ \A e, f \in es : e.id = f.id => e = f
  <1> DEFINE entry == [t \in Accepted(c) |-> [id |-> ids[t], type |-> t, expr |-> c[t]]]
  <1>1. IsConfig(c) /\ IsFiniteSet(Accepted(c))
    BY FromRowsType, AcceptedFinite
  <1>2. Accepted(c) \subseteq Types /\ \A t \in Accepted(c) : c[t] \in ValidExprs
    BY <1>1 DEF Accepted, IsConfig
  <1>3. /\ ids \in [Accepted(c) -> 1..Cardinality(Accepted(c))]
        /\ \A t, u \in Accepted(c) : ids[t] = ids[u] => t = u
    BY DEF Numberings
  <1>4. entry \in Bijection(Accepted(c), es)
    <2>1. /\ entry \in [Accepted(c) -> es]
          /\ \A t, u \in Accepted(c) : entry[t] = entry[u] => t = u
          /\ \A e \in es : \E t \in Accepted(c) : entry[t] = e
      BY DEF EntriesOf
    <2> HIDE DEF entry
    <2> QED BY <2>1 DEF Bijection, Injection, IsInjective, Surjection
  <1>5. Cardinality(es) = Cardinality(Accepted(c)) /\ Cardinality(es) \in Nat
    <2>1. ExistsBijection(Accepted(c), es)
      BY <1>4 DEF ExistsBijection
    <2> QED BY <1>1, <2>1, FS_Bijection, FS_CardinalityType
  <1>6. ASSUME NEW t \in Accepted(c)
        PROVE  \E e \in es : e.id = ids[t] /\ e.type = t /\ e.expr = c[t]
    <2>1. [id |-> ids[t], type |-> t, expr |-> c[t]] \in es
      BY DEF EntriesOf
    <2> QED BY <2>1
  <1>7. ASSUME NEW e \in es
        PROVE  /\ e \in Entry
               /\ e.type \in Accepted(c) /\ e.id = ids[e.type] /\ e.expr = c[e.type]
    <2>1. PICK t \in Accepted(c) : e = [id |-> ids[t], type |-> t, expr |-> c[t]]
      BY DEF EntriesOf
    <2>2. ids[t] \in Nat \ {0}
      BY <1>3, <1>5
    <2> QED BY <1>2, <2>1, <2>2 DEF Entry
  <1>8. ASSUME NEW e \in es, NEW f \in es, e.id = f.id PROVE e = f
    <2>1. e.type = f.type /\ e.expr = f.expr
      BY <1>3, <1>7, <1>8
    <2> QED BY <1>7, <1>8, <2>1 DEF Entry
  <1> QED BY <1>1, <1>2, <1>3, <1>5, <1>6, <1>7, <1>8

(* The state has its shape at the start.                                    *)
LEMMA TypeStart == Init => TypeInv
  <1> SUFFICES ASSUME Init PROVE TypeInv
    OBVIOUS
  <1>1. rows \in Rows
    BY ScheduleAssumption DEF Init
  <1>2. /\ IsConfig(backupTypes)
        /\ Cardinality(entries) \in Nat
        /\ DOMAIN jobIDs \subseteq Types
        /\ \A t \in DOMAIN jobIDs : jobIDs[t] \in 1..Cardinality(entries)
        /\ entries \subseteq Entry
    BY <1>1, FreshEntries DEF Init
  <1>3. IsConfig(NoConfig)
    BY DEF IsConfig, NoConfig
  <1>4. nextID \in Nat \ {0} /\ nextID - 1 = Cardinality(entries)
    BY <1>2 DEF Init
  <1>5. TypeOK
    BY <1>1, <1>2, <1>3, <1>4 DEF Init, TypeOK
  <1> QED BY <1>5 DEF TypeInv, Local, Init

(* Every step keeps the shape of the state.                                 *)
LEMMA TypeStep == TypeInv /\ [Next]_vars => TypeInv'
  <1> SUFFICES ASSUME TypeInv, [Next]_vars PROVE TypeInv'
    OBVIOUS
  <1> USE DEF At, Goto, scheduler, ghosts
  <1>0. IsConfig(NoConfig) /\ NoRow \notin Row
    BY DEF IsConfig, NoConfig, NoRow, Row
  <1>1. ASSUME NEW r \in Reloaders, NEW s \in Schedules, NEW row \in Row \cup {NoRow},
               Commit(r, s, row),
               \A q \in Reloaders : pc'[q] = "saving" => request'[q] = request[q],
               \A q \in Reloaders : request'[q] \in {request[q], NoRequest},
               DOMAIN request' = Reloaders, raced' \subseteq deleted', deleted' \subseteq Schedules
        PROVE  TypeInv'
    <2>1. rows' \in Rows
      BY <1>1 DEF Commit, Rows, TypeInv, TypeOK
    <2>2. \A q \in Reloaders : pc'[q] = pc[q] \/ pc'[q] = "read"
      BY <1>1 DEF Commit, TypeInv, TypeOK
    <2> QED BY <1>1, <2>1, <2>2 DEF Commit, TypeInv, TypeOK, Local
  <1>2. ASSUME NEW r \in Reloaders, NEW s \in Schedules, NEW row \in Row, Create(r, s, row)
        PROVE  TypeInv'
    <2>1. Inserted(row) \in Row
      BY DEF Inserted, Row
    <2>2. UNCHANGED request /\ raced' \subseteq deleted' /\ deleted' \subseteq Schedules
      BY <1>2 DEF Create, TypeInv, TypeOK
    <2>3. DOMAIN request' = Reloaders
      BY <2>2 DEF TypeInv, Local
    <2> QED BY <1>1, <1>2, <2>1, <2>2, <2>3 DEF Create
  <1>3. ASSUME NEW r \in Reloaders, Save(r) PROVE TypeInv'
    <2>1. request[r] \in Update
      BY <1>3 DEF Save, TypeInv, Local
    <2>2. PICK s \in Schedules, row \in Row : request[r] = [id |-> s, row |-> row]
      BY <2>1 DEF Update
    <2>3. Inserted(row) \in Row
      BY DEF Inserted, Row
    <2>4. PICK saved \in Row \cup {NoRow} : Commit(r, s, saved)
      BY <1>3, <2>2, <2>3 DEF Save
    <2>5. /\ \A q \in Reloaders : pc'[q] = "saving" => q # r
          /\ \A q \in Reloaders : request'[q] = IF q = r THEN NoRequest ELSE request[q]
          /\ DOMAIN request' = Reloaders
      BY <1>3, <2>4 DEF Save, Commit, TypeInv, TypeOK, Local
    <2>6. raced' \subseteq deleted' /\ deleted' \subseteq Schedules
      BY <1>3 DEF Save, TypeInv, TypeOK
    <2> QED BY <1>1, <2>4, <2>5, <2>6
  <1>4. ASSUME NEW r \in Reloaders, NEW s \in Schedules, NEW row \in Row, Check(r, s, row)
        PROVE  TypeInv'
    <2>1. \A q \in Reloaders : request'[q] = IF q = r THEN [id |-> s, row |-> row] ELSE request[q]
      BY <1>4 DEF Check, TypeInv, Local
    <2>2. [id |-> s, row |-> row] \in Update
      BY DEF Update
    <2>3. \A q \in Reloaders : request'[q] # NoRequest => request'[q] \in [id : Schedules, row : Row]
      BY <2>1, <2>2 DEF TypeInv, TypeOK, Update
    <2>4. \A q \in Reloaders : pc'[q] = "saving" => request'[q] \in Update
      BY <1>4, <2>1, <2>2 DEF Check, TypeInv, TypeOK, Local
    <2> QED BY <1>4, <2>3, <2>4 DEF Check, TypeInv, TypeOK, Local
  <1>5. ASSUME NEW r \in Reloaders, Read(r) PROVE TypeInv'
    <2>1. IsConfig(FromRows(rows))
      BY FromRowsType DEF TypeInv, TypeOK
    <2>2. \A q \in Reloaders : read'[q] = read[q] \/ read'[q] = FromRows(rows)
      BY <1>5 DEF Read, TypeInv, Local
    <2> QED BY <1>5, <2>1, <2>2 DEF Read, TypeInv, TypeOK, Local
  <1>6. ASSUME NEW r \in Reloaders, Publish(r) \/ StartRemoval(r) PROVE TypeInv'
    BY <1>6 DEF Publish, StartRemoval, TypeInv, TypeOK, Local
  <1>7. ASSUME NEW r \in Reloaders, NEW t \in Types, RemoveEntry(r, t) PROVE TypeInv'
    BY <1>7 DEF RemoveEntry, TypeInv, TypeOK, Local
  <1>8. ASSUME NEW r \in Reloaders, DeleteKey(r) PROVE TypeInv'
    BY <1>8 DEF DeleteKey, TypeInv, TypeOK, Local
  <1>9. ASSUME NEW r \in Reloaders, StartSetup(r) PROVE TypeInv'
    <2>1. \A q \in Reloaders : /\ read'[q] = read[q] \/ read'[q] = backupTypes
                               /\ todo'[q] = todo[q] \/ todo'[q] = DOMAIN backupTypes
      BY <1>9 DEF StartSetup, TypeInv, Local
    <2>2. DOMAIN backupTypes \subseteq Types
      BY DEF TypeInv, TypeOK, IsConfig
    <2> QED BY <1>9, <2>1, <2>2 DEF StartSetup, TypeInv, TypeOK, Local
  <1>10. ASSUME NEW r \in Reloaders, NEW t \in Types, AddEntry(r, t) PROVE TypeInv'
    <2>1. \A q \in Reloaders : todo'[q] \subseteq todo[q]
      BY <1>10 DEF AddEntry, TypeInv, Local
    <2>2. CASE UNCHANGED <<entries, nextID, job, pc>>
      BY <1>10, <2>1, <2>2 DEF AddEntry, TypeInv, TypeOK, Local
    <2>3. CASE /\ read[r][t] \in ValidExprs
               /\ entries' = entries \cup {[id |-> nextID, type |-> t, expr |-> read[r][t]]}
               /\ nextID' = nextID + 1
               /\ job' = [job EXCEPT ![r] = [type |-> t, id |-> nextID]]
               /\ pc' = [pc EXCEPT ![r] = "storing"]
      <3>1. [id |-> nextID, type |-> t, expr |-> read[r][t]] \in Entry
        BY <2>3 DEF Entry, TypeInv, TypeOK
      <3>2. \A q \in Reloaders : job'[q] = IF q = r THEN [type |-> t, id |-> nextID] ELSE job[q]
        BY <2>3 DEF TypeInv, Local
      <3>3. nextID \in Nat \ {0} /\ nextID' - 1 = nextID
        BY <2>3 DEF TypeInv, TypeOK
      <3>4. Local'
        BY <1>10, <2>3, <3>2, <3>3 DEF AddEntry, TypeInv, TypeOK, Local
      <3>5. /\ entries' \subseteq Entry /\ nextID' \in Nat \ {0}
            /\ \A u \in DOMAIN jobIDs' : jobIDs'[u] \in 1..(nextID' - 1)
        BY <1>10, <2>3, <3>1, <3>3 DEF AddEntry, TypeInv, TypeOK
      <3> QED BY <1>10, <2>1, <2>3, <3>4, <3>5 DEF AddEntry, TypeInv, TypeOK
    <2> QED BY <1>10, <2>2, <2>3 DEF AddEntry
  <1>11. ASSUME NEW r \in Reloaders, StoreID(r) PROVE TypeInv'
    BY <1>11 DEF StoreID, TypeInv, TypeOK, Local
  <1>12. ASSUME NEW r \in Reloaders, AddRetention(r) PROVE TypeInv'
    <2>1. \A q \in Reloaders : read'[q] = read[q] \/ read'[q] = NoConfig
      BY <1>12 DEF AddRetention, TypeInv, Local
    <2> QED BY <1>0, <1>12, <2>1 DEF AddRetention, TypeInv, TypeOK, Local
  <1>13. CASE Restart
    <2>1. /\ IsConfig(backupTypes')
          /\ Cardinality(entries') \in Nat
          /\ DOMAIN jobIDs' \subseteq Types
          /\ \A t \in DOMAIN jobIDs' : jobIDs'[t] \in 1..Cardinality(entries')
          /\ entries' \subseteq Entry
      BY <1>13, FreshEntries DEF Restart, TypeInv, TypeOK
    <2>2. nextID' \in Nat \ {0} /\ nextID' - 1 = Cardinality(entries') /\ 1 \in Nat \ {0}
      BY <1>13, <2>1 DEF Restart
    <2>3. TypeOK'
      BY <1>0, <1>13, <2>1, <2>2 DEF Restart, TypeInv, TypeOK
    <2> QED BY <1>13, <2>3 DEF Restart, TypeInv, Local
  <1>14. CASE UNCHANGED vars
    BY <1>14 DEF vars, TypeInv, TypeOK, Local
  <1>15. ASSUME NEW r \in Reloaders, Reload(r) PROVE TypeInv'
    BY <1>3, <1>5, <1>6, <1>7, <1>8, <1>9, <1>10, <1>11, <1>12, <1>15 DEF Reload
  <1>16. ASSUME NEW r \in Reloaders, NEW s \in Schedules, Delete(r, s) PROVE TypeInv'
    <2>1. UNCHANGED request /\ raced' \subseteq deleted' /\ deleted' \subseteq Schedules
      BY <1>16 DEF Delete, TypeInv, TypeOK
    <2>2. DOMAIN request' = Reloaders
      BY <2>1 DEF TypeInv, Local
    <2> QED BY <1>1, <1>16, <2>1, <2>2 DEF Delete
  <1> QED BY <1>2, <1>4, <1>13, <1>14, <1>15, <1>16 DEF Next

(* The state has its shape throughout.                                      *)
LEMMA TypeInvariant == Spec => []TypeInv
  BY TypeStart, TypeStep, PTL DEF Spec

(* Rows, configuration, entries and goroutines keep their shape.            *)
THEOREM SchedulesTypeCorrect == Spec => []TypeOK
<1>1. TypeInv => TypeOK
  BY DEF TypeInv
<1> QED BY <1>1, TypeInvariant, PTL

-------------------------------------------------------------------------------
(* The steps that leave the cron scheduler, and who stores an id, alone.    *)
LEMMA SchedulerSteps ==
    ASSUME TypeInv, [Next]_vars
    PROVE  \/ /\ UNCHANGED scheduler
              /\ \A r \in Reloaders : /\ pc'[r] = "storing" <=> pc[r] = "storing"
                                      /\ pc'[r] = "deleting" <=> pc[r] = "deleting"
                                      /\ job'[r] = job[r]
           \/ \E r \in Reloaders : DeleteKey(r) \/ StoreID(r)
           \/ \E r \in Reloaders, t \in Types : RemoveEntry(r, t) \/ AddEntry(r, t)
           \/ \E r \in Reloaders : AddRetention(r)
           \/ Restart
  <1>0. pc \in [Reloaders -> {"idle", "saving", "read", "publish", "reload", "removing", "deleting",
                              "adding", "storing"}]
    BY DEF TypeInv, TypeOK
  <1>1. ASSUME NEW r \in Reloaders, NEW from, NEW to, pc[r] = from, pc' = [pc EXCEPT ![r] = to],
               {from, to} \cap {"storing", "deleting"} = {}, UNCHANGED <<scheduler, job>>
        PROVE  /\ UNCHANGED scheduler
               /\ \A q \in Reloaders : /\ pc'[q] = "storing" <=> pc[q] = "storing"
                                       /\ pc'[q] = "deleting" <=> pc[q] = "deleting"
                                       /\ job'[q] = job[q]
    BY <1>0, <1>1
  <1>2. ASSUME NEW r \in Reloaders,
               \/ \E s \in Schedules, row \in Row : Create(r, s, row) \/ Check(r, s, row)
               \/ \E s \in Schedules : Delete(r, s)
               \/ Save(r)
        PROVE  /\ UNCHANGED <<scheduler, job>>
               /\ \E from \in {"idle", "saving"}, to \in {"saving", "read"} :
                     pc[r] = from /\ pc' = [pc EXCEPT ![r] = to]
    BY <1>2 DEF Create, Delete, Save, Check, Commit, At, Goto, scheduler
  <1>3. ASSUME NEW r \in Reloaders, Read(r) \/ Publish(r) \/ StartRemoval(r) \/ StartSetup(r)
        PROVE  /\ UNCHANGED <<scheduler, job>>
               /\ \E from \in {"read", "publish", "reload", "removing"},
                     to \in {"publish", "idle", "reload", "removing", "adding"} :
                        pc[r] = from /\ pc' = [pc EXCEPT ![r] = to]
    BY <1>3 DEF Read, Publish, StartRemoval, StartSetup, At, Goto, scheduler
  <1>4. CASE UNCHANGED vars
    BY <1>4 DEF vars, scheduler
  <1>5. ASSUME NEW r \in Reloaders,
               \/ \E s \in Schedules, row \in Row : Create(r, s, row) \/ Check(r, s, row)
               \/ \E s \in Schedules : Delete(r, s)
               \/ Save(r) \/ Read(r) \/ Publish(r) \/ StartRemoval(r) \/ StartSetup(r)
        PROVE  /\ UNCHANGED scheduler
               /\ \A q \in Reloaders : /\ pc'[q] = "storing" <=> pc[q] = "storing"
                                       /\ pc'[q] = "deleting" <=> pc[q] = "deleting"
                                       /\ job'[q] = job[q]
    <2>1. PICK from \in {"idle", "saving", "read", "publish", "reload", "removing"},
               to \in {"idle", "saving", "read", "publish", "reload", "removing", "adding"} :
                  pc[r] = from /\ pc' = [pc EXCEPT ![r] = to]
      BY <1>2, <1>3, <1>5
    <2>2. UNCHANGED <<scheduler, job>>
      BY <1>2, <1>3, <1>5
    <2> QED BY <1>1, <2>1, <2>2
  <1> QED BY <1>4, <1>5 DEF Next, Reload

(* At the start no number of an entry is given twice, and none dangles.     *)
LEMMA NumbersStart == Init => NumbersInv /\ NoDanglingID
  <1> SUFFICES ASSUME Init PROVE NumbersInv /\ NoDanglingID
    OBVIOUS
  <1>1. rows \in Rows /\ nextID = Cardinality(entries) + 1 /\ \A r \in Reloaders : ~At(r, "storing")
    BY ScheduleAssumption DEF Init, At
  <1>2. /\ DOMAIN jobIDs = Accepted(backupTypes) /\ Cardinality(entries) \in Nat
        /\ \A t \in Accepted(backupTypes) : jobIDs[t] \in 1..Cardinality(entries)
        /\ \A t, u \in Accepted(backupTypes) : jobIDs[t] = jobIDs[u] => t = u
        /\ \A t \in Accepted(backupTypes) : \E e \in entries : e.id = jobIDs[t] /\ e.type = t
        /\ \A e \in entries : e.type \in Accepted(backupTypes) /\ e.id = jobIDs[e.type]
        /\ \A e, f \in entries : e.id = f.id => e = f
    BY <1>1, FreshEntries DEF Init
  <1> QED BY <1>1, <1>2 DEF NumbersInv, NoDanglingID

(* Every step keeps the numbers of the entries apart, and none dangling.    *)
LEMMA NumbersStep ==
    TypeInv /\ NumbersInv /\ NoDanglingID /\ [Next]_vars => (NumbersInv /\ NoDanglingID)'
  <1> SUFFICES ASSUME TypeInv, NumbersInv, NoDanglingID, [Next]_vars
               PROVE  NumbersInv' /\ NoDanglingID'
    OBVIOUS
  <1> USE DEF At, Goto
  <1>1. CASE /\ UNCHANGED scheduler
             /\ \A r \in Reloaders : /\ pc'[r] = "storing" <=> pc[r] = "storing"
                                     /\ pc'[r] = "deleting" <=> pc[r] = "deleting"
                                     /\ job'[r] = job[r]
    BY <1>1 DEF NumbersInv, NoDanglingID, scheduler
  <1>2. ASSUME NEW r \in Reloaders, DeleteKey(r) PROVE NumbersInv' /\ NoDanglingID'
    <2>1. /\ UNCHANGED <<entries, nextID>> /\ pc[r] = "deleting" /\ pc'[r] = "removing"
          /\ \A q \in Reloaders \ {r} : pc'[q] = pc[q] /\ job'[q] = job[q]
          /\ DOMAIN jobIDs' = DOMAIN jobIDs \ {job[r].type}
          /\ \A t \in DOMAIN jobIDs' : jobIDs'[t] = jobIDs[t]
      BY <1>2 DEF DeleteKey, TypeInv, TypeOK, Local
    <2>2. NumbersInv'
      BY <2>1 DEF NumbersInv
    <2> QED BY <2>1, <2>2 DEF NoDanglingID
  <1>3. ASSUME NEW r \in Reloaders, StoreID(r) PROVE NumbersInv' /\ NoDanglingID'
    <2>1. /\ UNCHANGED <<entries, nextID>> /\ pc[r] = "storing" /\ pc'[r] = "adding"
          /\ \A q \in Reloaders \ {r} : pc'[q] = pc[q] /\ job'[q] = job[q]
          /\ DOMAIN jobIDs' = DOMAIN jobIDs \cup {job[r].type}
          /\ \A t \in DOMAIN jobIDs' : jobIDs'[t] = IF t = job[r].type THEN job[r].id ELSE jobIDs[t]
      BY <1>3 DEF StoreID, TypeInv, TypeOK, Local
    <2>2. NumbersInv'
      BY <2>1 DEF NumbersInv
    <2>3. ASSUME NEW t \in DOMAIN jobIDs'
          PROVE  \/ \E e \in entries' : e.id = jobIDs'[t] /\ e.type = t
                 \/ \E q \in Reloaders : pc'[q] = "deleting" /\ job'[q].type = t
      <3>1. CASE t = job[r].type
        BY <2>1, <3>1 DEF NumbersInv
      <3>2. CASE t # job[r].type
        <4>1. \/ \E e \in entries : e.id = jobIDs[t] /\ e.type = t
              \/ \E q \in Reloaders : pc[q] = "deleting" /\ job[q].type = t
          BY <2>1, <3>2 DEF NoDanglingID
        <4> QED BY <2>1, <3>2, <4>1
      <3> QED BY <3>1, <3>2
    <2> QED BY <2>2, <2>3 DEF NoDanglingID
  <1>4. ASSUME NEW r \in Reloaders, NEW t \in Types, RemoveEntry(r, t)
        PROVE  NumbersInv' /\ NoDanglingID'
    <2>1. /\ UNCHANGED <<jobIDs, nextID>> /\ pc[r] = "removing" /\ pc'[r] = "deleting"
          /\ t \in DOMAIN jobIDs /\ job'[r].type = t
          /\ \A q \in Reloaders \ {r} : pc'[q] = pc[q] /\ job'[q] = job[q]
          /\ entries' = {e \in entries : e.id # jobIDs[t]}
      BY <1>4 DEF RemoveEntry, TypeInv, TypeOK, Local
    <2>2. NumbersInv'
      BY <2>1 DEF NumbersInv
    <2>3. ASSUME NEW u \in DOMAIN jobIDs'
          PROVE  \/ \E e \in entries' : e.id = jobIDs'[u] /\ e.type = u
                 \/ \E q \in Reloaders : pc'[q] = "deleting" /\ job'[q].type = u
      <3>1. CASE u = t
        BY <2>1, <3>1
      <3>2. CASE u # t
        <4>1. \/ \E e \in entries : e.id = jobIDs[u] /\ e.type = u
              \/ \E q \in Reloaders : pc[q] = "deleting" /\ job[q].type = u
          BY <2>1 DEF NoDanglingID
        <4>2. jobIDs[u] # jobIDs[t]
          BY <2>1, <3>2 DEF NumbersInv
        <4> QED BY <2>1, <4>1, <4>2
      <3> QED BY <3>1, <3>2
    <2> QED BY <2>2, <2>3 DEF NoDanglingID
  <1>5. ASSUME NEW r \in Reloaders, NEW t \in Types, AddEntry(r, t)
        PROVE  NumbersInv' /\ NoDanglingID'
    <2>1. UNCHANGED jobIDs /\ pc[r] = "adding"
      BY <1>5 DEF AddEntry
    <2>2. CASE UNCHANGED <<entries, nextID, job, pc>>
      BY <2>1, <2>2 DEF NumbersInv, NoDanglingID
    <2>3. CASE /\ entries' = entries \cup {[id |-> nextID, type |-> t, expr |-> read[r][t]]}
               /\ nextID' = nextID + 1
               /\ job' = [job EXCEPT ![r] = [type |-> t, id |-> nextID]]
               /\ pc' = [pc EXCEPT ![r] = "storing"]
      <3> DEFINE new == [id |-> nextID, type |-> t, expr |-> read[r][t]]
      <3>1. /\ entries' = entries \cup {new} /\ new.id = nextID /\ new.type = t
            /\ pc'[r] = "storing" /\ job'[r].type = t /\ job'[r].id = nextID
            /\ \A q \in Reloaders \ {r} : pc'[q] = pc[q] /\ job'[q] = job[q]
        BY <2>3 DEF TypeInv, TypeOK, Local
      <3>2. /\ nextID \in Nat /\ \A e \in entries : e.id \in Nat /\ e.id < nextID
            /\ \A u \in DOMAIN jobIDs : jobIDs[u] # nextID
            /\ \A q \in Reloaders : pc[q] = "storing" => job[q].id # nextID
        BY DEF TypeInv, TypeOK, Local, Entry, NumbersInv
      <3> HIDE DEF new
      <3>3. \A e, f \in entries' : e.id = f.id => e = f
        BY <3>1, <3>2 DEF NumbersInv
      <3>4. \A e \in entries' : e.id < nextID'
        BY <2>3, <3>1, <3>2
      <3>5. ASSUME NEW q \in Reloaders, pc'[q] = "storing"
            PROVE  /\ \E e \in entries' : e.id = job'[q].id /\ e.type = job'[q].type
                   /\ \A u \in DOMAIN jobIDs : jobIDs[u] # job'[q].id
                   /\ \A p \in Reloaders : pc'[p] = "storing" /\ job'[p].id = job'[q].id => p = q
        <4>1. CASE q = r
          BY <3>1, <3>2, <4>1
        <4>2. CASE q # r
          <5>1. pc[q] = "storing" /\ job'[q] = job[q]
            BY <3>1, <3>5, <4>2
          <5> QED BY <3>1, <3>2, <4>2, <5>1 DEF NumbersInv
        <4> QED BY <4>1, <4>2
      <3>6. NumbersInv'
        BY <2>1, <3>3, <3>4, <3>5 DEF NumbersInv
      <3>7. NoDanglingID'
        BY <2>1, <3>1 DEF NoDanglingID
      <3> QED BY <3>6, <3>7
    <2> QED BY <1>5, <2>2, <2>3 DEF AddEntry
  <1>6. ASSUME NEW r \in Reloaders, AddRetention(r) PROVE NumbersInv' /\ NoDanglingID'
    <2>1. /\ UNCHANGED <<entries, nextID, jobIDs, job>> /\ pc[r] = "adding" /\ pc'[r] = "idle"
          /\ \A q \in Reloaders \ {r} : pc'[q] = pc[q]
      BY <1>6 DEF AddRetention, TypeInv, TypeOK
    <2> QED BY <2>1 DEF NumbersInv, NoDanglingID
  <1>7. CASE Restart
    <2>1. rows \in Rows /\ nextID' = Cardinality(entries') + 1 /\ \A r \in Reloaders : pc'[r] = "idle"
      BY <1>7 DEF Restart, TypeInv, TypeOK
    <2>2. /\ DOMAIN jobIDs' = Accepted(backupTypes') /\ Cardinality(entries') \in Nat
          /\ \A t \in Accepted(backupTypes') : jobIDs'[t] \in 1..Cardinality(entries')
          /\ \A t, u \in Accepted(backupTypes') : jobIDs'[t] = jobIDs'[u] => t = u
          /\ \A t \in Accepted(backupTypes') : \E e \in entries' : e.id = jobIDs'[t] /\ e.type = t
          /\ \A e \in entries' : e.type \in Accepted(backupTypes') /\ e.id = jobIDs'[e.type]
          /\ \A e, f \in entries' : e.id = f.id => e = f
      BY <1>7, <2>1, FreshEntries DEF Restart
    <2> QED BY <2>1, <2>2 DEF NumbersInv, NoDanglingID
  <1> QED BY <1>1, <1>2, <1>3, <1>4, <1>5, <1>6, <1>7, SchedulerSteps

(* However reloads interleave, an id in jobIDs is that of an entry of its   *)
(* type, but for the moment between the removal of the entry and of the     *)
(* key: no reload can remove an entry of another type.                      *)
THEOREM NoIDDangles == Spec => []NoDanglingID
  BY NumbersStart, NumbersStep, TypeInvariant, PTL DEF Spec

-------------------------------------------------------------------------------
(* The edits leave everything but the rows alone, and those at work at it.  *)
LEMMA EditSteps ==
    ASSUME TypeInv, NEW r \in Reloaders,
           \/ \E s \in Schedules, row \in Row : Create(r, s, row) \/ Check(r, s, row)
           \/ \E s \in Schedules : Delete(r, s)
           \/ Save(r)
    PROVE  /\ UNCHANGED <<backupTypes, scheduler, read, todo, job, unread>>
           /\ pc[r] \in {"idle", "saving"} /\ pc'[r] \in {"saving", "read"}
           /\ \A q \in Reloaders \ {r} : pc'[q] = pc[q]
           /\ \/ pc'[r] = "saving" /\ UNCHANGED <<rows, overlapped>>
              \/ /\ pc'[r] = "read"
                 /\ ~overlapped' => ~overlapped /\ \A q \in Reloaders : pc[q] \in {"idle", "saving"}
  <1>1. /\ UNCHANGED <<backupTypes, scheduler, read, todo, job, unread>>
        /\ pc[r] \in {"idle", "saving"}
        /\ \/ pc' = [pc EXCEPT ![r] = "saving"] /\ UNCHANGED <<rows, overlapped>>
           \/ /\ pc' = [pc EXCEPT ![r] = "read"]
              /\ overlapped' = (overlapped \/ \E q \in Reloaders : pc[q] \notin {"idle", "saving"})
    BY DEF Create, Check, Delete, Save, Commit, At, Goto, scheduler
  <1>2. \A q \in Reloaders : pc[q] \in {"idle", "saving"} \/ pc[q] \notin {"idle", "saving"}
    OBVIOUS
  <1> QED BY <1>1, <1>2 DEF TypeInv, TypeOK

(* At the start every schedule that is due an entry has one.                *)
LEMMA ScheduleStart == Init => ScheduleInv
  BY ScheduleAssumption, FreshEntries DEF Init, ScheduleInv, Fires

(* Every step keeps every schedule with an entry or with a goroutine that   *)
(* will add it.                                                             *)
LEMMA ScheduleStep == TypeInv /\ ScheduleInv /\ [Next]_vars => ScheduleInv'
  <1> SUFFICES ASSUME TypeInv, ScheduleInv, [Next]_vars PROVE ScheduleInv'
    OBVIOUS
  <1> USE DEF At, Goto
  (* A step of r that leaves the configuration alone and takes no entry ... *)
  <1>1. ASSUME NEW r \in Reloaders, UNCHANGED backupTypes, entries \subseteq entries',
               \A q \in Reloaders \ {r} :
                  pc'[q] = pc[q] /\ todo'[q] = todo[q] /\ read'[q] = read[q],
               pc[r] \in Rebuilding => pc'[r] \in Rebuilding,
               \A t \in Accepted(backupTypes) : WillAdd(r, t) => WillAdd(r, t)' \/ Fires(t)'
        PROVE  ScheduleInv'
    <2>1. ASSUME NEW t \in Accepted(backupTypes)
          PROVE  Fires(t)' \/ \E q \in Reloaders : pc'[q] \in Rebuilding \/ WillAdd(q, t)'
      <3>1. CASE Fires(t)
        BY <1>1, <3>1 DEF Fires
      <3>2. CASE \E q \in Reloaders : pc[q] \in Rebuilding
        BY <1>1, <3>2
      <3>3. ASSUME NEW q \in Reloaders, WillAdd(q, t)
            PROVE  Fires(t)' \/ WillAdd(q, t)'
        BY <1>1, <3>3 DEF WillAdd
      <3> QED BY <2>1, <3>1, <3>2, <3>3 DEF ScheduleInv
    <2> QED BY <1>1, <2>1 DEF ScheduleInv
  (* ... or one after which r is to set up again keeps every promise.       *)
  <1>2. ASSUME NEW r \in Reloaders, pc'[r] \in Rebuilding PROVE ScheduleInv'
    BY <1>2 DEF ScheduleInv
  <1>3. ASSUME NEW r \in Reloaders,
               \/ \E s \in Schedules, row \in Row : Create(r, s, row) \/ Check(r, s, row)
               \/ \E s \in Schedules : Delete(r, s)
               \/ Save(r)
        PROVE  ScheduleInv'
    <2>1. /\ UNCHANGED <<backupTypes, entries, read, todo>>
          /\ pc[r] \in {"idle", "saving"}
          /\ \A q \in Reloaders \ {r} : pc'[q] = pc[q]
      BY <1>3, EditSteps DEF scheduler
    <2> QED BY <1>1, <2>1 DEF Rebuilding, WillAdd
  <1>4. ASSUME NEW r \in Reloaders, Read(r) PROVE ScheduleInv'
    <2>1. CASE pc'[r] = "publish"
      BY <1>2, <2>1 DEF Rebuilding
    <2>2. CASE pc'[r] # "publish"
      <3>1. /\ UNCHANGED <<backupTypes, entries, read, todo>> /\ pc[r] = "read"
            /\ \A q \in Reloaders \ {r} : pc'[q] = pc[q]
        BY <1>4, <2>2 DEF Read, scheduler, TypeInv, TypeOK
      <3> QED BY <1>1, <3>1 DEF Rebuilding, WillAdd
    <2> QED BY <2>1, <2>2
  <1>5. ASSUME NEW r \in Reloaders,
               \/ Publish(r) \/ StartRemoval(r) \/ DeleteKey(r) \/ \E t \in Types : RemoveEntry(r, t)
        PROVE  ScheduleInv'
    <2>1. pc'[r] \in Rebuilding
      BY <1>5 DEF Publish, StartRemoval, DeleteKey, RemoveEntry, Rebuilding, TypeInv, TypeOK
    <2> QED BY <1>2, <2>1
  <1>6. ASSUME NEW r \in Reloaders, StartSetup(r) PROVE ScheduleInv'
    <2>1. /\ UNCHANGED backupTypes /\ pc'[r] = "adding"
          /\ todo'[r] = DOMAIN backupTypes /\ read'[r] = backupTypes
      BY <1>6 DEF StartSetup, TypeInv, TypeOK, Local
    <2> QED BY <2>1 DEF ScheduleInv, WillAdd, Accepted
  <1>7. ASSUME NEW r \in Reloaders, NEW t \in Types, AddEntry(r, t) PROVE ScheduleInv'
    <2>1. /\ UNCHANGED <<backupTypes, read>> /\ pc[r] = "adding" /\ pc'[r] \in {"adding", "storing"}
          /\ entries \subseteq entries' /\ todo'[r] = todo[r] \ {t}
          /\ \A q \in Reloaders \ {r} : pc'[q] = pc[q] /\ todo'[q] = todo[q]
      BY <1>7 DEF AddEntry, TypeInv, TypeOK, Local
    <2>2. ASSUME NEW u \in Accepted(backupTypes), WillAdd(r, u)
          PROVE  WillAdd(r, u)' \/ Fires(u)'
      <3>1. CASE u # t
        BY <2>1, <2>2, <3>1 DEF WillAdd
      <3>2. CASE u = t
        <4>1. read[r][t] \in ValidExprs /\ read[r][t] = backupTypes[t]
          BY <2>2, <3>2 DEF WillAdd, Accepted
        <4>2. [id |-> nextID, type |-> t, expr |-> read[r][t]] \in entries'
          BY <1>7, <4>1 DEF AddEntry
        <4> QED BY <2>1, <3>2, <4>1, <4>2 DEF Fires
      <3> QED BY <3>1, <3>2
    <2> QED BY <1>1, <2>1, <2>2 DEF Rebuilding
  <1>8. ASSUME NEW r \in Reloaders, StoreID(r) PROVE ScheduleInv'
    <2>1. /\ UNCHANGED <<backupTypes, entries, read, todo>> /\ pc[r] = "storing" /\ pc'[r] = "adding"
          /\ \A q \in Reloaders \ {r} : pc'[q] = pc[q]
      BY <1>8 DEF StoreID, TypeInv, TypeOK
    <2> QED BY <1>1, <2>1 DEF Rebuilding, WillAdd
  <1>9. ASSUME NEW r \in Reloaders, AddRetention(r) PROVE ScheduleInv'
    <2>1. /\ UNCHANGED <<backupTypes, entries, todo>> /\ pc[r] = "adding" /\ todo[r] = {}
          /\ \A q \in Reloaders \ {r} : pc'[q] = pc[q] /\ read'[q] = read[q]
      BY <1>9 DEF AddRetention, TypeInv, TypeOK, Local
    <2> QED BY <1>1, <2>1 DEF Rebuilding, WillAdd
  <1>10. CASE Restart
    <2>1. \A t \in Accepted(backupTypes') :
             \E e \in entries' : e.type = t /\ e.expr = backupTypes'[t]
      BY <1>10, FreshEntries DEF Restart, TypeInv, TypeOK
    <2> QED BY <2>1 DEF ScheduleInv, Fires
  <1>11. CASE UNCHANGED vars
    BY <1>11 DEF vars, ScheduleInv, Fires, WillAdd
  <1> QED BY <1>3, <1>4, <1>5, <1>6, <1>7, <1>8, <1>9, <1>10, <1>11 DEF Next, Reload

(* However reloads interleave, once all are over every type whose           *)
(* expression parses has an entry that fires at it: none is lost.           *)
THEOREM NoScheduleIsLost == Spec => []NoScheduleLost
<1>1. ScheduleInv => NoScheduleLost
  BY DEF ScheduleInv, NoScheduleLost, Quiet, Rebuilding, WillAdd, Fires
<1> QED BY <1>1, ScheduleStart, ScheduleStep, TypeInvariant, PTL DEF Spec

-------------------------------------------------------------------------------
(* Every step keeps a deleted schedule away, or with an update that had     *)
(* found it.                                                                *)
LEMMA DeletedStep == TypeInv /\ DeletedInv /\ [Next]_vars => DeletedInv'
  <1> SUFFICES ASSUME TypeInv, DeletedInv, [Next]_vars,
                      NEW s \in deleted', s \notin raced'
               PROVE  rows'[s] = NoRow /\ Saving(s)' = {}
    BY DEF DeletedInv
  <1> USE DEF At, Goto
  <1>0. s \in deleted => \/ s \in raced
                         \/ /\ rows[s] = NoRow
                            /\ \A q \in Reloaders : ~(pc[q] = "saving" /\ request[q].id = s)
    BY DEF DeletedInv, Saving
  <1>1. s \in Schedules
    BY TypeStep DEF TypeInv, TypeOK
  <1>2. ASSUME NEW r \in Reloaders, NEW u \in Schedules, NEW row \in Row, Create(r, u, row)
        PROVE  rows'[s] = NoRow /\ Saving(s)' = {}
    <2>1. /\ UNCHANGED <<deleted, raced, request>> /\ u # s /\ rows'[s] = rows[s]
          /\ \A q \in Reloaders : pc'[q] = "saving" => pc[q] = "saving"
      BY <1>2 DEF Create, Commit, TypeInv, TypeOK, Rows
    <2> QED BY <1>0, <2>1 DEF Saving
  <1>3. ASSUME NEW r \in Reloaders, NEW u \in Schedules, NEW row \in Row, Check(r, u, row)
        PROVE  rows'[s] = NoRow /\ Saving(s)' = {}
    <2>1. /\ UNCHANGED <<deleted, raced, rows>> /\ rows[u] # NoRow
          /\ request'[r].id = u
          /\ \A q \in Reloaders \ {r} : pc'[q] = pc[q] /\ request'[q] = request[q]
      BY <1>3 DEF Check, TypeInv, TypeOK, Local
    <2>2. u # s /\ rows[s] = NoRow
      BY <1>0, <2>1
    <2> QED BY <1>0, <2>1, <2>2 DEF Saving
  <1>4. ASSUME NEW r \in Reloaders, NEW u \in Schedules, Delete(r, u)
        PROVE  rows'[s] = NoRow /\ Saving(s)' = {}
    <2>1. /\ deleted' = deleted \cup {u} /\ raced \subseteq raced' /\ request' = request
          /\ \A q \in Reloaders : pc'[q] = "saving" => pc[q] = "saving"
          /\ rows' = [rows EXCEPT ![u] = NoRow]
      BY <1>4 DEF Delete, Commit, TypeInv, TypeOK
    <2>2. CASE s = u
      <3>1. rows'[s] = NoRow
        BY <1>1, <2>1, <2>2 DEF TypeInv, TypeOK, Rows
      <3>2. Saving(s) = {}
        BY <1>4, <2>2 DEF Delete
      <3> QED BY <2>1, <3>1, <3>2 DEF Saving
    <2>3. CASE s # u
      <3>1. s \in deleted /\ s \notin raced /\ rows'[s] = rows[s]
        BY <1>1, <2>1, <2>3 DEF TypeInv, TypeOK, Rows
      <3> QED BY <1>0, <2>1, <3>1 DEF Saving
    <2> QED BY <2>2, <2>3
  <1>5. ASSUME NEW r \in Reloaders, Save(r) PROVE rows'[s] = NoRow /\ Saving(s)' = {}
    <2>1. /\ UNCHANGED <<deleted, raced>> /\ pc[r] = "saving"
          /\ \A q \in Reloaders : pc'[q] = "saving" => q # r /\ pc[q] = "saving"
          /\ \A q \in Reloaders \ {r} : request'[q] = request[q]
      BY <1>5 DEF Save, Commit, TypeInv, TypeOK, Local
    <2>2. request[r].id # s
      BY <1>0, <2>1
    <2>3. rows'[s] = rows[s]
      BY <1>1, <1>5, <2>2 DEF Save, Commit, TypeInv, TypeOK, Rows
    <2> QED BY <1>0, <2>1, <2>3 DEF Saving
  <1>6. ASSUME NEW r \in Reloaders,
               \/ Read(r) \/ Publish(r) \/ StartRemoval(r) \/ DeleteKey(r) \/ StartSetup(r)
               \/ StoreID(r) \/ AddRetention(r)
               \/ \E t \in Types : RemoveEntry(r, t) \/ AddEntry(r, t)
        PROVE  rows'[s] = NoRow /\ Saving(s)' = {}
    <2>1. /\ UNCHANGED <<deleted, raced, request, rows>>
          /\ \E to \in {"publish", "idle", "reload", "removing", "deleting", "adding", "storing"} :
                pc' = [pc EXCEPT ![r] = to] \/ UNCHANGED pc
      BY <1>6 DEF Read, Publish, StartRemoval, DeleteKey, StartSetup, StoreID, AddRetention,
                  RemoveEntry, AddEntry, ghosts
    <2>2. \A q \in Reloaders : pc'[q] = "saving" => pc[q] = "saving"
      BY <2>1 DEF TypeInv, TypeOK
    <2> QED BY <1>0, <2>1, <2>2 DEF Saving
  <1>7. CASE Restart
    <2>1. UNCHANGED <<deleted, raced, rows>> /\ \A q \in Reloaders : pc'[q] = "idle"
      BY <1>7 DEF Restart
    <2> QED BY <1>0, <2>1 DEF Saving
  <1>8. CASE UNCHANGED vars
    BY <1>0, <1>8 DEF vars, Saving
  <1> QED BY <1>2, <1>3, <1>4, <1>5, <1>6, <1>7, <1>8 DEF Next, Reload

(* A deleted schedule is back only if an update that had found it before it *)
(* was deleted saved it afterwards.                                         *)
THEOREM DeletionsLast == Spec => []DeletedStaysDeleted
<1>1. Init => DeletedInv
  BY DEF Init, DeletedInv
<1>2. DeletedInv => DeletedStaysDeleted
  BY DEF DeletedInv, DeletedStaysDeleted
<1> QED BY <1>1, <1>2, DeletedStep, TypeInvariant, PTL DEF Spec

-------------------------------------------------------------------------------
(* A step of the only goroutine at work, of any kind that is not an edit.   *)
LEMMA SoloReload ==
    ASSUME TypeInv, NumbersInv, SoloInv, ~overlapped, NEW r \in Reloaders,
           \/ Read(r) \/ Publish(r) \/ StartRemoval(r) \/ DeleteKey(r) \/ StartSetup(r)
           \/ StoreID(r) \/ AddRetention(r)
           \/ \E t \in Types : RemoveEntry(r, t) \/ AddEntry(r, t)
    PROVE  SoloInv'
  <1> USE DEF At, Goto
  <1>1. /\ \A q \in Reloaders \ {r} : pc[q] \in {"idle", "saving"}
        /\ \A e \in entries : \/ e.type \in DOMAIN jobIDs /\ jobIDs[e.type] = e.id
                              \/ pc[r] = "storing" /\ job[r].type = e.type /\ job[r].id = e.id
        /\ Untouched => DOMAIN jobIDs = Accepted(backupTypes) /\ Current
        /\ Progress(r)
    <2>1. AtWork(r)
      BY DEF Read, Publish, StartRemoval, DeleteKey, StartSetup, StoreID, AddRetention,
             RemoveEntry, AddEntry, AtWork
    <2>2. \A q \in Reloaders \ {r} : pc[q] \in {"idle", "saving"}
      BY <2>1 DEF SoloInv, AtWork
    <2> QED BY <2>2 DEF SoloInv, Matched
  <1>2. \A q \in Reloaders \ {r} : pc'[q] \in {"idle", "saving"}
    BY <1>1 DEF Read, Publish, StartRemoval, DeleteKey, StartSetup, StoreID, AddRetention,
                RemoveEntry, AddEntry, TypeInv, TypeOK
  <1> DEFINE Goal ==
         /\ \A e \in entries' : \/ e.type \in DOMAIN jobIDs' /\ jobIDs'[e.type] = e.id
                                \/ pc'[r] = "storing" /\ job'[r].type = e.type /\ job'[r].id = e.id
         /\ Untouched' => DOMAIN jobIDs' = Accepted(backupTypes') /\ Current'
         /\ Progress(r)'
  <1>3. ASSUME Read(r) PROVE Goal
    <2>1. /\ UNCHANGED <<backupTypes, entries, jobIDs>>
          /\ pc[r] = "read" /\ pc'[r] \in {"publish", "idle"}
      BY <1>3 DEF Read, scheduler, TypeInv, TypeOK
    <2>2. Untouched /\ (Current => Current')
      BY <1>1, <2>1 DEF Untouched, Current
    <2> QED BY <1>1, <2>1, <2>2 DEF Progress
  <1>4. ASSUME Publish(r) PROVE Goal
    <2>1. UNCHANGED <<entries, jobIDs>> /\ pc[r] = "publish" /\ pc'[r] = "reload"
      BY <1>4 DEF Publish, scheduler, TypeInv, TypeOK
    <2> QED BY <1>1, <2>1 DEF Progress, Untouched
  <1>5. ASSUME StartRemoval(r) PROVE Goal
    <2>1. /\ UNCHANGED <<entries, jobIDs>> /\ pc[r] = "reload" /\ pc'[r] = "removing"
          /\ todo'[r] = DOMAIN jobIDs
      BY <1>5 DEF StartRemoval, scheduler, TypeInv, TypeOK, Local
    <2> QED BY <1>1, <2>1 DEF Progress, Untouched
  <1>6. ASSUME NEW t \in Types, RemoveEntry(r, t) PROVE Goal
    <2>1. /\ UNCHANGED <<jobIDs, todo>> /\ pc[r] = "removing" /\ pc'[r] = "deleting"
          /\ t \in DOMAIN jobIDs /\ job'[r].type = t /\ job'[r].id = jobIDs[t]
          /\ entries' = {e \in entries : e.id # jobIDs[t]}
      BY <1>6 DEF RemoveEntry, TypeInv, TypeOK, Local
    <2> QED BY <1>1, <2>1 DEF Progress, Untouched
  <1>7. ASSUME DeleteKey(r) PROVE Goal
    <2>1. /\ UNCHANGED entries /\ pc[r] = "deleting" /\ pc'[r] = "removing"
          /\ todo'[r] = todo[r] \ {job[r].type}
          /\ DOMAIN jobIDs' = DOMAIN jobIDs \ {job[r].type}
          /\ \A t \in DOMAIN jobIDs' : jobIDs'[t] = jobIDs[t]
      BY <1>7 DEF DeleteKey, TypeInv, TypeOK, Local
    <2>2. \A e \in entries : e.type # job[r].type
      BY <1>1, <2>1 DEF Progress
    <2> QED BY <1>1, <2>1, <2>2 DEF Progress, Untouched
  <1>8. ASSUME StartSetup(r) PROVE Goal
    <2>1. /\ UNCHANGED <<backupTypes, entries, jobIDs>> /\ pc[r] = "removing" /\ pc'[r] = "adding"
          /\ read'[r] = backupTypes /\ todo'[r] = DOMAIN backupTypes
          /\ todo[r] \cap DOMAIN jobIDs = {}
      BY <1>8 DEF StartSetup, scheduler, TypeInv, TypeOK, Local
    <2>2. DOMAIN jobIDs = {} /\ entries = {}
      BY <1>1, <2>1 DEF Progress
    <2>3. Current' /\ Accepted(backupTypes) \ DOMAIN backupTypes = {}
      BY <2>1, <2>2 DEF Current, Accepted
    <2> QED BY <2>1, <2>2, <2>3 DEF Progress, Untouched
  <1>9. ASSUME NEW t \in Types, AddEntry(r, t) PROVE Goal
    <2>1. /\ UNCHANGED <<backupTypes, jobIDs, read>> /\ pc[r] = "adding"
          /\ t \in todo[r] /\ todo'[r] = todo[r] \ {t}
          /\ read[r] = backupTypes /\ todo[r] \subseteq DOMAIN backupTypes /\ Current
          /\ DOMAIN jobIDs = Accepted(backupTypes) \ todo[r]
      BY <1>1, <1>9 DEF AddEntry, Progress, TypeInv, Local
    <2>2. CASE read[r][t] \notin ValidExprs /\ UNCHANGED <<entries, nextID, job, pc>>
      <3>1. t \notin Accepted(backupTypes) /\ Current'
        BY <2>1, <2>2 DEF Accepted, Current
      <3> QED BY <1>1, <2>1, <2>2, <3>1 DEF Progress, Untouched
    <2>3. CASE /\ read[r][t] \in ValidExprs
               /\ entries' = entries \cup {[id |-> nextID, type |-> t, expr |-> read[r][t]]}
               /\ job' = [job EXCEPT ![r] = [type |-> t, id |-> nextID]]
               /\ pc' = [pc EXCEPT ![r] = "storing"]
      <3> DEFINE new == [id |-> nextID, type |-> t, expr |-> read[r][t]]
      <3>1. /\ pc'[r] = "storing" /\ job'[r].type = t /\ job'[r].id = nextID
            /\ t \in Accepted(backupTypes) \ todo'[r]
        BY <2>1, <2>3 DEF Accepted, TypeInv, TypeOK, Local
      <3>2. /\ entries' = entries \cup {new}
            /\ new.id = nextID /\ new.type = t /\ new.expr = backupTypes[t]
        BY <2>1, <2>3
      <3> HIDE DEF new
      <3>3. Current'
        BY <2>1, <3>2 DEF Current
      <3>4. DOMAIN jobIDs' = Accepted(backupTypes') \ (todo'[r] \cup {t})
        BY <2>1
      <3>5. /\ ~Untouched' /\ read'[r] = backupTypes' /\ todo'[r] \subseteq DOMAIN backupTypes'
            /\ \A e \in entries' : \/ e.type \in DOMAIN jobIDs' /\ jobIDs'[e.type] = e.id
                                   \/ job'[r].type = e.type /\ job'[r].id = e.id
        BY <1>1, <2>1, <3>1, <3>2 DEF Untouched
      <3>6. Progress(r)'
        BY <2>1, <3>1, <3>3, <3>4, <3>5 DEF Progress
      <3> QED BY <3>1, <3>5, <3>6
    <2> QED BY <1>9, <2>2, <2>3 DEF AddEntry
  <1>10. ASSUME StoreID(r) PROVE Goal
    <2>1. /\ UNCHANGED <<backupTypes, entries, read, todo>>
          /\ pc[r] = "storing" /\ pc'[r] = "adding"
          /\ DOMAIN jobIDs' = DOMAIN jobIDs \cup {job[r].type}
          /\ \A t \in DOMAIN jobIDs' : jobIDs'[t] = IF t = job[r].type THEN job[r].id ELSE jobIDs[t]
      BY <1>10 DEF StoreID, TypeInv, TypeOK
    <2>2. job[r].type \notin DOMAIN jobIDs /\ DOMAIN jobIDs' = Accepted(backupTypes) \ todo[r]
      BY <1>1, <2>1 DEF Progress
    <2>3. Current'
      BY <1>1, <2>1 DEF Progress, Current
    <2> QED BY <1>1, <2>1, <2>2, <2>3 DEF Progress, Untouched
  <1>11. ASSUME AddRetention(r) PROVE Goal
    <2>1. /\ UNCHANGED <<backupTypes, entries, jobIDs>> /\ pc[r] = "adding" /\ pc'[r] = "idle"
          /\ todo[r] = {}
      BY <1>11 DEF AddRetention, TypeInv, TypeOK
    <2>2. DOMAIN jobIDs' = Accepted(backupTypes') /\ Current'
      BY <1>1, <2>1 DEF Progress, Current
    <2> QED BY <1>1, <2>1, <2>2 DEF Progress
  <1>12. ASSUME Goal PROVE SoloInv'
    <2>1. \A q \in Reloaders : AtWork(q)' => q = r
      BY <1>2 DEF AtWork
    <2>2. \A e \in entries' : Matched(e)'
      BY <1>12 DEF Matched
    <2>3. \A q \in Reloaders \ {r} : Progress(q)'
      BY <1>2 DEF Progress
    <2> QED BY <1>12, <2>1, <2>2, <2>3 DEF SoloInv
  <1> HIDE DEF Goal
  <1> QED BY <1>3, <1>4, <1>5, <1>6, <1>7, <1>8, <1>9, <1>10, <1>11, <1>12

(* A fresh process has the entries and the ids of its configuration.        *)
LEMMA SoloStart == Init => SoloInv
  <1> SUFFICES ASSUME Init PROVE SoloInv
    OBVIOUS
  <1>1. /\ DOMAIN jobIDs = Accepted(backupTypes)
        /\ \A e \in entries : /\ e.type \in Accepted(backupTypes) /\ e.id = jobIDs[e.type]
                              /\ e.expr = backupTypes[e.type]
    BY ScheduleAssumption, FreshEntries DEF Init
  <1> QED BY <1>1 DEF Init, SoloInv, AtWork, Matched, Progress, Current, Accepted

(* Reloads that do not overlap keep jobIDs, the entries and the             *)
(* configuration together.                                                  *)
LEMMA SoloStep == TypeInv /\ NumbersInv /\ SoloInv /\ [Next]_vars => SoloInv'
  <1> SUFFICES ASSUME TypeInv, NumbersInv, SoloInv, [Next]_vars, ~overlapped' PROVE SoloInv'
    BY DEF SoloInv
  <1>1. ASSUME NEW r \in Reloaders,
               \/ \E s \in Schedules, row \in Row : Create(r, s, row) \/ Check(r, s, row)
               \/ \E s \in Schedules : Delete(r, s)
               \/ Save(r)
        PROVE  SoloInv'
    <2>1. /\ UNCHANGED <<backupTypes, entries, jobIDs, read, todo, job>> /\ ~overlapped
          /\ pc[r] \in {"idle", "saving"} /\ pc'[r] \in {"saving", "read"}
          /\ \A q \in Reloaders \ {r} : pc'[q] = pc[q]
          /\ pc'[r] = "read" => \A q \in Reloaders : pc[q] \in {"idle", "saving"}
      BY <1>1, EditSteps DEF scheduler
    <2>2. \A q, p \in Reloaders : AtWork(q)' /\ AtWork(p)' => q = p
      BY <2>1 DEF SoloInv, AtWork
    <2>3. \A e \in entries' : Matched(e)'
      BY <2>1 DEF SoloInv, Matched, At
    <2>4. Untouched' => Untouched /\ (Current => Current')
      BY <2>1 DEF Untouched, Current
    <2>5. ASSUME NEW q \in Reloaders PROVE Progress(q)'
      <3>1. CASE q = r
        BY <2>1, <3>1 DEF Progress
      <3>2. CASE q # r
        BY <2>1, <3>2 DEF SoloInv, Progress, Current
      <3> QED BY <3>1, <3>2
    <2> QED BY <2>1, <2>2, <2>3, <2>4, <2>5 DEF SoloInv
  <1>2. ASSUME NEW r \in Reloaders,
               \/ Read(r) \/ Publish(r) \/ StartRemoval(r) \/ DeleteKey(r) \/ StartSetup(r)
               \/ StoreID(r) \/ AddRetention(r)
               \/ \E t \in Types : RemoveEntry(r, t) \/ AddEntry(r, t)
        PROVE  SoloInv'
    <2>1. ~overlapped
      BY <1>2 DEF Read, Publish, StartRemoval, DeleteKey, StartSetup, StoreID, AddRetention,
                  RemoveEntry, AddEntry, ghosts
    <2> QED BY <1>2, <2>1, SoloReload
  <1>3. CASE Restart
    <2>1. /\ DOMAIN jobIDs' = Accepted(backupTypes')
          /\ \A e \in entries' : /\ e.type \in Accepted(backupTypes') /\ e.id = jobIDs'[e.type]
                                 /\ e.expr = backupTypes'[e.type]
      BY <1>3, FreshEntries DEF Restart, TypeInv, TypeOK
    <2>2. \A r \in Reloaders : pc'[r] = "idle"
      BY <1>3 DEF Restart
    <2> QED BY <2>1, <2>2 DEF SoloInv, AtWork, Matched, Progress, Current, Accepted
  <1>4. CASE UNCHANGED vars
    <2>1. UNCHANGED <<backupTypes, entries, jobIDs, pc, read, todo, job, overlapped>>
      BY <1>4 DEF vars
    <2>2. /\ Untouched' => Untouched /\ (Current => Current')
          /\ \A e \in entries : Matched(e) => Matched(e)'
      BY <2>1 DEF Untouched, Current, Matched, At
    <2>3. \A r \in Reloaders : Progress(r) => Progress(r)'
      BY <2>1 DEF Progress, Current
    <2> QED BY <2>1, <2>2, <2>3 DEF SoloInv, AtWork
  <1> QED BY <1>1, <1>2, <1>3, <1>4 DEF Next, Reload

(* Once reloads that did not overlap are over, the entries of the cron      *)
(* scheduler are one for each type whose expression parses, and no other,   *)
(* each at its expression and under its id in jobIDs.                       *)
THEOREM ReloadsRebuildTheEntries == Spec => []EntriesAreTheConfiguration
<1>1. SoloInv => EntriesAreTheConfiguration
  <2> SUFFICES ASSUME SoloInv, Quiet, ~overlapped
               PROVE  /\ \A e \in entries : /\ e.type \in Accepted(backupTypes)
                                            /\ jobIDs[e.type] = e.id
                                            /\ e.expr = backupTypes[e.type]
                      /\ DOMAIN jobIDs = Accepted(backupTypes)
    BY DEF EntriesAreTheConfiguration
  <2>1. Untouched /\ \A r \in Reloaders : ~At(r, "storing")
    BY DEF Quiet, Untouched, At
  <2> QED BY <2>1 DEF SoloInv, Matched, Current
<1> QED BY <1>1, SoloStart, SoloStep, NumbersStart, NumbersStep, TypeInvariant, PTL DEF Spec

-------------------------------------------------------------------------------
(* Only one goroutine being at work, what it read is what the rows are.     *)
LEMMA FollowStep == TypeInv /\ SoloInv /\ FollowInv /\ [Next]_vars => FollowInv'
  <1> SUFFICES ASSUME TypeInv, SoloInv, FollowInv, [Next]_vars, ~overlapped' PROVE FollowInv'
    BY DEF FollowInv
  <1> USE DEF At, Goto
  <1>1. ASSUME NEW r \in Reloaders,
               \/ \E s \in Schedules, row \in Row : Create(r, s, row) \/ Check(r, s, row)
               \/ \E s \in Schedules : Delete(r, s)
               \/ Save(r)
        PROVE  FollowInv'
    <2>1. /\ UNCHANGED <<backupTypes, read, unread>> /\ ~overlapped
          /\ pc[r] \in {"idle", "saving"} /\ pc'[r] \in {"saving", "read"}
          /\ \A q \in Reloaders \ {r} : pc'[q] = pc[q]
          /\ \/ pc'[r] = "saving" /\ UNCHANGED rows
             \/ pc'[r] = "read" /\ \A q \in Reloaders : pc[q] \in {"idle", "saving"}
      BY <1>1, EditSteps
    <2>2. CASE pc'[r] = "saving"
      <3>1. UNCHANGED rows /\ (Quiet' => Quiet)
        BY <2>1, <2>2 DEF Quiet
      <3> QED BY <2>1, <2>2, <3>1 DEF FollowInv
    <2>3. CASE pc'[r] = "read"
      BY <2>1, <2>3 DEF FollowInv, Quiet
    <2> QED BY <2>1, <2>2, <2>3
  <1>2. ASSUME NEW r \in Reloaders,
               \/ Read(r) \/ Publish(r) \/ StartRemoval(r) \/ DeleteKey(r) \/ StartSetup(r)
               \/ StoreID(r) \/ AddRetention(r)
               \/ \E t \in Types : RemoveEntry(r, t) \/ AddEntry(r, t)
        PROVE  FollowInv'
    <2>1. ~overlapped /\ AtWork(r) /\ UNCHANGED rows
      BY <1>2 DEF Read, Publish, StartRemoval, DeleteKey, StartSetup, StoreID, AddRetention,
                  RemoveEntry, AddEntry, ghosts, AtWork
    <2>2. \A q \in Reloaders \ {r} : pc[q] \in {"idle", "saving"}
      BY <2>1 DEF SoloInv, AtWork
    <2>3. \A q \in Reloaders \ {r} : pc'[q] \in {"idle", "saving"}
      BY <1>2, <2>2 DEF Read, Publish, StartRemoval, DeleteKey, StartSetup, StoreID, AddRetention,
                        RemoveEntry, AddEntry, TypeInv, TypeOK
    <2>4. /\ pc[r] = "publish" => read[r] = FromRows(rows)
          /\ pc[r] \in {"reload", "removing", "deleting", "adding", "storing"}
                => backupTypes = FromRows(rows)
      BY <2>1 DEF FollowInv
    <2>5. /\ pc'[r] = "publish" => read'[r] = FromRows(rows)
          /\ \/ pc'[r] = "publish"
             \/ pc'[r] = "idle" /\ unread'
             \/ backupTypes' = FromRows(rows)
      <3>1. CASE Read(r)
        BY <3>1 DEF Read, TypeInv, TypeOK, Local
      <3>2. CASE Publish(r)
        BY <2>4, <3>2 DEF Publish, TypeInv, TypeOK
      <3>3. CASE \/ StartRemoval(r) \/ DeleteKey(r) \/ StartSetup(r) \/ StoreID(r) \/ AddRetention(r)
                 \/ \E t \in Types : RemoveEntry(r, t) \/ AddEntry(r, t)
        <4>1. UNCHANGED backupTypes /\ pc[r] \in {"reload", "removing", "deleting", "adding", "storing"}
          BY <3>3 DEF StartRemoval, DeleteKey, StartSetup, StoreID, AddRetention, RemoveEntry, AddEntry
        <4>2. pc'[r] # "publish"
          BY <3>3 DEF StartRemoval, DeleteKey, StartSetup, StoreID, AddRetention, RemoveEntry,
                      AddEntry, TypeInv, TypeOK
        <4> QED BY <2>4, <4>1, <4>2
      <3> QED BY <1>2, <3>1, <3>2, <3>3
    <2> QED BY <2>1, <2>3, <2>5 DEF FollowInv, Quiet
  <1>3. CASE Restart
    <2>1. /\ UNCHANGED rows /\ backupTypes' = FromRows(rows)
          /\ \A r \in Reloaders : pc'[r] = "idle"
      BY <1>3 DEF Restart
    <2> QED BY <2>1 DEF FollowInv
  <1>4. CASE UNCHANGED vars
    BY <1>4 DEF vars, FollowInv, Quiet
  <1> QED BY <1>1, <1>2, <1>3, <1>4 DEF Next, Reload

(* Once reloads that did not overlap are over, the configuration is that of *)
(* the rows, if the last of them could read the rows.                       *)
THEOREM ReloadsFollowTheRows == Spec => []ConfigurationFollowsRows
<1>1. Init => FollowInv
  BY DEF Init, FollowInv, At
<1>2. FollowInv => ConfigurationFollowsRows
  BY DEF FollowInv, ConfigurationFollowsRows
<1> QED BY <1>1, <1>2, FollowStep, SoloStart, SoloStep, NumbersStart, NumbersStep,
           TypeInvariant, PTL DEF Spec
===============================================================================
