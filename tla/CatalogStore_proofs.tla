-------------------------- MODULE CatalogStore_proofs --------------------------
(***************************************************************************)
(* Proofs about CatalogStore, for any number of targets, any sizes, any    *)
(* metadata.json and any faults: what its tables hold, that its            *)
(* transactions implement Catalog, and what a migration leaves behind.     *)
(***************************************************************************)
EXTENDS CatalogStore, BackupRecords_proofs

(* The tables, as their columns and keys have it.                           *)
Row == [target : Targets, status : Statuses, s3 : Statuses, size : Nat, doneAt : Nat]
Child == Ids \X Organisations

IsDb(d) ==
    /\ d = [rows |-> d.rows, paths |-> d.paths, keys |-> d.keys, stats |-> d.stats]
    /\ d.rows = [id \in DOMAIN d.rows |-> d.rows[id]] /\ DOMAIN d.rows \subseteq Ids
    /\ \A id \in DOMAIN d.rows : d.rows[id] \in Row
    /\ d.paths \subseteq Child /\ d.keys \subseteq Child

(* No child without its row (FOREIGN KEY).                                  *)
Rooted(d) == \A c \in d.paths \cup d.keys : c[1] \in DOMAIN d.rows

(* The operations a transaction is for.                                     *)
Outcomes == {"success", "error"}
StatusOps == [kind : {"status"}, id : Ids, status : Outcomes, size : Sizes \cup {0},
              at : Nat, children : SUBSET Organisations]
UploadOps == [kind : {"upload"}, id : Ids, status : Outcomes, children : SUBSET Organisations]
PurgeOps  == [kind : {"purge"}, at : Nat]
ImportOps == [kind : {"import"}, todo : SUBSET Numbers]

(* The children of one parent.                                              *)
Under(id, os) == {<<id, o>> : o \in os}

(* What the statements of an edit make of the tables, one after the other.  *)
Cleared(d, op) ==
    IF op.kind = "status" THEN [d EXCEPT !.paths = WithoutChildren(@, {op.id})]
    ELSE [d EXCEPT !.keys = WithoutChildren(@, {op.id})]
Filled(d, op) ==
    LET new == Under(op.id, op.children)
    IN  IF op.kind = "status" THEN [d EXCEPT !.paths = @ \cup new]
        ELSE [d EXCEPT !.keys = @ \cup new]
Recounted(d) == [d EXCEPT !.stats = Totals(d.rows)]

-------------------------------------------------------------------------------
(* Tables that have the shape of tables have the types of TypeOK.           *)
LEMMA TablesAreTyped == \A d : IsDb(d) => IsTables(d)
  <1> SUFFICES ASSUME NEW d, IsDb(d) PROVE IsTables(d)
    OBVIOUS
  <1>1. ASSUME NEW id \in DOMAIN d.rows PROVE id \in Ids /\ Converted(d, id) \in Record
    <2>1. id \in Ids /\ d.rows[id] \in Row
      BY DEF IsDb
    <2>2. Children(d.paths, id) \in SUBSET Organisations
      BY DEF Children
    <2> QED BY <2>1, <2>2 DEF Converted, Record, Row
  <1> QED BY <1>1 DEF IsTables, IsDb, Child

(* The statements of an edit, on tables: their rows, their children.        *)
LEMMA UpdatedTables ==
    ASSUME NEW d, IsDb(d), NEW op \in StatusOps \cup UploadOps
    PROVE  LET new == Updated(d, op)
           IN  /\ IsDb(new)
               /\ DOMAIN new.rows = DOMAIN d.rows
               /\ new.paths = d.paths /\ new.keys = d.keys /\ new.stats = d.stats
               /\ \A id \in DOMAIN d.rows :
                     new.rows[id] = IF id = op.id THEN Edited(d.rows[id], op) ELSE d.rows[id]
  <1> DEFINE new == Updated(d, op)
  <1>1. /\ new = [rows |-> new.rows, paths |-> d.paths, keys |-> d.keys, stats |-> d.stats]
        /\ new.rows = [id \in DOMAIN d.rows |->
                          IF id = op.id THEN Edited(d.rows[id], op) ELSE d.rows[id]]
    BY DEF Updated, IsDb
  <1>2. ASSUME NEW row \in Row PROVE Edited(row, op) \in Row
    <2>1. CASE op \in StatusOps
      <3>1. op.kind = "status" /\ op.status \in Statuses /\ op.size \in Sizes \cup {0} /\ op.at \in Nat
        BY <2>1 DEF StatusOps, Outcomes, Statuses
      <3>2. Sizes \cup {0} \subseteq Nat
        BY CatalogAssumption
      <3> QED BY <3>1, <3>2 DEF Edited, Row
    <2>2. CASE op \in UploadOps
      <3>1. op.kind = "upload" /\ op.status \in Statuses
        BY <2>2 DEF UploadOps, Outcomes, Statuses
      <3> QED BY <3>1 DEF Edited, Row
    <2> QED BY <2>1, <2>2
  <1> HIDE DEF new
  <1>3. \A id \in DOMAIN d.rows :
           new.rows[id] = IF id = op.id THEN Edited(d.rows[id], op) ELSE d.rows[id]
    BY <1>1
  <1>4. IsDb(new)
    BY <1>1, <1>2, <1>3 DEF IsDb
  <1> QED BY <1>1, <1>3, <1>4 DEF new

(* What clearing the children of a record leaves of the tables.             *)
LEMMA ClearedTables ==
    ASSUME NEW d, IsDb(d), NEW op \in StatusOps \cup UploadOps
    PROVE  LET new == Cleared(d, op)
           IN  /\ IsDb(new) /\ new.rows = d.rows /\ new.stats = d.stats
               /\ new.paths = IF op.kind = "status" THEN WithoutChildren(d.paths, {op.id}) ELSE d.paths
               /\ new.keys = IF op.kind = "status" THEN d.keys ELSE WithoutChildren(d.keys, {op.id})
  BY DEF Cleared, IsDb, WithoutChildren

(* What inserting the children of a record leaves of the tables.            *)
LEMMA FilledTables ==
    ASSUME NEW d, IsDb(d), NEW op \in StatusOps \cup UploadOps
    PROVE  LET new == Filled(d, op)
               added == Under(op.id, op.children)
           IN  /\ IsDb(new) /\ new.rows = d.rows /\ new.stats = d.stats
               /\ new.paths = IF op.kind = "status" THEN d.paths \cup added ELSE d.paths
               /\ new.keys = IF op.kind = "status" THEN d.keys ELSE d.keys \cup added
  <1>1. op.id \in Ids /\ op.children \in SUBSET Organisations
    BY DEF StatusOps, UploadOps
  <1>2. Under(op.id, op.children) \subseteq Child
    BY <1>1 DEF Child, Under
  <1> QED BY <1>2 DEF Filled, IsDb

(* What updateStats leaves of the tables: all of them, and new totals.      *)
LEMMA RecountedTables ==
    ASSUME NEW d, IsDb(d)
    PROVE  LET new == Recounted(d)
           IN  /\ IsDb(new) /\ new.rows = d.rows /\ new.paths = d.paths /\ new.keys = d.keys
               /\ new.stats = Totals(d.rows)
  BY DEF Recounted, IsDb

(* Tables of which three columns are replaced.                              *)
LEMMA Columns ==
    \A d, rows, paths, keys :
        d = [rows |-> d.rows, paths |-> d.paths, keys |-> d.keys, stats |-> d.stats] =>
            [d EXCEPT !.rows = rows, !.paths = paths, !.keys = keys]
                = [rows |-> rows, paths |-> paths, keys |-> keys, stats |-> d.stats]
  <1> SUFFICES ASSUME NEW d, NEW rows, NEW paths, NEW keys,
                      DOMAIN d = {"rows", "paths", "keys", "stats"}
               PROVE  [d EXCEPT !.rows = rows, !.paths = paths, !.keys = keys]
                          = [rows |-> rows, paths |-> paths, keys |-> keys, stats |-> d.stats]
    OBVIOUS
  <1> DEFINE one == [d EXCEPT !.rows = rows, !.paths = paths, !.keys = keys]
             two == [rows |-> rows, paths |-> paths, keys |-> keys, stats |-> d.stats]
  <1>1. one = [x \in DOMAIN d |-> one[x]] /\ two = [x \in DOMAIN d |-> two[x]]
    OBVIOUS
  <1>2. one.rows = rows /\ one.paths = paths /\ one.keys = keys /\ one.stats = d.stats
    OBVIOUS
  <1>3. two.rows = rows /\ two.paths = paths /\ two.keys = keys /\ two.stats = d.stats
    OBVIOUS
  <1> HIDE DEF one, two
  <1>4. \A x \in DOMAIN d : one[x] = two[x]
    BY <1>2, <1>3
  <1>5. one = two
    BY <1>1, <1>4
  <1> QED BY <1>5 DEF one, two

(* The rows that a purge removes, and their children with them.             *)
LEMMA RemovedTables ==
    ASSUME NEW d, IsDb(d), NEW ids
    PROVE  LET new == Removed(d, ids)
           IN  /\ IsDb(new) /\ new.stats = d.stats
               /\ DOMAIN new.rows = DOMAIN d.rows \ ids
               /\ \A id \in DOMAIN d.rows \ ids : new.rows[id] = d.rows[id]
               /\ new.paths = WithoutChildren(d.paths, ids)
               /\ new.keys = WithoutChildren(d.keys, ids)
  <1> DEFINE new == Removed(d, ids)
  <1> DEFINE rows == [id \in DOMAIN d.rows \ ids |-> d.rows[id]]
  <1>1. /\ new = [rows |-> new.rows, paths |-> new.paths, keys |-> new.keys, stats |-> d.stats]
        /\ new.rows = rows
        /\ new.paths = WithoutChildren(d.paths, ids) /\ new.keys = WithoutChildren(d.keys, ids)
    <2>1. new = [d EXCEPT !.rows = rows, !.paths = WithoutChildren(@, ids),
                          !.keys = WithoutChildren(@, ids)]
      BY DEF Removed
    <2> HIDE DEF new, rows
    <2> QED BY <2>1, Columns DEF IsDb
  <1> HIDE DEF new
  <1>2. IsDb(new)
    BY <1>1 DEF IsDb, WithoutChildren
  <1> QED BY <1>1, <1>2 DEF new

(* A record that joins the tables, with its children.                       *)
LEMMA InsertedTables ==
    ASSUME NEW d, IsDb(d), NEW r \in Record
    PROVE  LET new == Inserted(d, r)
           IN  /\ IsDb(new) /\ new.stats = d.stats
               /\ DOMAIN new.rows = DOMAIN d.rows \cup {r.id}
               /\ \A id \in DOMAIN d.rows : id # r.id => new.rows[id] = d.rows[id]
               /\ new.rows[r.id] = RowOf(r)
               /\ new.paths = d.paths \cup Under(r.id, r.paths)
               /\ new.keys = d.keys \cup Under(r.id, KeysFor(r.s3))
  <1> DEFINE new == Inserted(d, r)
  <1> DEFINE rows == [id \in DOMAIN d.rows \cup {r.id} |->
                         IF id = r.id THEN RowOf(r) ELSE d.rows[id]]
             paths == d.paths \cup Under(r.id, r.paths)
             keys == d.keys \cup Under(r.id, KeysFor(r.s3))
  <1>1. /\ new = [rows |-> new.rows, paths |-> new.paths, keys |-> new.keys, stats |-> d.stats]
        /\ new.rows = rows /\ new.paths = paths /\ new.keys = keys
    <2>1. new = [d EXCEPT !.rows = rows, !.paths = paths, !.keys = keys]
      BY DEF Inserted, Under
    <2> HIDE DEF new, rows, paths, keys
    <2> QED BY <2>1, Columns DEF IsDb
  <1>2. r.id \in Ids /\ r.paths \subseteq Organisations /\ KeysFor(r.s3) \subseteq Organisations
    BY DEF Record, KeysFor
  <1>3. RowOf(r) \in Row
    BY DEF RowOf, Row, Record
  <1>4. Under(r.id, r.paths) \subseteq Child /\ Under(r.id, KeysFor(r.s3)) \subseteq Child
    BY <1>2 DEF Child, Under
  <1> HIDE DEF new
  <1>5. \A id \in DOMAIN new.rows : new.rows[id] = IF id = r.id THEN RowOf(r) ELSE d.rows[id]
    BY <1>1
  <1>6. IsDb(new)
    BY <1>1, <1>2, <1>3, <1>4, <1>5 DEF IsDb
  <1> QED BY <1>1, <1>5, <1>6 DEF new

-------------------------------------------------------------------------------
(* What a transaction is for says which statements it is at; only a process *)
(* that is up, or imports, has one.                                         *)
TxShape == tx.stage # "none" =>
    /\ tx = [op |-> tx.op, stage |-> tx.stage, work |-> tx.work] /\ IsDb(tx.work)
    /\ \/ /\ phase = "up" /\ tx.op \in StatusOps \cup UploadOps
          /\ tx.stage \in {"update", "clear", "insert", "stats", "commit"}
       \/ /\ phase = "up" /\ tx.op \in PurgeOps
          /\ tx.stage \in {"count", "delete", "stats", "commit"}
       \/ /\ phase = "importing" /\ tx.op \in ImportOps /\ tx.op.todo \subseteq DOMAIN file.log
          /\ tx.stage \in {"import", "stats", "commit"}

TypeInv ==
    /\ phase \in {"down", "opening", "importing", "up"} /\ attempts \in 0..MaxAttempts
    /\ handles \subseteq Ids /\ clock \in Nat /\ file \in LegacyFiles
    /\ IsDb(db) /\ TxShape

(* Rows alone change when a backup is marked deleted.                       *)
Marked(d, id) ==
    [d EXCEPT !.rows = [i \in DOMAIN @ |-> IF i = id THEN Deleted(@[i]) ELSE @[i]]]

(* What marking a record deleted leaves of the tables: even the totals.     *)
LEMMA MarkedTables ==
    ASSUME NEW d, IsDb(d), NEW id
    PROVE  LET new == Marked(d, id)
           IN  /\ IsDb(new) /\ DOMAIN new.rows = DOMAIN d.rows
               /\ new.paths = d.paths /\ new.keys = d.keys /\ new.stats = d.stats
               /\ \A i \in DOMAIN d.rows :
                     new.rows[i] = IF i = id THEN Deleted(d.rows[i]) ELSE d.rows[i]
  <1> DEFINE new == Marked(d, id)
  <1>1. /\ new = [rows |-> new.rows, paths |-> d.paths, keys |-> d.keys, stats |-> d.stats]
        /\ new.rows = [i \in DOMAIN d.rows |-> IF i = id THEN Deleted(d.rows[i]) ELSE d.rows[i]]
    BY DEF Marked, IsDb
  <1>2. \A row \in Row : Deleted(row) \in Row
    BY DEF Row, Deleted, Statuses
  <1> HIDE DEF new
  <1>3. \A i \in DOMAIN d.rows : new.rows[i] = IF i = id THEN Deleted(d.rows[i]) ELSE d.rows[i]
    BY <1>1
  <1>4. IsDb(new)
    BY <1>1, <1>2, <1>3 DEF IsDb
  <1> QED BY <1>1, <1>3, <1>4 DEF new

(* The empty tables are tables.                                             *)
LEMMA EmptyTables == IsDb(NoTables)
  BY DEF IsDb, NoTables, EmptyLog

(* What a caller passes is of the kinds above.                              *)
LEMMA CallsAreTyped ==
    /\ \A id \in Ids, status \in Outcomes, size \in Sizes \cup {0}, at \in Nat :
          [kind |-> "status", id |-> id, status |-> status, size |-> size, at |-> at,
           children |-> LocalPaths(status)] \in StatusOps
    /\ \A id \in Ids, status \in Outcomes :
          [kind |-> "upload", id |-> id, status |-> status, children |-> KeysFor(status)]
              \in UploadOps
  BY DEF StatusOps, UploadOps, LocalPaths, KeysFor

(* The log of metadata.json is a function from numbers to records.          *)
LEMMA FileIsLog == TypeInv => file.log = [n \in DOMAIN file.log |-> file.log[n]]
                              /\ DOMAIN file.log \subseteq Numbers
                              /\ \A n \in DOMAIN file.log : file.log[n] \in Record
  BY CatalogAssumption DEF TypeInv, IsLog

(* A statement of a transaction, or the begin of one, leaves the rest.      *)
LEMMA AdvanceTypes ==
    ASSUME TypeInv, ~Running("none"), NEW stage, NEW work, Advance(stage, work), IsDb(work),
           \/ tx.op \in StatusOps \cup UploadOps /\ stage \in {"clear", "insert", "stats", "commit"}
           \/ tx.op \in PurgeOps /\ stage \in {"delete", "stats", "commit"}
           \/ tx.op \in ImportOps /\ stage \in {"stats", "commit"}
    PROVE  TypeInv'
  <1>1. tx' = [op |-> tx.op, stage |-> stage, work |-> work]
    BY DEF Advance, TypeInv, TxShape, Running
  <1>2. tx'.op = tx.op /\ tx'.stage = stage /\ tx'.work = work /\ stage # "none"
    BY <1>1
  <1>3. UNCHANGED <<phase, attempts, db, handles, file, clock>>
    BY DEF Advance
  <1>4. /\ tx.op \in StatusOps \cup UploadOps \cup PurgeOps => phase = "up"
        /\ tx.op \in ImportOps => phase = "importing" /\ tx.op.todo \subseteq DOMAIN file.log
    BY DEF TypeInv, TxShape, Running, StatusOps, UploadOps, PurgeOps, ImportOps
  <1>5. TxShape'
    BY <1>1, <1>2, <1>3, <1>4 DEF TxShape
  <1> QED BY <1>3, <1>5 DEF TypeInv

(* One record more is done.                                                 *)
LEMMA ImportAdvances ==
    ASSUME NEW n, NEW work, TypeInv, Running("import"),
           tx' = [tx EXCEPT !.op.todo = @ \ {n}, !.work = work]
    PROVE  tx' = [op |-> [kind |-> "import", todo |-> tx.op.todo \ {n}], stage |-> "import",
                  work |-> work]
  <1>1. tx = [op |-> tx.op, stage |-> tx.stage, work |-> tx.work] /\ tx.stage = "import"
    BY DEF Running, TypeInv, TxShape
  <1>2. tx.op = [kind |-> "import", todo |-> tx.op.todo]
    BY <1>1 DEF TypeInv, TxShape, ImportOps
  <1> DEFINE one == tx'
             two == [op |-> [kind |-> "import", todo |-> tx.op.todo \ {n}], stage |-> "import",
                     work |-> work]
  <1>3. one = [x \in {"op", "stage", "work"} |-> one[x]] /\ two = [x \in {"op", "stage", "work"} |-> two[x]]
    BY <1>1
  <1>4. one.stage = "import" /\ one.work = work /\ one.op = [kind |-> "import", todo |-> tx.op.todo \ {n}]
    BY <1>1, <1>2
  <1>5. two.stage = "import" /\ two.work = work /\ two.op = [kind |-> "import", todo |-> tx.op.todo \ {n}]
    OBVIOUS
  <1> HIDE DEF one, two
  <1>6. \A x \in {"op", "stage", "work"} : one[x] = two[x]
    BY <1>4, <1>5
  <1>7. one = two
    BY <1>3, <1>6
  <1> QED BY <1>7 DEF one, two

(* Every step keeps the tables tables, and a transaction one of its kinds.  *)
LEMMA TypeStep == TypeInv /\ [Next]_vars => TypeInv'
  <1> SUFFICES ASSUME TypeInv, [Next]_vars PROVE TypeInv'
    OBVIOUS
  <1>0. MaxAttempts \in Nat \ {0}
    BY CatalogAssumption
  <1>a. tx'.stage = "none" => TxShape'
    BY DEF TxShape
  <1>1. CASE Start \/ Connect \/ ConnectFails
    <2>1. tx.stage = "none"
      BY <1>1 DEF Start, Connect, ConnectFails, TypeInv, TxShape
    <2>2. phase' \in {"down", "opening", "importing", "up"} /\ attempts' \in 0..MaxAttempts
      BY <1>0, <1>1 DEF Start, Connect, ConnectFails, TypeInv
    <2>3. UNCHANGED <<db, handles, file, clock>>
      BY <1>1 DEF Start, Connect, ConnectFails
    <2>4. TxShape'
      <3>1. CASE UNCHANGED tx
        BY <2>1, <3>1, <1>a
      <3>2. CASE ~UNCHANGED tx
        <4>1. /\ phase' = "importing"
              /\ tx' = [op |-> [kind |-> "import", todo |-> DOMAIN file.log],
                        stage |-> "import", work |-> db]
          BY <1>1, <3>2 DEF Start, Connect, ConnectFails
        <4>2. [kind |-> "import", todo |-> DOMAIN file.log] \in ImportOps
          BY FileIsLog DEF ImportOps
        <4>3. tx'.op \in ImportOps /\ tx'.op.todo = DOMAIN file.log
          BY <4>1, <4>2
        <4>4. tx' = [op |-> tx'.op, stage |-> tx'.stage, work |-> tx'.work]
              /\ tx'.stage = "import" /\ IsDb(tx'.work)
          BY <4>1 DEF TypeInv
        <4> QED BY <2>3, <4>1, <4>3, <4>4 DEF TxShape
      <3> QED BY <3>1, <3>2
    <2> QED BY <2>2, <2>3, <2>4 DEF TypeInv
  <1>2. CASE ImportRecord
    <2>1. tx.op \in ImportOps /\ Running("import") /\ IsDb(tx.work) /\ phase = "importing"
          /\ tx = [op |-> tx.op, stage |-> tx.stage, work |-> tx.work]
      BY <1>2 DEF ImportRecord, Running, TypeInv, TxShape
    <2>2. CASE Advance("stats", tx.work)
      BY <2>1, <2>2, AdvanceTypes DEF Running
    <2>3. CASE ~Advance("stats", tx.work)
      <3>1. PICK n \in tx.op.todo :
                tx' = [tx EXCEPT !.op.todo = @ \ {n}, !.work = Imported(@, file.log[n])]
        BY <1>2, <2>3 DEF ImportRecord
      <3>2. UNCHANGED <<phase, attempts, db, handles, file, clock>>
        BY <1>2, <2>3 DEF ImportRecord
      <3>3. n \in DOMAIN file.log /\ tx.op.todo \subseteq DOMAIN file.log
        BY <2>1 DEF TypeInv, TxShape, StatusOps, UploadOps, PurgeOps, Running
      <3>4. tx' = [op |-> [kind |-> "import", todo |-> tx.op.todo \ {n}], stage |-> "import",
                   work |-> Imported(tx.work, file.log[n])]
        BY <2>1, <3>1, ImportAdvances
      <3>5. IsDb(Imported(tx.work, file.log[n]))
        BY <2>1, <3>3, FileIsLog, InsertedTables DEF Imported
      <3>6. [kind |-> "import", todo |-> tx.op.todo \ {n}] \in ImportOps
        BY <3>3, FileIsLog DEF ImportOps
      <3>7. TxShape'
        BY <2>1, <3>2, <3>3, <3>4, <3>5, <3>6 DEF TxShape
      <3> QED BY <3>2, <3>7 DEF TypeInv
    <2> QED BY <2>2, <2>3
  <1>3. CASE Crash \/ Tick
    <2>1. /\ (phase' = "down" /\ tx' = NoTx) \/ UNCHANGED <<phase, tx>>
          /\ UNCHANGED <<db, file>> /\ handles' \in {{}, handles} /\ clock' \in {clock, clock + 1}
          /\ attempts' \in {0, attempts}
      BY <1>3 DEF Crash, Tick
    <2>2. TxShape'
      BY <2>1 DEF TypeInv, TxShape, NoTx
    <2> QED BY <1>0, <2>1, <2>2 DEF TypeInv
  <1>4. CASE UpdateRow \/ ClearChildren
    <2>1. /\ ~Running("none") /\ IsDb(tx.work) /\ tx.op \in StatusOps \cup UploadOps
      BY <1>4 DEF UpdateRow, ClearChildren, Running, TypeInv, TxShape
    <2>2. CASE UpdateRow
      BY <2>1, <2>2, UpdatedTables, AdvanceTypes DEF UpdateRow
    <2>3. CASE ClearChildren
      <3>1. Advance("insert", Cleared(tx.work, tx.op))
        BY <2>3 DEF ClearChildren, Cleared
      <3> QED BY <2>1, <3>1, ClearedTables, AdvanceTypes
    <2> QED BY <1>4, <2>2, <2>3
  <1>5. ASSUME Finish, IsDb(db') PROVE TypeInv'
    BY <1>5, <1>0 DEF Finish, NoTx, TypeInv, TxShape
  <1>6. CASE InsertChildren \/ CountExpired
    <2>1. CASE Rollback
      BY <1>5, <2>1 DEF Rollback, TypeInv
    <2>2. CASE InsertChildren /\ ~Rollback
      <3>1. /\ ~Running("none") /\ IsDb(tx.work) /\ tx.op \in StatusOps \cup UploadOps
        BY <2>2 DEF InsertChildren, Running, TypeInv, TxShape
      <3>2. Advance("stats", Filled(tx.work, tx.op))
        BY <2>2 DEF InsertChildren, Filled, Under
      <3> QED BY <3>1, <3>2, FilledTables, AdvanceTypes
    <2>3. CASE CountExpired /\ ~Rollback
      <3>1. /\ ~Running("none") /\ IsDb(tx.work) /\ tx.op \in PurgeOps /\ Advance("delete", tx.work)
        BY <2>3 DEF CountExpired, Running, TypeInv, TxShape
      <3> QED BY <3>1, AdvanceTypes
    <2> QED BY <1>6, <2>1, <2>2, <2>3
  <1>7. CASE DeleteExpired
    <2>1. /\ ~Running("none") /\ IsDb(tx.work) /\ tx.op \in PurgeOps
      BY <1>7 DEF DeleteExpired, Running, TypeInv, TxShape
    <2> QED BY <1>7, <2>1, RemovedTables, AdvanceTypes DEF DeleteExpired
  <1>8. CASE updateStats
    <2>1. /\ ~Running("none") /\ IsDb(tx.work) /\ tx.op \in StatusOps \cup UploadOps \cup PurgeOps \cup ImportOps
      BY <1>8 DEF updateStats, Running, TypeInv, TxShape
    <2>2. Advance("commit", Recounted(tx.work))
      BY <1>8 DEF updateStats, Recounted
    <2> QED BY <2>1, <2>2, RecountedTables, AdvanceTypes
  <1>9. CASE Commit \/ StatementFails
    <2>1. Finish /\ IsDb(db')
      BY <1>9 DEF Commit, StatementFails, Rollback, Running, TypeInv, TxShape
    <2> QED BY <1>5, <2>1
  <1>10. ASSUME NEW stage, NEW op, Begin(stage, op),
                \/ stage = "update" /\ op \in StatusOps \cup UploadOps
                \/ stage = "count" /\ op \in PurgeOps
         PROVE  TypeInv'
    <2>1. tx' = [op |-> op, stage |-> stage, work |-> db] /\ phase = "up"
          /\ UNCHANGED <<phase, attempts, db, handles, file, clock>>
      BY <1>10 DEF Begin
    <2>2. tx' = [op |-> tx'.op, stage |-> tx'.stage, work |-> tx'.work]
          /\ tx'.op = op /\ tx'.stage = stage /\ tx'.work = db
      BY <2>1
    <2>3. TxShape'
      BY <1>10, <2>1, <2>2 DEF TxShape, TypeInv
    <2> QED BY <2>1, <2>3 DEF TypeInv
  <1>11. CASE PurgeDeletedBackups
    <2>1. [kind |-> "purge", at |-> clock] \in PurgeOps
      BY DEF TypeInv, PurgeOps
    <2> QED BY <1>10, <1>11, <2>1 DEF PurgeDeletedBackups
  <1>12. ASSUME NEW id \in handles, NEW status \in Outcomes, NEW size \in Sizes \cup {0},
                UpdateBackupStatus(id, status, size) \/ UpdateS3UploadStatus(id, status)
         PROVE  TypeInv'
    <2>1. id \in Ids /\ clock \in Nat
      BY DEF TypeInv
    <2> QED BY <1>10, <1>12, <2>1, CallsAreTyped DEF UpdateBackupStatus, UpdateS3UploadStatus
  <1>13. ASSUME NEW t \in Targets, CreateBackupMeta(t) PROVE TypeInv'
    <2>1. tx.stage = "none" /\ UNCHANGED <<phase, attempts, tx, file, clock>>
      BY <1>13 DEF CreateBackupMeta, Free, Running
    <2>2. NewRecord(t, clock) \in Record /\ IdAt(t, clock) \in Ids
      BY NewRecordType, RecordsAssumption DEF TypeInv, IdAt, Ids
    <2>3. handles' = handles \cup {IdAt(t, clock)}
          /\ db' \in {db, Inserted(db, NewRecord(t, clock))}
      BY <1>13 DEF CreateBackupMeta
    <2>4. IsDb(db')
      BY <2>2, <2>3, InsertedTables DEF TypeInv
    <2> QED BY <2>1, <2>2, <2>3, <2>4 DEF TypeInv, TxShape
  <1>14. ASSUME NEW id, MarkBackupDeleted(id) PROVE TypeInv'
    <2>1. tx.stage = "none" /\ UNCHANGED <<phase, attempts, tx, file, clock, handles>>
          /\ db' = Marked(db, id)
      BY <1>14 DEF MarkBackupDeleted, Free, Running, Marked
    <2>2. IsDb(db')
      BY <2>1, MarkedTables DEF TypeInv
    <2> QED BY <2>1, <2>2 DEF TypeInv, TxShape
  <1>15. CASE UNCHANGED vars
    BY <1>15 DEF vars, TypeInv, TxShape
  <1>16. ASSUME NEW id \in handles PROVE
             (\/ \E size \in Sizes : UpdateBackupStatus(id, "success", size)
              \/ UpdateBackupStatus(id, "error", 0)
              \/ \E status \in Outcomes : UpdateS3UploadStatus(id, status)) => TypeInv'
    <2>1. "success" \in Outcomes /\ "error" \in Outcomes /\ 0 \in Sizes \cup {0}
          /\ \A size \in Sizes : size \in Sizes \cup {0}
      BY DEF Outcomes
    <2> QED BY <1>12, <2>1
  <1> QED
    BY <1>1, <1>2, <1>3, <1>4, <1>6, <1>7, <1>8, <1>9, <1>11, <1>13, <1>14, <1>15, <1>16
       DEF Next, Outcomes

(* The shape of the state holds throughout.                                 *)
LEMMA TypeInvariant == Spec => []TypeInv
<1>1. Init => TypeInv
  <2>1. MaxAttempts \in Nat
    BY CatalogAssumption
  <2> QED BY <2>1, EmptyTables DEF Init, TypeInv, TxShape, NoTx
<1> QED BY <1>1, TypeStep, PTL DEF Spec

(* Every row of the tables is a backup the callers can be shown, and only   *)
(* a process that is up or imports has a transaction, at a statement of     *)
(* what it is for.                                                          *)
THEOREM CatalogTypeCorrect == Spec => []TypeOK
<1>1. TypeInv => TypeOK
  BY TablesAreTyped DEF TypeInv, TxShape, TypeOK
<1> QED BY <1>1, TypeInvariant, PTL

-------------------------------------------------------------------------------
(* All the statements of an edit but the last.                              *)
EditOf(d, op) == Filled(Cleared(Updated(d, op), op), op)

(* Together they replace one row's columns and one of its tables of         *)
(* children, and leave no child without its row.                            *)
LEMMA EditedTables ==
    ASSUME NEW d, IsDb(d), NEW op \in StatusOps \cup UploadOps
    PROVE  LET new == EditOf(d, op)
           IN  /\ IsDb(new) /\ DOMAIN new.rows = DOMAIN d.rows /\ new.stats = d.stats
               /\ \A id \in DOMAIN d.rows :
                     new.rows[id] = IF id = op.id THEN Edited(d.rows[id], op) ELSE d.rows[id]
               /\ \A id : Children(new.paths, id) = IF op.kind = "status" /\ id = op.id THEN op.children
                                                    ELSE Children(d.paths, id)
               /\ \A id : Children(new.keys, id) = IF op.kind # "status" /\ id = op.id THEN op.children
                                                   ELSE Children(d.keys, id)
               /\ (Rooted(d) /\ (op.children = {} \/ op.id \in DOMAIN d.rows)) => Rooted(new)
  <1> DEFINE one == Updated(d, op)
             two == Cleared(one, op)
             new == Filled(two, op)
             added == Under(op.id, op.children)
  <1>0. op.children \subseteq Organisations
    BY DEF StatusOps, UploadOps
  <1>1. /\ IsDb(one) /\ DOMAIN one.rows = DOMAIN d.rows
        /\ one.paths = d.paths /\ one.keys = d.keys /\ one.stats = d.stats
        /\ \A id \in DOMAIN d.rows :
              one.rows[id] = IF id = op.id THEN Edited(d.rows[id], op) ELSE d.rows[id]
    BY UpdatedTables
  <1> HIDE DEF one
  <1>2. /\ IsDb(two) /\ two.rows = one.rows /\ two.stats = one.stats
        /\ two.paths = IF op.kind = "status" THEN WithoutChildren(one.paths, {op.id}) ELSE one.paths
        /\ two.keys = IF op.kind = "status" THEN one.keys ELSE WithoutChildren(one.keys, {op.id})
    BY <1>1, ClearedTables
  <1> HIDE DEF two
  <1>3. /\ IsDb(new) /\ new.rows = two.rows /\ new.stats = two.stats
        /\ new.paths = IF op.kind = "status" THEN two.paths \cup added ELSE two.paths
        /\ new.keys = IF op.kind = "status" THEN two.keys ELSE two.keys \cup added
    BY <1>2, FilledTables
  <1> HIDE DEF new
  <1>4. ASSUME NEW id
        PROVE  /\ Children(new.paths, id) = IF op.kind = "status" /\ id = op.id THEN op.children
                                            ELSE Children(d.paths, id)
               /\ Children(new.keys, id) = IF op.kind # "status" /\ id = op.id THEN op.children
                                           ELSE Children(d.keys, id)
    BY <1>0, <1>1, <1>2, <1>3 DEF Children, WithoutChildren, Under
  <1>5. ASSUME Rooted(d), op.children = {} \/ op.id \in DOMAIN d.rows PROVE Rooted(new)
    <2> SUFFICES ASSUME NEW c \in new.paths \cup new.keys PROVE c[1] \in DOMAIN new.rows
      BY DEF Rooted
    <2>1. c \in d.paths \cup d.keys \/ c \in added
      BY <1>1, <1>2, <1>3 DEF WithoutChildren
    <2> QED BY <1>1, <1>2, <1>3, <1>5, <2>1 DEF Rooted, Under
  <1>6. /\ DOMAIN new.rows = DOMAIN d.rows /\ new.stats = d.stats
        /\ \A id \in DOMAIN d.rows :
              new.rows[id] = IF id = op.id THEN Edited(d.rows[id], op) ELSE d.rows[id]
    BY <1>1, <1>2, <1>3
  <1>7. EditOf(d, op) = new
    BY DEF new, two, one, EditOf
  <1> QED BY <1>3, <1>4, <1>5, <1>6, <1>7

(* The outcome of an entry, field by field.                                 *)
LEMMA SettledFields ==
    ASSUME NEW id, NEW t, NEW x, NEW y, NEW os, NEW m, NEW then,
           NEW status, NEW paths, NEW size, NEW now
    PROVE  Settled([id |-> id, target |-> t, status |-> x, s3 |-> y, paths |-> os,
                    size |-> m, doneAt |-> then], status, paths, size, now)
               = [id |-> id, target |-> t, status |-> status, s3 |-> y, paths |-> paths,
                  size |-> size, doneAt |-> now]
  <1> DEFINE one == Settled([id |-> id, target |-> t, status |-> x, s3 |-> y, paths |-> os,
                             size |-> m, doneAt |-> then], status, paths, size, now)
             two == [id |-> id, target |-> t, status |-> status, s3 |-> y, paths |-> paths,
                     size |-> size, doneAt |-> now]
             fields == {"id", "target", "status", "s3", "paths", "size", "doneAt"}
  <1>1. one = [f \in fields |-> one[f]] /\ two = [f \in fields |-> two[f]]
    BY DEF Settled
  <1>2. /\ one.id = id /\ one.target = t /\ one.status = status /\ one.s3 = y
        /\ one.paths = paths /\ one.size = size /\ one.doneAt = now
    BY DEF Settled
  <1>3. /\ two.id = id /\ two.target = t /\ two.status = status /\ two.s3 = y
        /\ two.paths = paths /\ two.size = size /\ two.doneAt = now
    OBVIOUS
  <1> HIDE DEF one, two
  <1>4. \A f \in fields : one[f] = two[f]
    BY <1>2, <1>3
  <1>5. one = two
    BY <1>1, <1>4
  <1> QED BY <1>5 DEF one, two

(* To a caller that is an edit of one record.                               *)
LEMMA EditedRecords ==
    ASSUME NEW d, IsDb(d), NEW op \in StatusOps \cup UploadOps, NEW id \in DOMAIN d.rows
    PROVE  Converted(EditOf(d, op), id) =
               IF id # op.id THEN Converted(d, id)
               ELSE IF op.kind = "status"
                    THEN Settled(Converted(d, id), op.status, op.children, op.size, op.at)
                    ELSE Uploaded(Converted(d, id), op.status)
  <1>1. d.rows[id] \in Row
    BY DEF IsDb
  <1>2. EditOf(d, op).rows[id] = IF id = op.id THEN Edited(d.rows[id], op) ELSE d.rows[id]
    BY EditedTables
  <1>6. \A i : Children(EditOf(d, op).paths, i) =
                  IF op.kind = "status" /\ i = op.id THEN op.children ELSE Children(d.paths, i)
    BY EditedTables
  <1>3. CASE id # op.id
    BY <1>2, <1>3, <1>6 DEF Converted
  <1>4. CASE id = op.id /\ op.kind = "status"
    <2>1. LET new == EditOf(d, op).rows[id]
          IN  /\ new.target = d.rows[id].target /\ new.status = op.status
              /\ new.s3 = d.rows[id].s3 /\ new.size = op.size /\ new.doneAt = op.at
      BY <1>1, <1>2, <1>4 DEF Edited, Row
    <2> QED BY <1>4, <1>6, <2>1, SettledFields DEF Converted
  <1>5. CASE id = op.id /\ op.kind # "status"
    <2>1. LET new == EditOf(d, op).rows[id]
          IN  /\ new.target = d.rows[id].target /\ new.status = d.rows[id].status
              /\ new.s3 = op.status /\ new.size = d.rows[id].size /\ new.doneAt = d.rows[id].doneAt
      BY <1>1, <1>2, <1>5 DEF Edited, Row
    <2> QED BY <1>5, <1>6, <2>1 DEF Converted, Uploaded
  <1> QED BY <1>3, <1>4, <1>5

(* A purge takes rows and their children, and edits none that stays.        *)
LEMMA PurgedTables ==
    ASSUME NEW d, IsDb(d), NEW ids
    PROVE  LET new == Removed(d, ids)
           IN  /\ Rooted(d) => Rooted(new)
               /\ \A id \in DOMAIN d.rows \ ids :
                     /\ Converted(new, id) = Converted(d, id)
                     /\ Children(new.keys, id) = Children(d.keys, id)
  <1> DEFINE new == Removed(d, ids)
  <1>1. /\ DOMAIN new.rows = DOMAIN d.rows \ ids
        /\ \A id \in DOMAIN d.rows \ ids : new.rows[id] = d.rows[id]
        /\ new.paths = WithoutChildren(d.paths, ids)
        /\ new.keys = WithoutChildren(d.keys, ids)
    BY RemovedTables
  <1> HIDE DEF new
  <1>2. Rooted(d) => Rooted(new)
    BY <1>1 DEF Rooted, WithoutChildren
  <1>3. ASSUME NEW id \in DOMAIN d.rows \ ids
        PROVE  /\ Converted(new, id) = Converted(d, id)
               /\ Children(new.keys, id) = Children(d.keys, id)
    <2>1. Children(new.paths, id) = Children(d.paths, id) /\ Children(new.keys, id) = Children(d.keys, id)
      BY <1>1 DEF Children, WithoutChildren
    <2> QED BY <1>1, <2>1 DEF Converted
  <1> QED BY <1>2, <1>3 DEF new

(* A record that joins is shown as it is, and the others as they were.      *)
LEMMA JoinedRecords ==
    ASSUME NEW d, IsDb(d), Rooted(d), NEW r \in Record, r.id \notin DOMAIN d.rows
    PROVE  LET new == Inserted(d, r)
           IN  /\ Rooted(new) /\ Converted(new, r.id) = r
               /\ Children(new.keys, r.id) = KeysFor(r.s3)
               /\ \A id \in DOMAIN d.rows : /\ Converted(new, id) = Converted(d, id)
                                            /\ Children(new.keys, id) = Children(d.keys, id)
  <1> DEFINE new == Inserted(d, r)
  <1>0. r.paths \subseteq Organisations /\ KeysFor(r.s3) \subseteq Organisations
    BY DEF Record, KeysFor
  <1>1. /\ DOMAIN new.rows = DOMAIN d.rows \cup {r.id}
        /\ \A id \in DOMAIN d.rows : id # r.id => new.rows[id] = d.rows[id]
        /\ new.rows[r.id] = RowOf(r)
        /\ new.paths = d.paths \cup Under(r.id, r.paths)
        /\ new.keys = d.keys \cup Under(r.id, KeysFor(r.s3))
    BY InsertedTables
  <1> HIDE DEF new
  <1>2. Rooted(new)
    BY <1>1 DEF Rooted, Under
  <1>3. Children(d.paths, r.id) = {} /\ Children(d.keys, r.id) = {}
    BY DEF Rooted, Children
  <1>4. Children(new.paths, r.id) = r.paths /\ Children(new.keys, r.id) = KeysFor(r.s3)
    BY <1>0, <1>1, <1>3 DEF Children, Under
  <1>5. Converted(new, r.id) = r
    BY <1>1, <1>4 DEF Converted, RowOf, Record
  <1>6. ASSUME NEW id \in DOMAIN d.rows
        PROVE  /\ Converted(new, id) = Converted(d, id)
               /\ Children(new.keys, id) = Children(d.keys, id)
    <2>1. id # r.id /\ new.rows[id] = d.rows[id]
      BY <1>1
    <2>2. Children(new.paths, id) = Children(d.paths, id) /\ Children(new.keys, id) = Children(d.keys, id)
      BY <1>0, <1>1, <2>1 DEF Children, Under
    <2> QED BY <2>1, <2>2 DEF Converted
  <1> QED BY <1>2, <1>4, <1>5, <1>6 DEF new

-------------------------------------------------------------------------------
(* While a transaction runs the mutex keeps the committed tables as they    *)
(* are, and its work is what its statements so far make of them.            *)
EditProgress ==
    /\ Running("update") => tx.work = db
    /\ Running("clear") => tx.work = Updated(db, tx.op)
    /\ Running("insert") => tx.work = Cleared(Updated(db, tx.op), tx.op)
    /\ Running("stats") => tx.work = EditOf(db, tx.op)
    /\ Running("commit") => tx.work = Recounted(EditOf(db, tx.op))
    /\ Running("stats") \/ Running("commit") => tx.op.children = {} \/ tx.op.id \in DOMAIN db.rows
    /\ tx.op.children = IF tx.op.kind = "status" THEN LocalPaths(tx.op.status)
                        ELSE KeysFor(tx.op.status)
    /\ tx.op.kind = "status" => tx.op.at <= clock

PurgeOf(d, op) == Removed(d, ExpiredIds(d, op.at))

PurgeProgress ==
    /\ Running("count") \/ Running("delete") => tx.work = db
    /\ Running("stats") => tx.work = PurgeOf(db, tx.op)
    /\ Running("commit") => tx.work = Recounted(PurgeOf(db, tx.op))
    /\ tx.op.at <= clock

WorkInv ==
    /\ (tx.stage # "none" /\ tx.op.kind \in {"status", "upload"}) => EditProgress
    /\ (tx.stage # "none" /\ tx.op.kind = "purge") => PurgeProgress

(* The kinds tell the operations apart.                                     *)
LEMMA KindsOfOps ==
    /\ \A op \in StatusOps \cup UploadOps : op.kind \in {"status", "upload"}
    /\ \A op \in StatusOps : op.kind = "status"
    /\ \A op \in UploadOps : op.kind = "upload"
    /\ \A op \in PurgeOps : op.kind = "purge"
    /\ \A op \in ImportOps : op.kind = "import"
  BY DEF StatusOps, UploadOps, PurgeOps, ImportOps

(* What a statement changes.                                                *)
LEMMA Advances ==
    ASSUME TypeInv, ~Running("none"), NEW stage, NEW work, Advance(stage, work)
    PROVE  /\ tx'.op = tx.op /\ tx'.stage = stage /\ tx'.work = work
           /\ UNCHANGED <<phase, attempts, db, handles, file, clock>>
  <1>1. tx = [op |-> tx.op, stage |-> tx.stage, work |-> tx.work]
    BY DEF TypeInv, TxShape, Running
  <1> QED BY <1>1 DEF Advance

(* Every step keeps the working copy of a transaction where its stage has   *)
(* it.                                                                      *)
LEMMA WorkStep == TypeInv /\ WorkInv /\ [Next]_vars => WorkInv'
  <1> SUFFICES ASSUME TypeInv, WorkInv, [Next]_vars PROVE WorkInv'
    OBVIOUS
  <1>1. ASSUME tx'.stage = "none" PROVE WorkInv'
    BY <1>1 DEF WorkInv
  <1>2. ASSUME UNCHANGED <<tx, db>>, clock' \in {clock, clock + 1} PROVE WorkInv'
    <2>1. clock <= clock' /\ clock \in Nat
      BY <1>2 DEF TypeInv
    <2>2. ASSUME EditProgress, tx.stage # "none", tx.op.kind \in {"status", "upload"} PROVE EditProgress'
      <3>1. tx.op.kind = "status" => tx.op.at \in Nat
        BY <2>2, KindsOfOps DEF TypeInv, TxShape, StatusOps
      <3> QED BY <1>2, <2>1, <2>2, <3>1 DEF EditProgress, Running
    <2>3. ASSUME PurgeProgress, tx.stage # "none", tx.op.kind = "purge" PROVE PurgeProgress'
      <3>1. tx.op.at \in Nat
        BY <2>3, KindsOfOps DEF TypeInv, TxShape, PurgeOps
      <3> QED BY <1>2, <2>1, <2>3, <3>1 DEF PurgeProgress, Running
    <2> QED BY <1>2, <2>2, <2>3 DEF WorkInv
  <1>3. ASSUME tx'.stage # "none", tx'.op.kind = "import" PROVE WorkInv'
    BY <1>3 DEF WorkInv
  <1>4. CASE Start \/ Connect \/ ConnectFails
    <2>1. tx.stage = "none" /\ UNCHANGED <<db, clock>>
      BY <1>4 DEF Start, Connect, ConnectFails, TypeInv, TxShape
    <2>2. UNCHANGED tx \/ (tx'.stage # "none" /\ tx'.op.kind = "import")
      BY <1>4 DEF Start, Connect, ConnectFails
    <2> QED BY <1>1, <1>3, <2>1, <2>2
  <1>5. CASE ImportRecord
    <2>1. ~Running("none") /\ tx.op \in ImportOps /\ Running("import")
      BY <1>5 DEF ImportRecord, Running, TypeInv, TxShape
    <2>2. CASE Advance("stats", tx.work)
      BY <1>3, <2>1, <2>2, Advances, KindsOfOps
    <2>3. CASE ~Advance("stats", tx.work)
      <3>1. PICK n : tx' = [tx EXCEPT !.op.todo = @ \ {n}, !.work = Imported(@, file.log[n])]
        BY <1>5, <2>3 DEF ImportRecord
      <3>2. tx' = [op |-> [kind |-> "import", todo |-> tx.op.todo \ {n}], stage |-> "import",
                   work |-> Imported(tx.work, file.log[n])]
        BY <2>1, <3>1, ImportAdvances
      <3>3. tx'.stage = "import" /\ tx'.op.kind = "import"
        BY <3>2
      <3> QED BY <1>3, <3>3
    <2> QED BY <2>2, <2>3
  <1>6. CASE Crash \/ StatementFails \/ Commit
    BY <1>1, <1>6 DEF Crash, StatementFails, Rollback, Finish, Commit, NoTx
  <1>7. CASE Tick \/ UNCHANGED vars
    BY <1>2, <1>7 DEF Tick, vars
  <1>8. CASE UpdateRow
    <2>1. ~Running("none") /\ Running("update") /\ tx.op.kind \in {"status", "upload"} /\ tx.stage # "none"
      BY <1>8, KindsOfOps DEF UpdateRow, Running, TypeInv, TxShape
    <2>2. /\ tx'.op = tx.op /\ tx'.stage = "clear" /\ tx'.work = Updated(tx.work, tx.op)
          /\ UNCHANGED <<db, clock>>
      BY <1>8, <2>1, Advances DEF UpdateRow
    <2>3. EditProgress
      BY <2>1 DEF WorkInv
    <2>4. EditProgress'
      BY <2>1, <2>2, <2>3 DEF EditProgress, Running
    <2> QED BY <2>1, <2>2, <2>4 DEF WorkInv
  <1>9. CASE ClearChildren
    <2>1. ~Running("none") /\ Running("clear") /\ tx.op.kind \in {"status", "upload"} /\ tx.stage # "none"
      BY <1>9, KindsOfOps DEF ClearChildren, Running, TypeInv, TxShape
    <2>2. Advance("insert", Cleared(tx.work, tx.op))
      BY <1>9 DEF ClearChildren, Cleared
    <2>3. /\ tx'.op = tx.op /\ tx'.stage = "insert" /\ tx'.work = Cleared(tx.work, tx.op)
          /\ UNCHANGED <<db, clock>>
      BY <2>1, <2>2, Advances
    <2>4. EditProgress
      BY <2>1 DEF WorkInv
    <2>5. EditProgress'
      BY <2>1, <2>3, <2>4 DEF EditProgress, Running
    <2> QED BY <2>1, <2>3, <2>5 DEF WorkInv
  <1>10. CASE InsertChildren
    <2>1. /\ ~Running("none") /\ Running("insert") /\ tx.op.kind \in {"status", "upload"} /\ tx.stage # "none"
          /\ tx.op \in StatusOps \cup UploadOps
      BY <1>10, KindsOfOps DEF InsertChildren, Running, TypeInv, TxShape
    <2>2. CASE Rollback
      BY <1>1, <2>2 DEF Rollback, Finish, NoTx
    <2>3. CASE ~Rollback
      <3>1. Advance("stats", Filled(tx.work, tx.op))
        BY <1>10, <2>3 DEF InsertChildren, Filled, Under
      <3>2. /\ tx'.op = tx.op /\ tx'.stage = "stats" /\ tx'.work = Filled(tx.work, tx.op)
            /\ UNCHANGED <<db, clock>>
        BY <2>1, <3>1, Advances
      <3>3. EditProgress
        BY <2>1 DEF WorkInv
      <3>4. tx.work = Cleared(Updated(db, tx.op), tx.op)
        BY <2>1, <3>3 DEF EditProgress
      <3>5. {<<tx.op.id, o>> : o \in tx.op.children} = {} \/ tx.op.id \in DOMAIN tx.work.rows
        BY <1>10, <2>3 DEF InsertChildren
      <3>6. DOMAIN tx.work.rows = DOMAIN db.rows
        <4>1. IsDb(db)
          BY DEF TypeInv
        <4>2. IsDb(Updated(db, tx.op)) /\ DOMAIN Updated(db, tx.op).rows = DOMAIN db.rows
          BY <2>1, <4>1, UpdatedTables
        <4>3. Cleared(Updated(db, tx.op), tx.op).rows = Updated(db, tx.op).rows
          BY <2>1, <4>2, ClearedTables
        <4> QED BY <3>4, <4>2, <4>3
      <3>7. tx.op.children = {} \/ tx.op.id \in DOMAIN db.rows
        BY <3>5, <3>6
      <3>8. EditProgress'
        BY <2>1, <3>2, <3>3, <3>4, <3>7 DEF EditProgress, EditOf, Running
      <3> QED BY <2>1, <3>2, <3>8 DEF WorkInv
    <2> QED BY <2>2, <2>3
  <1>11. CASE CountExpired
    <2>1. ~Running("none") /\ Running("count") /\ tx.op.kind = "purge" /\ tx.stage # "none"
      BY <1>11, KindsOfOps DEF CountExpired, Running, TypeInv, TxShape
    <2>2. CASE Rollback
      BY <1>1, <2>2 DEF Rollback, Finish, NoTx
    <2>3. CASE ~Rollback
      <3>1. /\ tx'.op = tx.op /\ tx'.stage = "delete" /\ tx'.work = tx.work
            /\ UNCHANGED <<db, clock>>
        BY <1>11, <2>1, <2>3, Advances DEF CountExpired
      <3>2. PurgeProgress'
        BY <2>1, <3>1 DEF WorkInv, PurgeProgress, Running
      <3> QED BY <2>1, <3>1, <3>2 DEF WorkInv
    <2> QED BY <2>2, <2>3
  <1>12. CASE DeleteExpired
    <2>1. ~Running("none") /\ Running("delete") /\ tx.op.kind = "purge" /\ tx.stage # "none"
      BY <1>12, KindsOfOps DEF DeleteExpired, Running, TypeInv, TxShape
    <2>2. /\ tx'.op = tx.op /\ tx'.stage = "stats" /\ tx'.work = PurgeOf(tx.work, tx.op)
          /\ UNCHANGED <<db, clock>>
      BY <1>12, <2>1, Advances DEF DeleteExpired, PurgeOf
    <2>3. PurgeProgress'
      BY <2>1, <2>2 DEF WorkInv, PurgeProgress, Running
    <2> QED BY <2>1, <2>2, <2>3 DEF WorkInv
  <1>13. CASE updateStats
    <2>1. ~Running("none") /\ Running("stats") /\ tx.stage # "none"
      BY <1>13 DEF updateStats, Running
    <2>2. Advance("commit", Recounted(tx.work))
      BY <1>13 DEF updateStats, Recounted
    <2>3. /\ tx'.op = tx.op /\ tx'.stage = "commit" /\ tx'.work = Recounted(tx.work)
          /\ UNCHANGED <<db, clock>>
      BY <2>1, <2>2, Advances
    <2>4. ASSUME EditProgress PROVE EditProgress'
      BY <2>1, <2>3, <2>4 DEF EditProgress, Running
    <2>5. ASSUME PurgeProgress PROVE PurgeProgress'
      BY <2>1, <2>3, <2>5 DEF PurgeProgress, Running
    <2> QED BY <2>1, <2>3, <2>4, <2>5 DEF WorkInv
  <1>14. CASE PurgeDeletedBackups
    <2>1. tx' = [op |-> [kind |-> "purge", at |-> clock], stage |-> "count", work |-> db]
          /\ UNCHANGED <<db, clock>> /\ clock \in Nat
      BY <1>14 DEF PurgeDeletedBackups, Begin, TypeInv
    <2>2. tx'.op.kind = "purge" /\ tx'.op.at = clock /\ tx'.stage = "count" /\ tx'.work = db
      BY <2>1
    <2>3. PurgeProgress'
      BY <2>1, <2>2 DEF PurgeProgress, Running
    <2> QED BY <2>2, <2>3 DEF WorkInv
  <1>15. ASSUME NEW id, NEW status, NEW size, UpdateBackupStatus(id, status, size) PROVE WorkInv'
    <2>1. tx' = [op |-> [kind |-> "status", id |-> id, status |-> status,
                         size |-> size, at |-> clock, children |-> LocalPaths(status)],
                 stage |-> "update", work |-> db]
          /\ UNCHANGED <<db, clock>> /\ clock \in Nat
      BY <1>15 DEF UpdateBackupStatus, Begin, TypeInv
    <2>2. /\ tx'.op.kind = "status" /\ tx'.op.at = clock /\ tx'.stage = "update" /\ tx'.work = db
          /\ tx'.op.children = LocalPaths(status) /\ tx'.op.status = status
      BY <2>1
    <2>3. EditProgress'
      BY <2>1, <2>2 DEF EditProgress, Running
    <2> QED BY <2>2, <2>3 DEF WorkInv
  <1>16. ASSUME NEW id, NEW status, UpdateS3UploadStatus(id, status) PROVE WorkInv'
    <2>1. tx' = [op |-> [kind |-> "upload", id |-> id, status |-> status,
                         children |-> KeysFor(status)],
                 stage |-> "update", work |-> db]
          /\ UNCHANGED <<db, clock>>
      BY <1>16 DEF UpdateS3UploadStatus, Begin
    <2>2. /\ tx'.op.kind = "upload" /\ tx'.stage = "update" /\ tx'.work = db
          /\ tx'.op.children = KeysFor(status) /\ tx'.op.status = status
      BY <2>1
    <2>3. EditProgress'
      BY <2>1, <2>2 DEF EditProgress, Running
    <2> QED BY <2>2, <2>3 DEF WorkInv
  <1>17. ASSUME NEW t, CreateBackupMeta(t) PROVE WorkInv'
    BY <1>1, <1>17 DEF CreateBackupMeta, Free, Running
  <1>18. ASSUME NEW id, MarkBackupDeleted(id) PROVE WorkInv'
    BY <1>1, <1>18 DEF MarkBackupDeleted, Free, Running
  <1> QED
    BY <1>4, <1>5, <1>6, <1>7, <1>8, <1>9, <1>10, <1>11, <1>12, <1>13, <1>14, <1>15, <1>16,
       <1>17, <1>18
       DEF Next

(* At every stage the working copy is what the statements so far made of the*)
(* tables.                                                                  *)
LEMMA WorkInvariant == Spec => []WorkInv
<1>1. Init => WorkInv
  BY DEF Init, WorkInv, NoTx
<1> QED BY <1>1, WorkStep, TypeInvariant, PTL DEF Spec

-------------------------------------------------------------------------------
(* No child is without its row, and an import adds records of the file, in  *)
(* their order: of those that are done, each identifier is there, what was  *)
(* there already as it was, what is new as its first record has it.         *)
Joined(work, todo) ==
    /\ Rooted(work)
    /\ \A n \in DOMAIN file.log \ todo, m \in todo : n < m
    /\ \A id \in DOMAIN db.rows : id \in DOMAIN work.rows /\ Converted(work, id) = Converted(db, id)
    /\ \A n \in DOMAIN file.log \ todo :
          LET id == file.log[n].id
          IN  /\ id \in DOMAIN work.rows
              /\ (id \notin DOMAIN db.rows /\ IsFirst(file.log, id, n)) =>
                    Converted(work, id) = file.log[n]
    /\ \A id \in DOMAIN work.rows \ DOMAIN db.rows :
          \E n \in DOMAIN file.log \ todo : file.log[n].id = id

Importing == tx.stage # "none" /\ tx.op.kind = "import"

JoinInv ==
    /\ Rooted(db)
    /\ Importing => /\ Joined(tx.work, tx.op.todo)
                    /\ tx.stage \in {"stats", "commit"} => tx.op.todo = {}
                    /\ tx.stage = "commit" => tx.work.stats = Totals(tx.work.rows)

(* The next record of the file joins the work, or is passed over.           *)
LEMMA OneMoreJoined ==
    ASSUME TypeInv, NEW work, IsDb(work), NEW todo, todo \subseteq DOMAIN file.log,
           Joined(work, todo), NEW n \in todo, \A m \in todo : n <= m
    PROVE  Joined(Imported(work, file.log[n]), todo \ {n})
  <1> DEFINE r == file.log[n]
             new == Imported(work, r)
             later == todo \ {n}
             done == DOMAIN file.log \ todo
  <1>0. n \in DOMAIN file.log /\ r \in Record /\ DOMAIN file.log \subseteq Numbers
    BY FileIsLog
  <1>1. \A m \in DOMAIN file.log \ later, k \in later : m < k
    <2> SUFFICES ASSUME NEW m \in DOMAIN file.log \ later, NEW k \in later PROVE m < k
      OBVIOUS
    <2>1. k \in todo /\ k # n /\ n <= k /\ n \in Nat /\ k \in Nat
      BY <1>0 DEF Numbers
    <2>2. CASE m = n
      BY <2>1, <2>2
    <2>3. CASE m # n
      BY <2>1, <2>3 DEF Joined
    <2> QED BY <2>2, <2>3
  <1>2. /\ Rooted(work)
        /\ \A id \in DOMAIN db.rows : id \in DOMAIN work.rows /\ Converted(work, id) = Converted(db, id)
        /\ \A id \in DOMAIN work.rows \ DOMAIN db.rows : \E m \in done : file.log[m].id = id
    BY DEF Joined
  <1>3. ASSUME NEW m \in done
        PROVE  /\ file.log[m].id \in DOMAIN work.rows /\ m < n /\ m # n
               /\ (file.log[m].id \notin DOMAIN db.rows /\ IsFirst(file.log, file.log[m].id, m)) =>
                     Converted(work, file.log[m].id) = file.log[m]
    <2>1. m < n /\ m \in Nat /\ n \in Nat
      BY <1>0 DEF Joined, Numbers
    <2> QED BY <2>1 DEF Joined
  <1>4. CASE r.id \in DOMAIN work.rows
    <2>1. new = work
      BY <1>4 DEF Imported
    <2>2. r.id \notin DOMAIN db.rows => ~IsFirst(file.log, r.id, n)
      <3> SUFFICES ASSUME r.id \notin DOMAIN db.rows, IsFirst(file.log, r.id, n) PROVE FALSE
        OBVIOUS
      <3>1. PICK m \in done : file.log[m].id = r.id
        BY <1>2, <1>4
      <3>2. n <= m
        BY <3>1 DEF IsFirst, Matches
      <3>3. m < n /\ m \in Nat /\ n \in Nat
        BY <1>0, <1>3 DEF Numbers
      <3> QED BY <3>2, <3>3
    <2> HIDE DEF new
    <2>3. \A m \in DOMAIN file.log \ later :
             /\ file.log[m].id \in DOMAIN new.rows
             /\ (file.log[m].id \notin DOMAIN db.rows /\ IsFirst(file.log, file.log[m].id, m)) =>
                   Converted(new, file.log[m].id) = file.log[m]
      BY <1>3, <1>4, <2>1, <2>2
    <2>4. \A id \in DOMAIN new.rows \ DOMAIN db.rows : \E m \in DOMAIN file.log \ later : file.log[m].id = id
      BY <1>2, <2>1
    <2>5. Joined(new, later)
      BY <1>1, <1>2, <2>1, <2>3, <2>4 DEF Joined
    <2> QED BY <2>5 DEF new
  <1>5. CASE r.id \notin DOMAIN work.rows
    <2>0. new = Inserted(work, r)
      BY <1>5 DEF Imported
    <2>1. DOMAIN new.rows = DOMAIN work.rows \cup {r.id}
      BY <1>0, <2>0, InsertedTables
    <2>2. /\ Rooted(new) /\ Converted(new, r.id) = r
          /\ \A id \in DOMAIN work.rows : Converted(new, id) = Converted(work, id)
      BY <1>0, <1>2, <1>5, <2>0, JoinedRecords
    <2> HIDE DEF new
    <2>3. ASSUME NEW m \in DOMAIN file.log \ later
          PROVE  /\ file.log[m].id \in DOMAIN new.rows
                 /\ (file.log[m].id \notin DOMAIN db.rows /\ IsFirst(file.log, file.log[m].id, m)) =>
                       Converted(new, file.log[m].id) = file.log[m]
      BY <1>3, <2>1, <2>2
    <2>4. \A id \in DOMAIN new.rows \ DOMAIN db.rows : \E m \in DOMAIN file.log \ later : file.log[m].id = id
      BY <1>0, <1>2, <2>1
    <2>5. \A id \in DOMAIN db.rows : id \in DOMAIN new.rows /\ Converted(new, id) = Converted(db, id)
      BY <1>2, <2>1, <2>2
    <2>6. Joined(new, later)
      BY <1>1, <2>2, <2>3, <2>4, <2>5 DEF Joined
    <2> QED BY <2>6 DEF new
  <1> QED BY <1>4, <1>5

(* What is about to be committed.                                           *)
LEMMA CommitRooted ==
    ASSUME TypeInv, WorkInv, JoinInv, Running("commit")
    PROVE  Rooted(tx.work)
  <1>1. IsDb(db) /\ Rooted(db)
    BY DEF TypeInv, JoinInv
  <1>2. CASE tx.op \in StatusOps \cup UploadOps
    <2>1. /\ tx.work = Recounted(EditOf(db, tx.op))
          /\ tx.op.children = {} \/ tx.op.id \in DOMAIN db.rows
      BY <1>2, KindsOfOps DEF WorkInv, EditProgress, Running
    <2>2. Rooted(EditOf(db, tx.op)) /\ IsDb(EditOf(db, tx.op))
      BY <1>1, <1>2, <2>1, EditedTables
    <2> QED BY <2>1, <2>2, RecountedTables DEF Rooted
  <1>3. CASE tx.op \in PurgeOps
    <2>1. tx.work = Recounted(PurgeOf(db, tx.op))
      BY <1>3, KindsOfOps DEF WorkInv, PurgeProgress, Running
    <2>2. Rooted(PurgeOf(db, tx.op)) /\ IsDb(PurgeOf(db, tx.op))
      BY <1>1, PurgedTables, RemovedTables DEF PurgeOf
    <2> QED BY <2>1, <2>2, RecountedTables DEF Rooted
  <1>4. CASE tx.op \in ImportOps
    BY <1>4, KindsOfOps DEF JoinInv, Importing, Joined, Running
  <1> QED BY <1>2, <1>3, <1>4 DEF TypeInv, TxShape, Running

(* Every step keeps the import between the file and the tables.             *)
LEMMA JoinStep == TypeInv /\ WorkInv /\ JoinInv /\ [Next]_vars => JoinInv'
  <1> SUFFICES ASSUME TypeInv, WorkInv, JoinInv, [Next]_vars PROVE JoinInv'
    OBVIOUS
  <1>1. IsDb(db) /\ Rooted(db)
    BY DEF TypeInv, JoinInv
  <1>2. ASSUME Rooted(db'), ~Importing' PROVE JoinInv'
    BY <1>2 DEF JoinInv, Rooted
  <1>3. ASSUME UNCHANGED <<tx, db, file>> PROVE JoinInv'
    BY <1>3 DEF JoinInv, Joined, Rooted, Importing, IsFirst, Matches
  <1>4. CASE Start \/ Connect \/ ConnectFails
    <2>1. UNCHANGED <<db, file>>
      BY <1>4 DEF Start, Connect, ConnectFails
    <2>2. CASE UNCHANGED tx
      BY <1>3, <2>1, <2>2
    <2>3. CASE ~UNCHANGED tx
      <3>1. tx' = [op |-> [kind |-> "import", todo |-> DOMAIN file.log], stage |-> "import", work |-> db]
        BY <1>4, <2>3 DEF Start, Connect, ConnectFails
      <3>2. tx'.op.todo = DOMAIN file.log /\ tx'.stage = "import" /\ tx'.work = db
        BY <3>1
      <3>3. Joined(tx.work, tx.op.todo)'
        BY <1>1, <2>1, <3>2 DEF Joined, Rooted
      <3> QED BY <1>1, <2>1, <3>2, <3>3 DEF JoinInv, Rooted
    <2> QED BY <2>2, <2>3
  <1>5. CASE ImportRecord
    <2>1. /\ ~Running("none") /\ tx.op \in ImportOps /\ Running("import") /\ IsDb(tx.work)
          /\ tx.op.todo \subseteq DOMAIN file.log
      BY <1>5, KindsOfOps DEF ImportRecord, Running, TypeInv, TxShape
    <2>2. Joined(tx.work, tx.op.todo)
      BY <2>1, KindsOfOps DEF JoinInv, Importing, Running
    <2>3. CASE Advance("stats", tx.work)
      <3>1. /\ tx'.op = tx.op /\ tx'.stage = "stats" /\ tx'.work = tx.work
            /\ UNCHANGED <<db, file>>
        BY <2>1, <2>3, Advances
      <3>2. tx.op.todo = {}
        <4>1. CASE tx.op.todo # {}
          <5>1. PICK n \in tx.op.todo :
                    tx' = [tx EXCEPT !.op.todo = @ \ {n}, !.work = Imported(@, file.log[n])]
            BY <1>5, <4>1 DEF ImportRecord
          <5>2. tx' = [op |-> [kind |-> "import", todo |-> tx.op.todo \ {n}], stage |-> "import",
                       work |-> Imported(tx.work, file.log[n])]
            BY <2>1, <5>1, ImportAdvances
          <5> QED BY <3>1, <5>2
        <4> QED BY <4>1
      <3>3. Joined(tx.work, tx.op.todo)'
        BY <2>2, <3>1 DEF Joined, Rooted, IsFirst, Matches
      <3> QED BY <1>1, <3>1, <3>2, <3>3 DEF JoinInv, Rooted
    <2>4. CASE ~Advance("stats", tx.work)
      <3>1. PICK n \in tx.op.todo :
                /\ \A m \in tx.op.todo : n <= m
                /\ tx' = [tx EXCEPT !.op.todo = @ \ {n}, !.work = Imported(@, file.log[n])]
        BY <1>5, <2>4 DEF ImportRecord
      <3>2. UNCHANGED <<db, file>>
        BY <1>5, <2>4 DEF ImportRecord
      <3>3. tx' = [op |-> [kind |-> "import", todo |-> tx.op.todo \ {n}], stage |-> "import",
                   work |-> Imported(tx.work, file.log[n])]
        BY <2>1, <3>1, ImportAdvances
      <3>4. tx'.op.todo = tx.op.todo \ {n} /\ tx'.stage = "import"
            /\ tx'.work = Imported(tx.work, file.log[n])
        BY <3>3
      <3>5. Joined(Imported(tx.work, file.log[n]), tx.op.todo \ {n})
        BY <2>1, <2>2, <3>1, OneMoreJoined
      <3>6. Joined(tx.work, tx.op.todo)'
        BY <3>2, <3>4, <3>5 DEF Joined, Rooted, IsFirst, Matches
      <3> QED BY <1>1, <3>2, <3>4, <3>6 DEF JoinInv, Rooted
    <2> QED BY <2>3, <2>4
  <1>6. CASE Crash \/ StatementFails
    <2>1. tx' = NoTx /\ UNCHANGED db
      BY <1>6 DEF Crash, StatementFails, Rollback, Finish
    <2> QED BY <1>1, <1>2, <2>1 DEF Importing, NoTx
  <1>7. CASE Tick \/ UNCHANGED vars
    BY <1>3, <1>7 DEF Tick, vars
  <1>8. CASE UpdateRow \/ ClearChildren \/ InsertChildren \/ CountExpired \/ DeleteExpired
    <2>1. /\ ~Running("none") /\ tx.op.kind # "import" /\ UNCHANGED db
          /\ tx = [op |-> tx.op, stage |-> tx.stage, work |-> tx.work]
      BY <1>8, KindsOfOps DEF UpdateRow, ClearChildren, InsertChildren, CountExpired, DeleteExpired,
           Advance, Rollback, Running, TypeInv, TxShape
    <2>2. tx' = NoTx \/ \E stage, work : tx' = [tx EXCEPT !.stage = stage, !.work = work]
      BY <1>8 DEF UpdateRow, ClearChildren, InsertChildren, CountExpired, DeleteExpired,
           Advance, Rollback, Finish
    <2>3. ~Importing'
      <3>1. CASE tx' = NoTx
        BY <3>1 DEF Importing, NoTx
      <3>2. ASSUME NEW stage, NEW work, tx' = [tx EXCEPT !.stage = stage, !.work = work]
            PROVE  ~Importing'
        <4>1. tx'.op = tx.op
          BY <2>1, <3>2
        <4> QED BY <2>1, <4>1 DEF Importing
      <3> QED BY <2>2, <3>1, <3>2
    <2> QED BY <1>1, <1>2, <2>1, <2>3
  <1>9. CASE updateStats
    <2>1. ~Running("none") /\ Running("stats") /\ IsDb(tx.work)
      BY <1>9 DEF updateStats, Running, TypeInv, TxShape
    <2>2. Advance("commit", Recounted(tx.work))
      BY <1>9 DEF updateStats, Recounted
    <2>3. /\ tx'.op = tx.op /\ tx'.stage = "commit" /\ tx'.work = Recounted(tx.work)
          /\ UNCHANGED <<db, file>>
      BY <2>1, <2>2, Advances
    <2>4. /\ tx'.work.rows = tx.work.rows /\ tx'.work.paths = tx.work.paths
          /\ tx'.work.keys = tx.work.keys /\ tx'.work.stats = Totals(tx.work.rows)
      BY <2>1, <2>3, RecountedTables
    <2>5. CASE ~Importing
      BY <1>1, <1>2, <2>1, <2>3, <2>5 DEF Importing, Running
    <2>6. CASE Importing
      <3>1. Joined(tx.work, tx.op.todo) /\ tx.op.todo = {}
        BY <2>1, <2>6 DEF JoinInv, Running
      <3>2. \A id : Converted(tx.work, id)' = Converted(tx.work, id)
        BY <2>4 DEF Converted
      <3>3. Joined(tx.work, tx.op.todo)'
        BY <2>3, <2>4, <3>1, <3>2 DEF Joined, Rooted, IsFirst, Matches
      <3> QED BY <1>1, <2>3, <2>4, <3>1, <3>3 DEF JoinInv, Rooted
    <2> QED BY <2>5, <2>6
  <1>10. CASE Commit
    <2>1. tx' = NoTx /\ db' = tx.work /\ Running("commit")
      BY <1>10 DEF Commit, Finish
    <2>2. Rooted(db')
      BY <2>1, CommitRooted
    <2> QED BY <1>2, <2>1, <2>2 DEF Importing, NoTx
  <1>11. ASSUME NEW stage, NEW op, Begin(stage, op), op.kind # "import" PROVE JoinInv'
    <2>1. tx' = [op |-> op, stage |-> stage, work |-> db] /\ UNCHANGED db
      BY <1>11 DEF Begin
    <2>2. tx'.op = op
      BY <2>1
    <2> QED BY <1>1, <1>2, <1>11, <2>1, <2>2 DEF Importing
  <1>12. CASE PurgeDeletedBackups
    BY <1>11, <1>12 DEF PurgeDeletedBackups
  <1>13. ASSUME NEW id, NEW status, NEW size,
                UpdateBackupStatus(id, status, size) \/ UpdateS3UploadStatus(id, status)
         PROVE  JoinInv'
    BY <1>11, <1>13 DEF UpdateBackupStatus, UpdateS3UploadStatus
  <1>14. ASSUME NEW t \in Targets, CreateBackupMeta(t) PROVE JoinInv'
    <2>1. tx.stage = "none" /\ UNCHANGED tx
      BY <1>14 DEF CreateBackupMeta, Free, Running
    <2>2. \/ UNCHANGED db
          \/ db' = Inserted(db, NewRecord(t, clock)) /\ IdAt(t, clock) \notin DOMAIN db.rows
      BY <1>14 DEF CreateBackupMeta
    <2>3. NewRecord(t, clock) \in Record /\ NewRecord(t, clock).id = IdAt(t, clock)
      BY NewRecordType DEF TypeInv, NewRecord
    <2>4. Rooted(db')
      BY <1>1, <2>2, <2>3, JoinedRecords
    <2> QED BY <1>2, <2>1, <2>4 DEF Importing
  <1>15. ASSUME NEW id, MarkBackupDeleted(id) PROVE JoinInv'
    <2>1. tx.stage = "none" /\ UNCHANGED tx /\ db' = Marked(db, id)
      BY <1>15 DEF MarkBackupDeleted, Free, Running, Marked
    <2>2. Rooted(db')
      BY <1>1, <2>1, MarkedTables DEF Rooted
    <2> QED BY <1>2, <2>1, <2>2 DEF Importing
  <1> QED
    BY <1>4, <1>5, <1>6, <1>7, <1>8, <1>9, <1>10, <1>12, <1>13, <1>14, <1>15 DEF Next

(* During an import each record of the file is in the tables or still to    *)
(* come.                                                                    *)
LEMMA JoinInvariant == Spec => []JoinInv
<1>1. Init => JoinInv
  BY DEF Init, JoinInv, Importing, NoTx, NoTables, Rooted
<1> QED BY <1>1, JoinStep, TypeInvariant, WorkInvariant, PTL DEF Spec

-------------------------------------------------------------------------------
(* The words of Catalog mean what they mean here.                           *)
LEMMA SameWords ==
    /\ Contract!Record = Record /\ Contract!EmptyLog = EmptyLog
    /\ \A bs : Contract!Totals(bs) = Totals(bs)
    /\ \A r : Contract!Deleted(r) = Deleted(r)
    /\ \A r, status : Contract!Uploaded(r, status) = Uploaded(r, status)
    /\ \A r, status, paths, size, now :
          Contract!Settled(r, status, paths, size, now) = Settled(r, status, paths, size, now)
    /\ \A t, now : Contract!NewRecord(t, now) = NewRecord(t, now) /\ Contract!IdAt(t, now) = IdAt(t, now)
    /\ \A r, now : Contract!Purgeable(r, now) <=> Purgeable(r, now)
    /\ Contract!Organisations = Organisations
  <1>1. Contract!Record = Record
    BY DEF Contract!Record, Record, Contract!Ids, Ids, Contract!Organisations, Organisations,
           Contract!Statuses, Statuses
  <1>2. \A bs : Contract!Totals(bs) = Totals(bs)
    BY DEF Contract!Totals, Totals, Contract!SumFunctionOnSet, SumFunctionOnSet,
           Contract!FoldFunctionOnSet, FoldFunctionOnSet, Contract!MapThenFoldSet, MapThenFoldSet
  <1>3. \A r : Contract!Deleted(r) = Deleted(r)
    BY DEF Contract!Deleted, Deleted
  <1>4. \A r, status : Contract!Uploaded(r, status) = Uploaded(r, status)
    BY DEF Contract!Uploaded, Uploaded
  <1>5. \A r, status, paths, size, now :
           Contract!Settled(r, status, paths, size, now) = Settled(r, status, paths, size, now)
    BY DEF Contract!Settled, Settled
  <1>6. \A t, now : Contract!NewRecord(t, now) = NewRecord(t, now) /\ Contract!IdAt(t, now) = IdAt(t, now)
    BY DEF Contract!NewRecord, NewRecord, Contract!IdAt, IdAt, Contract!NoTime, NoTime
  <1>7. \A r, now : Contract!Purgeable(r, now) <=> Purgeable(r, now)
    BY DEF Contract!Purgeable, Purgeable, Contract!NoTime, NoTime
  <1>8. Contract!EmptyLog = EmptyLog /\ Contract!Organisations = Organisations
    BY DEF Contract!EmptyLog, EmptyLog, Contract!Organisations, Organisations
  <1> QED BY <1>1, <1>2, <1>3, <1>4, <1>5, <1>6, <1>7, <1>8

(* What the callers are shown of tables: one record for each row, and the   *)
(* totals of the rows are those of the records.                             *)
LEMMA ShownRecords ==
    ASSUME NEW d, IsDb(d)
    PROVE  /\ DOMAIN GetBackups(d) = DOMAIN d.rows
           /\ \A id \in DOMAIN d.rows : GetBackups(d)[id] = Converted(d, id)
           /\ \A id \in DOMAIN d.rows : Converted(d, id) \in Record
           /\ GetBackups(d) = [id \in DOMAIN d.rows |-> Converted(d, id)]
           /\ Totals(GetBackups(d)) = Totals(d.rows)
  <1>1. GetBackups(d) = [id \in DOMAIN d.rows |-> Converted(d, id)]
    BY DEF GetBackups
  <1>2. \A id \in DOMAIN d.rows : Converted(d, id) \in Record
    BY TablesAreTyped DEF IsTables
  <1>3. \A id \in DOMAIN d.rows : /\ Converted(d, id).size = d.rows[id].size
                                /\ Converted(d, id).status = d.rows[id].status
                                /\ Converted(d, id).s3 = d.rows[id].s3
    BY DEF Converted
  <1> DEFINE shown == GetBackups(d)
             sizes == [id \in DOMAIN d.rows |-> d.rows[id].size]
  <1>4. DOMAIN shown = DOMAIN d.rows /\ \A id \in DOMAIN d.rows : shown[id] = Converted(d, id)
    BY <1>1
  <1> HIDE DEF shown
  <1>5. [id \in DOMAIN shown |-> shown[id].size] = sizes
    BY <1>3, <1>4
  <1>6. /\ {id \in DOMAIN shown : shown[id].status = "success"} =
               {id \in DOMAIN d.rows : d.rows[id].status = "success"}
        /\ {id \in DOMAIN shown : shown[id].s3 = "success"} =
               {id \in DOMAIN d.rows : d.rows[id].s3 = "success"}
    BY <1>3, <1>4
  <1>7. Totals(shown) = Totals(d.rows)
    BY <1>5, <1>6 DEF Totals
  <1> QED BY <1>1, <1>2, <1>4, <1>7 DEF shown

(* Each commit is one step of the catalogue.                                *)
LEMMA CommitIsOneStep ==
    ASSUME TypeInv, TypeInv', WorkInv, JoinInv, Commit
    PROVE  Contract!CatalogNext
  <1> DEFINE old == GetBackups(db)
             new == GetBackups(db)'
  <1>0. /\ db' = tx.work /\ Running("commit") /\ UNCHANGED clock /\ clock \in Nat
        /\ IsDb(db) /\ IsDb(db') /\ Rooted(db)
    BY DEF Commit, Finish, TypeInv, JoinInv
  <1>1. /\ DOMAIN old = DOMAIN db.rows
        /\ \A id \in DOMAIN db.rows : old[id] = Converted(db, id) /\ Converted(db, id) \in Record
    BY <1>0, ShownRecords
  <1>2. /\ DOMAIN new = DOMAIN db'.rows
        /\ \A id \in DOMAIN db'.rows : new[id] = Converted(db', id) /\ Converted(db', id) \in Record
        /\ Totals(new) = Totals(db'.rows) /\ new = [id \in DOMAIN new |-> new[id]]
    BY <1>0, ShownRecords
  <1>3. CASE tx.op \in StatusOps \cup UploadOps
    <2>1. /\ tx.work = Recounted(EditOf(db, tx.op))
          /\ tx.op.kind = "status" => tx.op.at <= clock
      BY <1>0, <1>3, KindsOfOps DEF WorkInv, EditProgress, Running
    <2>2. IsDb(EditOf(db, tx.op)) /\ DOMAIN EditOf(db, tx.op).rows = DOMAIN db.rows
      BY <1>0, <1>3, EditedTables
    <2>3. /\ db'.rows = EditOf(db, tx.op).rows /\ db'.paths = EditOf(db, tx.op).paths
          /\ db'.stats = Totals(db'.rows)
      BY <1>0, <2>1, <2>2, RecountedTables
    <2>4. \A id \in DOMAIN db.rows : Converted(db', id) = Converted(EditOf(db, tx.op), id)
      BY <2>3 DEF Converted
    <2>5. \A id \in DOMAIN db.rows :
             Converted(db', id) =
                 IF id # tx.op.id THEN Converted(db, id)
                 ELSE IF tx.op.kind = "status"
                      THEN Settled(Converted(db, id), tx.op.status, tx.op.children, tx.op.size, tx.op.at)
                      ELSE Uploaded(Converted(db, id), tx.op.status)
      BY <1>0, <1>3, <2>4, EditedRecords
    <2>6. DOMAIN new = DOMAIN old
      BY <1>1, <1>2, <2>2, <2>3
    <2>7. CASE tx.op.id \notin DOMAIN db.rows
      BY <1>0, <1>1, <1>2, <2>3, <2>5, <2>6, <2>7, SameWords
         DEF Contract!CatalogNext, Contract!Import, Contract!Recount, GetStats
    <2>8. CASE tx.op.id \in DOMAIN db.rows /\ tx.op \in StatusOps
      <3> DEFINE id == tx.op.id
                 status == tx.op.status
      <3>1. /\ tx.op.kind = "status" /\ status \in Outcomes /\ tx.op.size \in Sizes \cup {0}
            /\ tx.op.children \subseteq Organisations
        BY <2>8 DEF StatusOps
      <3>2. new[id] = Settled(old[id], status, tx.op.children, tx.op.size, tx.op.at) /\ old[id] \in Record
        BY <1>1, <1>2, <2>5, <2>6, <2>8, <3>1
      <3>3. new[id].paths = tx.op.children /\ new[id].size = tx.op.size /\ new[id].doneAt = tx.op.at
        BY <3>2 DEF Settled, Record
      <3>4. \A i \in DOMAIN old : i # id => new[i] = old[i]
        BY <1>1, <1>2, <2>5, <2>6
      <3> HIDE DEF old, new
      <3>5. new = [old EXCEPT ![id] = Settled(@, status, new[id].paths, new[id].size, new[id].doneAt)]
        BY <1>1, <1>2, <2>6, <3>2, <3>3, <3>4
      <3>6. Contract!Settle(id, status)
        BY <1>0, <1>1, <1>2, <2>1, <2>3, <2>6, <2>8, <3>1, <3>3, <3>5, SameWords
           DEF Contract!Settle, Contract!Recount, GetStats, old, new
      <3>7. id \in DOMAIN old /\ status \in {"success", "error"}
        BY <1>1, <2>8, <3>1 DEF Outcomes
      <3> QED BY <3>6, <3>7 DEF Contract!CatalogNext, old
    <2>9. CASE tx.op.id \in DOMAIN db.rows /\ tx.op \in UploadOps
      <3> DEFINE id == tx.op.id
                 status == tx.op.status
      <3>1. tx.op.kind # "status" /\ status \in Outcomes
        BY <2>9 DEF UploadOps
      <3>2. new[id] = Uploaded(old[id], status)
        BY <1>1, <1>2, <2>5, <2>6, <2>9, <3>1
      <3>3. \A i \in DOMAIN old : i # id => new[i] = old[i]
        BY <1>1, <1>2, <2>5, <2>6
      <3> HIDE DEF old, new
      <3>4. new = [old EXCEPT ![id] = Uploaded(@, status)]
        BY <1>1, <1>2, <2>6, <3>2, <3>3
      <3>5. Contract!Upload(id, status)
        BY <1>0, <1>2, <2>3, <3>4, SameWords DEF Contract!Upload, Contract!Recount, GetStats, old, new
      <3>6. id \in DOMAIN old /\ status \in {"success", "error"}
        BY <1>1, <2>9, <3>1 DEF Outcomes
      <3> QED BY <3>5, <3>6 DEF Contract!CatalogNext, old
    <2> QED BY <1>3, <2>7, <2>8, <2>9
  <1>4. CASE tx.op \in PurgeOps
    <2> DEFINE gone == ExpiredIds(db, tx.op.at)
    <2>1. tx.work = Recounted(PurgeOf(db, tx.op)) /\ tx.op.at <= clock /\ tx.op.at \in Nat
      BY <1>0, <1>4, KindsOfOps DEF WorkInv, PurgeProgress, Running, PurgeOps
    <2>2. /\ IsDb(PurgeOf(db, tx.op)) /\ DOMAIN PurgeOf(db, tx.op).rows = DOMAIN db.rows \ gone
          /\ \A id \in DOMAIN db.rows \ gone : Converted(PurgeOf(db, tx.op), id) = Converted(db, id)
      BY <1>0, RemovedTables, PurgedTables DEF PurgeOf
    <2>3. /\ db'.rows = PurgeOf(db, tx.op).rows /\ db'.paths = PurgeOf(db, tx.op).paths
          /\ db'.stats = Totals(db'.rows)
      BY <1>0, <2>1, <2>2, RecountedTables
    <2>4. \A id \in DOMAIN db.rows \ gone : Converted(db', id) = Converted(PurgeOf(db, tx.op), id)
      BY <2>3 DEF Converted
    <2>5. DOMAIN new = DOMAIN old \ gone /\ \A id \in DOMAIN new : new[id] = old[id]
      BY <1>1, <1>2, <2>2, <2>3, <2>4
    <2>6. ASSUME NEW id \in DOMAIN old \ DOMAIN new PROVE Purgeable(old[id], clock)
      <3>1. id \in DOMAIN db.rows /\ Expired(db.rows[id], tx.op.at) /\ db.rows[id] \in Row
        BY <1>0, <1>1, <2>5 DEF ExpiredIds, IsDb
      <3>2. old[id].status = db.rows[id].status /\ old[id].doneAt = db.rows[id].doneAt
        <4>1. old[id] = Converted(db, id)
          BY <1>1, <3>1
        <4> HIDE DEF old
        <4> QED BY <4>1 DEF Converted
      <3>3. /\ db.rows[id].status = "deleted" /\ db.rows[id].doneAt \in Nat
            /\ db.rows[id].doneAt + PurgeAge < tx.op.at /\ PurgeAge \in Nat
        BY <3>1, RecordsAssumption DEF Expired, Row
      <3> QED BY <1>0, <2>1, <3>2, <3>3 DEF Purgeable
    <2> HIDE DEF old, new
    <2>7. new = [id \in DOMAIN new |-> old[id]]
      BY <1>2, <2>5
    <2>8. Contract!Purge
      BY <1>0, <1>2, <2>3, <2>5, <2>6, <2>7, SameWords
         DEF Contract!Purge, Contract!Recount, GetStats, old, new
    <2> QED BY <2>8 DEF Contract!CatalogNext
  <1>5. CASE tx.op \in ImportOps
    <2>1. Joined(tx.work, tx.op.todo) /\ tx.work.stats = Totals(tx.work.rows)
      BY <1>0, <1>5, KindsOfOps DEF JoinInv, Importing, Running
    <2>2. \A id \in DOMAIN db.rows : id \in DOMAIN db'.rows /\ Converted(db', id) = Converted(db, id)
      BY <1>0, <2>1 DEF Joined
    <2>3. DOMAIN old \subseteq DOMAIN new /\ \A id \in DOMAIN old : new[id] = old[id]
      BY <1>1, <1>2, <2>2
    <2>4. Contract!Import
      BY <1>0, <1>2, <2>1, <2>3, SameWords DEF Contract!Import, Contract!Recount, GetStats
    <2> QED BY <2>4 DEF Contract!CatalogNext
  <1> QED BY <1>0, <1>3, <1>4, <1>5 DEF TypeInv, TxShape, Running

(* So is each operation without a transaction that does anything.           *)
LEMMA OtherStepsShow ==
    ASSUME TypeInv, TypeInv', JoinInv, [Next]_vars, ~Commit
    PROVE  [Contract!CatalogNext]_(Contract!catalog)
  <1> DEFINE old == GetBackups(db)
             new == GetBackups(db)'
  <1>0. IsDb(db) /\ IsDb(db') /\ Rooted(db) /\ clock \in Nat
    BY DEF TypeInv, JoinInv
  <1>1. /\ DOMAIN old = DOMAIN db.rows
        /\ \A id \in DOMAIN db.rows : old[id] = Converted(db, id)
        /\ old = [id \in DOMAIN old |-> old[id]]
    BY <1>0, ShownRecords
  <1>2. /\ DOMAIN new = DOMAIN db'.rows
        /\ \A id \in DOMAIN db'.rows : new[id] = Converted(db', id)
        /\ new = [id \in DOMAIN new |-> new[id]]
    BY <1>0, ShownRecords
  <1>3. ASSUME UNCHANGED <<db, clock>> PROVE UNCHANGED (Contract!catalog)
    BY <1>3 DEF Contract!catalog
  <1>4. CASE Tick
    BY <1>0, <1>4 DEF Tick, Contract!CatalogNext, Contract!Pass
  <1>5. ASSUME NEW t \in Targets, CreateBackupMeta(t)
        PROVE  [Contract!CatalogNext]_(Contract!catalog)
    <2>1. CASE UNCHANGED db
      BY <1>3, <1>5, <2>1 DEF CreateBackupMeta, Free
    <2>2. CASE ~UNCHANGED db
      <3> DEFINE r == NewRecord(t, clock)
      <3>1. /\ r.id = IdAt(t, clock) /\ r.id \notin DOMAIN db.rows /\ r \in Record
            /\ db' = Inserted(db, r) /\ UNCHANGED clock
        BY <1>0, <1>5, <2>2, NewRecordType DEF CreateBackupMeta, Free, NewRecord
      <3> HIDE DEF r
      <3>2. /\ DOMAIN db'.rows = DOMAIN db.rows \cup {r.id} /\ db'.stats = db.stats
            /\ Converted(db', r.id) = r
            /\ \A id \in DOMAIN db.rows : Converted(db', id) = Converted(db, id)
        BY <1>0, <3>1, InsertedTables, JoinedRecords
      <3>3. /\ DOMAIN new = DOMAIN old \cup {r.id} /\ new[r.id] = r
            /\ \A id \in DOMAIN old : new[id] = old[id]
        BY <1>1, <1>2, <3>2
      <3>4. new = [id \in DOMAIN old \cup {IdAt(t, clock)} |->
                      IF id = IdAt(t, clock) THEN NewRecord(t, clock) ELSE old[id]]
        <4> HIDE DEF old, new
        <4> QED BY <1>1, <1>2, <3>1, <3>3 DEF r
      <3>5. Contract!New(t)
        BY <1>1, <3>1, <3>2, <3>4, SameWords DEF Contract!New, GetStats
      <3> QED BY <3>5 DEF Contract!CatalogNext
    <2> QED BY <2>1, <2>2
  <1>6. ASSUME NEW id, MarkBackupDeleted(id)
        PROVE  [Contract!CatalogNext]_(Contract!catalog)
    <2>1. db' = Marked(db, id) /\ UNCHANGED clock
      BY <1>6 DEF MarkBackupDeleted, Free, Marked
    <2>2. /\ DOMAIN db'.rows = DOMAIN db.rows /\ db'.paths = db.paths /\ db'.stats = db.stats
          /\ \A i \in DOMAIN db.rows :
                db'.rows[i] = IF i = id THEN Deleted(db.rows[i]) ELSE db.rows[i]
      BY <1>0, <2>1, MarkedTables
    <2>3. DOMAIN new = DOMAIN old /\ \A i \in DOMAIN old : i # id => new[i] = old[i]
      <3>1. \A i \in DOMAIN db.rows : i # id => Converted(db', i) = Converted(db, i)
        BY <2>2 DEF Converted
      <3> HIDE DEF old, new
      <3> QED BY <1>1, <1>2, <2>2, <3>1
    <2>4. CASE id \notin DOMAIN db.rows
      <3>1. new = old
        <4> HIDE DEF old, new
        <4> QED BY <1>1, <1>2, <2>3, <2>4
      <3> QED BY <2>1, <2>2, <3>1 DEF Contract!catalog, GetStats
    <2>5. CASE id \in DOMAIN db.rows
      <3>1. new[id] = Deleted(old[id])
        <4>1. db'.rows[id] = Deleted(db.rows[id]) /\ db.rows[id] \in Row
          BY <1>0, <2>2, <2>5 DEF IsDb
        <4>2. LET row == db'.rows[id]
              IN  /\ row.status = "deleted" /\ row.target = db.rows[id].target
                  /\ row.s3 = db.rows[id].s3 /\ row.size = db.rows[id].size
                  /\ row.doneAt = db.rows[id].doneAt
          BY <4>1 DEF Deleted, Row
        <4>3. Converted(db', id) = Deleted(Converted(db, id))
          BY <2>2, <4>2 DEF Converted, Deleted
        <4> QED BY <1>1, <1>2, <2>2, <2>5, <4>3
      <3>2. new = [old EXCEPT ![id] = Deleted(@)]
        <4> HIDE DEF old, new
        <4> QED BY <1>1, <1>2, <2>3, <3>1
      <3>3. Contract!Delete(id) /\ id \in DOMAIN old
        BY <1>1, <2>1, <2>2, <2>5, <3>2, SameWords DEF Contract!Delete, GetStats
      <3> QED BY <3>3 DEF Contract!CatalogNext
    <2> QED BY <2>4, <2>5
  <1>7. CASE Start \/ Connect \/ ConnectFails \/ ImportRecord \/ Crash
             \/ UpdateRow \/ ClearChildren \/ InsertChildren \/ CountExpired \/ DeleteExpired
             \/ updateStats \/ StatementFails \/ PurgeDeletedBackups
    <2>1. UNCHANGED <<db, clock>>
      BY <1>7 DEF Start, Connect, ConnectFails, ImportRecord, Crash, UpdateRow, ClearChildren,
           InsertChildren, CountExpired, DeleteExpired, updateStats, StatementFails,
           PurgeDeletedBackups, Begin, Advance, Rollback, Finish
    <2> QED BY <1>3, <2>1
  <1>8. ASSUME NEW id, NEW status, NEW size,
               UpdateBackupStatus(id, status, size) \/ UpdateS3UploadStatus(id, status)
        PROVE  [Contract!CatalogNext]_(Contract!catalog)
    BY <1>3, <1>8 DEF UpdateBackupStatus, UpdateS3UploadStatus, Begin
  <1>9. CASE UNCHANGED vars
    BY <1>3, <1>9 DEF vars
  <1> QED BY <1>4, <1>5, <1>6, <1>7, <1>8, <1>9 DEF Next

(* Tables, transactions of several statements, failures in their middle and *)
(* crashes implement the catalogue that is edited one entry at a time.      *)
THEOREM CatalogIsImplemented == Spec => ImplementsCatalog
<1>1. Init => Contract!CatalogInit
  <2>1. GetBackups(NoTables) = EmptyLog
    BY DEF GetBackups, NoTables, EmptyLog
  <2>2. NoTables.stats = Totals(EmptyLog)
    BY DEF NoTables
  <2> QED BY <2>1, <2>2, SameWords DEF Init, Contract!CatalogInit, GetStats
<1>2. TypeInv /\ TypeInv' /\ WorkInv /\ JoinInv /\ [Next]_vars =>
          [Contract!CatalogNext]_(Contract!catalog)
  BY CommitIsOneStep, OtherStepsShow
<1> QED
  BY <1>1, <1>2, TypeInvariant, WorkInvariant, JoinInvariant, PTL
     DEF Spec, ImplementsCatalog, Contract!CatalogSpec

(* A migration that commits leaves no identifier of metadata.json behind,   *)
(* and what it adds is the first record of the file with that identifier.   *)
THEOREM MigrationLosesNothing == Spec => MigrationKeepsHistory
<1>1. TypeInv /\ TypeInv' /\ JoinInv /\ [Next]_vars =>
          [(phase = "importing" /\ Running("commit") /\ db' = tx.work) =>
              \A n \in DOMAIN file.log :
                 LET id == file.log[n].id
                 IN  /\ id \in DOMAIN db'.rows
                     /\ (id \notin DOMAIN db.rows /\ IsFirst(file.log, id, n)) =>
                           GetBackups(db')[id] = file.log[n]]_vars
  <2> SUFFICES ASSUME TypeInv, TypeInv', JoinInv,
                      phase = "importing", Running("commit"), db' = tx.work,
                      NEW n \in DOMAIN file.log
               PROVE  LET id == file.log[n].id
                      IN  /\ id \in DOMAIN db'.rows
                          /\ (id \notin DOMAIN db.rows /\ IsFirst(file.log, id, n)) =>
                                GetBackups(db')[id] = file.log[n]
    OBVIOUS
  <2>1. tx.op \in ImportOps
    BY DEF TypeInv, TxShape, Running
  <2>2. Joined(tx.work, tx.op.todo) /\ tx.op.todo = {}
    BY <2>1, KindsOfOps DEF JoinInv, Importing, Running
  <2>3. IsDb(db')
    BY DEF TypeInv
  <2>4. \A id \in DOMAIN db'.rows : GetBackups(db')[id] = Converted(db', id)
    BY <2>3, ShownRecords
  <2> QED BY <2>2, <2>4 DEF Joined
<1> QED BY <1>1, TypeInvariant, JoinInvariant, PTL DEF Spec, MigrationKeepsHistory

-------------------------------------------------------------------------------
(* A metadata.json whose backups have the local paths of their outcomes, as *)
(* those do that were saved while local backups were enabled; it is only    *)
(* imported while they are.                                                 *)
HistoryHasPaths ==
    \A f \in LegacyFiles : \A n \in DOMAIN f.log :
        f.log[n].status # "deleted" => f.log[n].paths = LocalPaths(f.log[n].status)

(* The children of one row are those of its outcomes.                       *)
Follows(d, id) ==
    /\ Children(d.keys, id) = KeysFor(d.rows[id].s3)
    /\ d.rows[id].status # "deleted" => Children(d.paths, id) = LocalPaths(d.rows[id].status)

FollowInv ==
    /\ \A id \in DOMAIN db.rows : Follows(db, id)
    /\ Importing => \A id \in DOMAIN tx.work.rows : Follows(tx.work, id)

(* A record that joins brings its children.                                 *)
LEMMA JoinedFollow ==
    ASSUME NEW d, IsDb(d), Rooted(d), NEW r \in Record, r.id \notin DOMAIN d.rows,
           \A id \in DOMAIN d.rows : Follows(d, id),
           r.status # "deleted" => r.paths = LocalPaths(r.status)
    PROVE  \A id \in DOMAIN Inserted(d, r).rows : Follows(Inserted(d, r), id)
  <1> DEFINE new == Inserted(d, r)
  <1>1. /\ DOMAIN new.rows = DOMAIN d.rows \cup {r.id} /\ new.rows[r.id] = RowOf(r)
        /\ \A id \in DOMAIN d.rows : id # r.id => new.rows[id] = d.rows[id]
    BY InsertedTables
  <1>2. /\ Converted(new, r.id) = r /\ Children(new.keys, r.id) = KeysFor(r.s3)
        /\ \A id \in DOMAIN d.rows : /\ Converted(new, id) = Converted(d, id)
                                     /\ Children(new.keys, id) = Children(d.keys, id)
    BY JoinedRecords
  <1> HIDE DEF new
  <1>3. \A e, id : Converted(e, id).paths = Children(e.paths, id)
    BY DEF Converted
  <1>4. RowOf(r).status = r.status /\ RowOf(r).s3 = r.s3
    BY DEF RowOf
  <1>5. Follows(new, r.id)
    BY <1>1, <1>2, <1>3, <1>4 DEF Follows
  <1>6. ASSUME NEW id \in DOMAIN d.rows PROVE Follows(new, id)
    <2>1. id # r.id /\ new.rows[id] = d.rows[id] /\ Follows(d, id)
      BY <1>1
    <2>2. Children(new.paths, id) = Children(d.paths, id)
      BY <1>2, <1>3
    <2> QED BY <1>2, <2>1, <2>2 DEF Follows
  <1> QED BY <1>1, <1>5, <1>6 DEF new

(* What is about to be committed follows.                                   *)
LEMMA CommitFollows ==
    ASSUME TypeInv, WorkInv, FollowInv, Running("commit")
    PROVE  \A id \in DOMAIN tx.work.rows : Follows(tx.work, id)
  <1>1. IsDb(db) /\ \A id \in DOMAIN db.rows : Follows(db, id)
    BY DEF TypeInv, FollowInv
  <1>2. CASE tx.op \in StatusOps \cup UploadOps
    <2> DEFINE op == tx.op
               new == EditOf(db, op)
    <2>1. /\ tx.work = Recounted(new)
          /\ op.children = IF op.kind = "status" THEN LocalPaths(op.status) ELSE KeysFor(op.status)
      BY <1>2, KindsOfOps DEF WorkInv, EditProgress, Running
    <2>2. /\ IsDb(new) /\ DOMAIN new.rows = DOMAIN db.rows
          /\ \A id \in DOMAIN db.rows :
                new.rows[id] = IF id = op.id THEN Edited(db.rows[id], op) ELSE db.rows[id]
      BY <1>1, <1>2, EditedTables
    <2>3. /\ \A id : Children(new.paths, id) = IF op.kind = "status" /\ id = op.id THEN op.children
                                                ELSE Children(db.paths, id)
          /\ \A id : Children(new.keys, id) = IF op.kind # "status" /\ id = op.id THEN op.children
                                               ELSE Children(db.keys, id)
      BY <1>1, <1>2, EditedTables
    <2>4. tx.work.rows = new.rows /\ tx.work.paths = new.paths /\ tx.work.keys = new.keys
      BY <2>1, <2>2, RecountedTables
    <2> HIDE DEF new
    <2>5. ASSUME NEW id \in DOMAIN db.rows PROVE Follows(new, id)
      <3>1. db.rows[id] \in Row /\ Follows(db, id)
        BY <1>1 DEF IsDb
      <3>2. CASE id # op.id
        <4>1. new.rows[id] = db.rows[id]
          BY <2>2, <3>2
        <4> QED BY <2>3, <3>1, <3>2, <4>1 DEF Follows
      <3>3. CASE id = op.id /\ op.kind = "status"
        <4>1. new.rows[id].status = op.status /\ new.rows[id].s3 = db.rows[id].s3
          BY <2>2, <3>1, <3>3 DEF Edited, Row
        <4> QED BY <2>1, <2>3, <3>1, <3>3, <4>1 DEF Follows
      <3>4. CASE id = op.id /\ op.kind # "status"
        <4>1. new.rows[id].status = db.rows[id].status /\ new.rows[id].s3 = op.status
          BY <2>2, <3>1, <3>4 DEF Edited, Row
        <4> QED BY <2>1, <2>3, <3>1, <3>4, <4>1 DEF Follows
      <3> QED BY <3>2, <3>3, <3>4
    <2> QED BY <2>2, <2>4, <2>5 DEF Follows
  <1>3. CASE tx.op \in PurgeOps
    <2> DEFINE gone == ExpiredIds(db, tx.op.at)
               new == PurgeOf(db, tx.op)
    <2>1. tx.work = Recounted(new)
      BY <1>3, KindsOfOps DEF WorkInv, PurgeProgress, Running
    <2>2. /\ IsDb(new) /\ DOMAIN new.rows = DOMAIN db.rows \ gone
          /\ \A id \in DOMAIN db.rows \ gone :
                /\ new.rows[id] = db.rows[id]
                /\ Converted(new, id) = Converted(db, id)
                /\ Children(new.keys, id) = Children(db.keys, id)
      BY <1>1, RemovedTables, PurgedTables DEF PurgeOf
    <2>3. tx.work.rows = new.rows /\ tx.work.paths = new.paths /\ tx.work.keys = new.keys
      BY <2>1, <2>2, RecountedTables
    <2> HIDE DEF new
    <2>4. \A e, id : Converted(e, id).paths = Children(e.paths, id)
      BY DEF Converted
    <2>5. ASSUME NEW id \in DOMAIN db.rows \ gone PROVE Follows(new, id)
      <3>1. Children(new.paths, id) = Children(db.paths, id)
        BY <2>2, <2>4
      <3> QED BY <1>1, <2>2, <3>1 DEF Follows
    <2> QED BY <2>2, <2>3, <2>5 DEF Follows
  <1>4. CASE tx.op \in ImportOps
    BY <1>4, KindsOfOps DEF FollowInv, Importing, Running
  <1> QED BY <1>2, <1>3, <1>4 DEF TypeInv, TxShape, Running

(* Every step keeps the children of a row those of its outcome.             *)
LEMMA FollowStep ==
    HistoryHasPaths /\ TypeInv /\ WorkInv /\ JoinInv /\ FollowInv /\ [Next]_vars => FollowInv'
  <1> SUFFICES ASSUME HistoryHasPaths, TypeInv, WorkInv, JoinInv, FollowInv, [Next]_vars
               PROVE  FollowInv'
    OBVIOUS
  <1>1. IsDb(db) /\ Rooted(db) /\ \A id \in DOMAIN db.rows : Follows(db, id)
    BY DEF TypeInv, JoinInv, FollowInv
  <1>2. ASSUME \A id \in DOMAIN db'.rows : Follows(db', id), ~Importing' PROVE FollowInv'
    BY <1>2 DEF FollowInv
  <1>3. ASSUME UNCHANGED <<tx, db>> PROVE FollowInv'
    BY <1>3 DEF FollowInv, Importing
  <1>4. CASE Start \/ Connect \/ ConnectFails
    <2>1. UNCHANGED db
      BY <1>4 DEF Start, Connect, ConnectFails
    <2>2. CASE UNCHANGED tx
      BY <1>3, <2>1, <2>2
    <2>3. CASE ~UNCHANGED tx
      <3>1. tx' = [op |-> [kind |-> "import", todo |-> DOMAIN file.log], stage |-> "import", work |-> db]
        BY <1>4, <2>3 DEF Start, Connect, ConnectFails
      <3>2. tx'.work = db
        BY <3>1
      <3> QED BY <1>1, <2>1, <3>2 DEF FollowInv
    <2> QED BY <2>2, <2>3
  <1>5. CASE ImportRecord
    <2>1. /\ ~Running("none") /\ tx.op \in ImportOps /\ Running("import") /\ IsDb(tx.work)
          /\ tx.op.todo \subseteq DOMAIN file.log /\ UNCHANGED db
      BY <1>5, KindsOfOps DEF ImportRecord, Advance, Running, TypeInv, TxShape
    <2>2. Rooted(tx.work) /\ \A id \in DOMAIN tx.work.rows : Follows(tx.work, id)
      BY <2>1, KindsOfOps DEF JoinInv, FollowInv, Importing, Joined, Running
    <2>3. CASE Advance("stats", tx.work)
      <3>1. tx'.work = tx.work
        BY <2>1, <2>3, Advances
      <3> QED BY <1>1, <2>1, <2>2, <3>1 DEF FollowInv
    <2>4. CASE ~Advance("stats", tx.work)
      <3>1. PICK n \in tx.op.todo :
                tx' = [tx EXCEPT !.op.todo = @ \ {n}, !.work = Imported(@, file.log[n])]
        BY <1>5, <2>4 DEF ImportRecord
      <3>2. tx' = [op |-> [kind |-> "import", todo |-> tx.op.todo \ {n}], stage |-> "import",
                   work |-> Imported(tx.work, file.log[n])]
        BY <2>1, <3>1, ImportAdvances
      <3>3. tx'.work = Imported(tx.work, file.log[n])
        BY <3>2
      <3>4. file.log[n] \in Record
        BY <2>1, FileIsLog
      <3>5. file.log[n].status # "deleted" => file.log[n].paths = LocalPaths(file.log[n].status)
        BY <2>1 DEF HistoryHasPaths, TypeInv
      <3>6. \A id \in DOMAIN tx'.work.rows : Follows(tx'.work, id)
        BY <2>1, <2>2, <3>3, <3>4, <3>5, JoinedFollow DEF Imported
      <3> QED BY <1>1, <2>1, <3>6 DEF FollowInv
    <2> QED BY <2>3, <2>4
  <1>6. CASE Crash \/ StatementFails
    <2>1. tx' = NoTx /\ UNCHANGED db
      BY <1>6 DEF Crash, StatementFails, Rollback, Finish
    <2> QED BY <1>1, <1>2, <2>1 DEF Importing, NoTx
  <1>7. CASE Tick \/ UNCHANGED vars
    BY <1>3, <1>7 DEF Tick, vars
  <1>8. CASE UpdateRow \/ ClearChildren \/ InsertChildren \/ CountExpired \/ DeleteExpired
    <2>1. UNCHANGED db /\ ~Importing'
      <3>1. /\ ~Running("none") /\ tx.op.kind # "import" /\ UNCHANGED db
            /\ tx = [op |-> tx.op, stage |-> tx.stage, work |-> tx.work]
        BY <1>8, KindsOfOps DEF UpdateRow, ClearChildren, InsertChildren, CountExpired, DeleteExpired,
             Advance, Rollback, Running, TypeInv, TxShape
      <3>2. tx' = NoTx \/ \E stage, work : tx' = [tx EXCEPT !.stage = stage, !.work = work]
        BY <1>8 DEF UpdateRow, ClearChildren, InsertChildren, CountExpired, DeleteExpired,
             Advance, Rollback, Finish
      <3>3. CASE tx' = NoTx
        BY <3>1, <3>3 DEF Importing, NoTx
      <3>4. ASSUME NEW stage, NEW work, tx' = [tx EXCEPT !.stage = stage, !.work = work]
            PROVE  ~Importing'
        <4>1. tx'.op = tx.op
          BY <3>1, <3>4
        <4> QED BY <3>1, <4>1 DEF Importing
      <3> QED BY <3>1, <3>2, <3>3, <3>4
    <2> QED BY <1>1, <1>2, <2>1
  <1>9. CASE updateStats
    <2>1. ~Running("none") /\ Running("stats") /\ IsDb(tx.work)
      BY <1>9 DEF updateStats, Running, TypeInv, TxShape
    <2>2. Advance("commit", Recounted(tx.work))
      BY <1>9 DEF updateStats, Recounted
    <2>3. tx'.op = tx.op /\ tx'.work = Recounted(tx.work) /\ UNCHANGED db
      BY <2>1, <2>2, Advances
    <2>4. /\ tx'.work.rows = tx.work.rows /\ tx'.work.paths = tx.work.paths
          /\ tx'.work.keys = tx.work.keys
      BY <2>1, <2>3, RecountedTables
    <2>5. Importing' => \A id \in DOMAIN tx.work.rows : Follows(tx.work, id)
      BY <2>1, <2>3 DEF FollowInv, Importing, Running
    <2>6. Importing' => \A id \in DOMAIN tx'.work.rows : Follows(tx'.work, id)
      BY <2>4, <2>5 DEF Follows
    <2> QED BY <1>1, <2>3, <2>6 DEF FollowInv
  <1>10. CASE Commit
    <2>1. tx' = NoTx /\ db' = tx.work /\ Running("commit")
      BY <1>10 DEF Commit, Finish
    <2>2. \A id \in DOMAIN db'.rows : Follows(db', id)
      BY <2>1, CommitFollows
    <2> QED BY <1>2, <2>1, <2>2 DEF Importing, NoTx
  <1>11. ASSUME NEW stage, NEW op, Begin(stage, op), op.kind # "import" PROVE FollowInv'
    <2>1. tx' = [op |-> op, stage |-> stage, work |-> db] /\ UNCHANGED db
      BY <1>11 DEF Begin
    <2>2. tx'.op = op
      BY <2>1
    <2> QED BY <1>1, <1>2, <1>11, <2>1, <2>2 DEF Importing
  <1>12. CASE PurgeDeletedBackups
    BY <1>11, <1>12 DEF PurgeDeletedBackups
  <1>13. ASSUME NEW id, NEW status, NEW size,
                UpdateBackupStatus(id, status, size) \/ UpdateS3UploadStatus(id, status)
         PROVE  FollowInv'
    BY <1>11, <1>13 DEF UpdateBackupStatus, UpdateS3UploadStatus
  <1>14. ASSUME NEW t \in Targets, CreateBackupMeta(t) PROVE FollowInv'
    <2>1. tx.stage = "none" /\ UNCHANGED tx
      BY <1>14 DEF CreateBackupMeta, Free, Running
    <2>2. \/ UNCHANGED db
          \/ db' = Inserted(db, NewRecord(t, clock)) /\ IdAt(t, clock) \notin DOMAIN db.rows
      BY <1>14 DEF CreateBackupMeta
    <2>3. /\ NewRecord(t, clock) \in Record /\ NewRecord(t, clock).id = IdAt(t, clock)
          /\ NewRecord(t, clock).paths = LocalPaths(NewRecord(t, clock).status)
      BY NewRecordType DEF TypeInv, NewRecord, LocalPaths
    <2>4. \A id \in DOMAIN db'.rows : Follows(db', id)
      BY <1>1, <2>2, <2>3, JoinedFollow
    <2> QED BY <1>2, <2>1, <2>4 DEF Importing
  <1>15. ASSUME NEW id, MarkBackupDeleted(id) PROVE FollowInv'
    <2>1. tx.stage = "none" /\ UNCHANGED tx /\ db' = Marked(db, id)
      BY <1>15 DEF MarkBackupDeleted, Free, Running, Marked
    <2>2. /\ DOMAIN db'.rows = DOMAIN db.rows /\ db'.paths = db.paths /\ db'.keys = db.keys
          /\ \A i \in DOMAIN db.rows :
                db'.rows[i] = IF i = id THEN Deleted(db.rows[i]) ELSE db.rows[i]
      BY <1>1, <2>1, MarkedTables
    <2>3. \A i \in DOMAIN db.rows : /\ db'.rows[i].s3 = db.rows[i].s3
                                   /\ db'.rows[i].status \in {"deleted", db.rows[i].status}
      BY <1>1, <2>2 DEF IsDb, Row, Deleted
    <2>4. \A i \in DOMAIN db'.rows : Follows(db', i)
      BY <1>1, <2>2, <2>3 DEF Follows
    <2> QED BY <1>2, <2>1, <2>4 DEF Importing
  <1> QED
    BY <1>4, <1>5, <1>6, <1>7, <1>8, <1>9, <1>10, <1>12, <1>13, <1>14, <1>15 DEF Next

(* No path or key outlives its backup; a backup has keys exactly when its   *)
(* upload succeeded, and paths only if it did, however its outcomes, the    *)
(* failures of statements and the crashes interleave.                       *)
THEOREM ChildrenAreTheRows == HistoryHasPaths => (Spec => []ChildrenFollowRows)
<1>1. Init => FollowInv
  BY DEF Init, FollowInv, Importing, NoTx, NoTables, EmptyLog
<1>2. JoinInv /\ FollowInv => ChildrenFollowRows
  BY DEF JoinInv, FollowInv, Rooted, Follows, ChildrenFollowRows
<1> SUFFICES ASSUME HistoryHasPaths PROVE Spec => []ChildrenFollowRows
  OBVIOUS
<1>3. TypeInv /\ WorkInv /\ JoinInv /\ FollowInv /\ [Next]_vars => FollowInv'
  BY FollowStep
<1> QED BY <1>1, <1>2, <1>3, TypeInvariant, WorkInvariant, JoinInvariant, PTL DEF Spec

-------------------------------------------------------------------------------
(* The totals that are stored lag behind what the rows add up to.           *)
Lags(d) ==
    LET exact == Totals(d.rows)
    IN  /\ d.stats.s3 = exact.s3
        /\ d.stats.local \in exact.local .. exact.local + DeletedSize(d.rows)

LagInv ==
    /\ IsFiniteSet(DOMAIN db.rows) /\ Lags(db)
    /\ ~Running("none") => IsFiniteSet(DOMAIN tx.work.rows)
    /\ Running("commit") => tx.work.stats = Totals(tx.work.rows)

(* The three sums over the rows of a table.                                 *)
SizesOf(rows) == [id \in DOMAIN rows |-> rows[id].size]
WithOutcome(rows, status) == {id \in DOMAIN rows : rows[id].status = status}
WithCopy(rows) == {id \in DOMAIN rows : rows[id].s3 = "success"}

(* The totals that are counted, and the sizes of what is deleted.           *)
LEMMA TotalsAreSums ==
    \A rows : /\ Totals(rows).local = SumFunctionOnSet(SizesOf(rows), WithOutcome(rows, "success"))
              /\ Totals(rows).s3 = SumFunctionOnSet(SizesOf(rows), WithCopy(rows))
              /\ DeletedSize(rows) = SumFunctionOnSet(SizesOf(rows), WithOutcome(rows, "deleted"))
  BY DEF Totals, DeletedSize, SizesOf, WithOutcome, WithCopy

(* They are natural numbers while the rows are finitely many.               *)
LEMMA SumsAreTyped ==
    ASSUME NEW d, IsDb(d), IsFiniteSet(DOMAIN d.rows)
    PROVE  /\ \A status : /\ IsFiniteSet(WithOutcome(d.rows, status))
                          /\ SumFunctionOnSet(SizesOf(d.rows), WithOutcome(d.rows, status)) \in Nat
           /\ IsFiniteSet(WithCopy(d.rows))
           /\ SumFunctionOnSet(SizesOf(d.rows), WithCopy(d.rows)) \in Nat
           /\ \A id \in DOMAIN d.rows : SizesOf(d.rows)[id] \in Nat
  <1> DEFINE sizes == SizesOf(d.rows)
  <1>1. \A id \in DOMAIN d.rows : sizes[id] \in Nat
    BY DEF IsDb, Row, SizesOf
  <1> HIDE DEF sizes
  <1>2. ASSUME NEW S \in SUBSET DOMAIN d.rows
        PROVE  IsFiniteSet(S) /\ SumFunctionOnSet(sizes, S) \in Nat
    <2>1. IsFiniteSet(S)
      BY FS_Subset
    <2> QED BY <1>1, <2>1, SumType
  <1>3. \A status : WithOutcome(d.rows, status) \in SUBSET DOMAIN d.rows
    BY DEF WithOutcome
  <1>4. WithCopy(d.rows) \in SUBSET DOMAIN d.rows
    BY DEF WithCopy
  <1> QED BY <1>1, <1>2, <1>3, <1>4 DEF sizes

(* Totals that were counted from the rows do not lag.                       *)
LEMMA CountedTotalsLag ==
    ASSUME NEW d, IsDb(d), IsFiniteSet(DOMAIN d.rows), d.stats = Totals(d.rows)
    PROVE  Lags(d)
  <1>1. Totals(d.rows).local \in Nat /\ DeletedSize(d.rows) \in Nat
    BY SumsAreTyped, TotalsAreSums
  <1> QED BY <1>1 DEF Lags

(* A backup that is marked deleted moves its size from the one sum to the   *)
(* other.                                                                   *)
LEMMA MarkedLags ==
    ASSUME NEW d, IsDb(d), IsFiniteSet(DOMAIN d.rows), Lags(d), NEW id
    PROVE  Lags(Marked(d, id))
  <1> DEFINE new == Marked(d, id)
             sizes == SizesOf(d.rows)
             kept == WithOutcome(d.rows, "success")
             gone == WithOutcome(d.rows, "deleted")
             sum(S) == SumFunctionOnSet(sizes, S)
  <1>1. /\ IsDb(new) /\ DOMAIN new.rows = DOMAIN d.rows /\ new.stats = d.stats
        /\ \A i \in DOMAIN d.rows : new.rows[i] = IF i = id THEN Deleted(d.rows[i]) ELSE d.rows[i]
    BY MarkedTables
  <1> HIDE DEF new
  <1>2. ASSUME NEW i \in DOMAIN d.rows
        PROVE  /\ new.rows[i].size = d.rows[i].size /\ new.rows[i].s3 = d.rows[i].s3
               /\ new.rows[i].status = IF i = id THEN "deleted" ELSE d.rows[i].status
    BY <1>1 DEF IsDb, Row, Deleted
  <1>3. SizesOf(new.rows) = sizes /\ WithCopy(new.rows) = WithCopy(d.rows)
    BY <1>1, <1>2 DEF SizesOf, WithCopy
  <1>4. /\ WithOutcome(new.rows, "success") = kept \ {id}
        /\ WithOutcome(new.rows, "deleted") = gone \cup ({id} \cap DOMAIN d.rows)
    BY <1>1, <1>2 DEF WithOutcome
  <1>5. /\ Totals(new.rows).s3 = Totals(d.rows).s3
        /\ Totals(d.rows).local = sum(kept) /\ Totals(new.rows).local = sum(kept \ {id})
        /\ DeletedSize(d.rows) = sum(gone)
        /\ DeletedSize(new.rows) = sum(gone \cup ({id} \cap DOMAIN d.rows))
    BY <1>3, <1>4, TotalsAreSums
  <1>6. /\ \A i \in DOMAIN d.rows : sizes[i] \in Nat
        /\ IsFiniteSet(kept) /\ IsFiniteSet(gone)
        /\ sum(kept) \in Nat /\ sum(gone) \in Nat
        /\ kept \subseteq DOMAIN d.rows /\ gone \subseteq DOMAIN d.rows /\ kept \cap gone = {}
    BY SumsAreTyped DEF WithOutcome
  <1>7. /\ sum(kept \ {id}) \in Nat /\ sum(gone \cup ({id} \cap DOMAIN d.rows)) \in Nat
        /\ IsFiniteSet(gone \cup ({id} \cap DOMAIN d.rows))
    BY <1>1, <1>3, <1>4, SumsAreTyped
  <1>8. /\ sum(kept \ {id}) <= sum(kept)
        /\ sum(kept) + sum(gone) <= sum(kept \ {id}) + sum(gone \cup ({id} \cap DOMAIN d.rows))
    <2> DEFINE more == gone \cup ({id} \cap DOMAIN d.rows)
               less == kept \ {id}
    <2>1. sum(less) \in Nat /\ sum(more) \in Nat
      BY <1>7
    <2> HIDE DEF sizes, kept, gone
    <2>2. \/ less = kept /\ more = gone
          \/ less = kept /\ id \in more /\ more \ {id} = gone
          \/ id \in kept /\ id \in more /\ more \ {id} = gone
      BY <1>6
    <2>3. ASSUME id \in kept PROVE sum(kept) = sizes[id] + sum(less)
      BY <1>6, <2>3, SumRemoves
    <2>4. ASSUME id \in more, more \ {id} = gone PROVE sum(more) = sizes[id] + sum(gone)
      <3>1. more \subseteq DOMAIN d.rows /\ IsFiniteSet(more)
        BY <1>6, <1>7
      <3> HIDE DEF more
      <3>2. sum(more) = sizes[id] + sum(more \ {id})
        BY <1>6, <2>4, <3>1, SumRemoves
      <3> QED BY <2>4, <3>2
    <2>5. id \in more => sizes[id] \in Nat
      BY <1>6
    <2> HIDE DEF sum, more, less
    <2>6. sum(less) <= sum(kept) /\ sum(kept) + sum(gone) <= sum(less) + sum(more)
      BY <1>6, <2>1, <2>2, <2>3, <2>4, <2>5
    <2> QED BY <2>6 DEF more, less
  <1>9. d.stats.s3 = Totals(d.rows).s3 /\ d.stats.local \in sum(kept) .. sum(kept) + sum(gone)
    BY <1>5 DEF Lags
  <1> HIDE DEF sum, kept, gone, sizes
  <1> QED BY <1>1, <1>5, <1>6, <1>7, <1>8, <1>9 DEF Lags, new

(* A new backup is pending and adds to no sum.                              *)
LEMMA CreatedLags ==
    ASSUME NEW d, IsDb(d), IsFiniteSet(DOMAIN d.rows), Lags(d), NEW r \in Record,
           r.id \notin DOMAIN d.rows, r.status = "pending", r.s3 = "pending"
    PROVE  Lags(Inserted(d, r))
  <1> DEFINE new == Inserted(d, r)
  <1>1. /\ IsDb(new) /\ new.stats = d.stats /\ DOMAIN new.rows = DOMAIN d.rows \cup {r.id}
        /\ new.rows[r.id] = RowOf(r)
        /\ \A id \in DOMAIN d.rows : new.rows[id] = d.rows[id]
    BY InsertedTables
  <1> HIDE DEF new
  <1>2. RowOf(r).status = "pending" /\ RowOf(r).s3 = "pending"
    BY DEF RowOf
  <1>3. /\ \A status \in {"success", "deleted"} :
              WithOutcome(new.rows, status) = WithOutcome(d.rows, status)
        /\ WithCopy(new.rows) = WithCopy(d.rows)
    BY <1>1, <1>2 DEF WithOutcome, WithCopy
  <1>4. \A id \in DOMAIN d.rows : SizesOf(new.rows)[id] = SizesOf(d.rows)[id]
    BY <1>1 DEF SizesOf
  <1>5. ASSUME NEW S \in SUBSET DOMAIN d.rows
        PROVE  SumFunctionOnSet(SizesOf(new.rows), S) = SumFunctionOnSet(SizesOf(d.rows), S)
    <2>1. IsFiniteSet(S)
      BY FS_Subset
    <2> QED BY <1>4, <2>1, SumCongruent
  <1>6. /\ \A status : WithOutcome(d.rows, status) \in SUBSET DOMAIN d.rows
        /\ WithCopy(d.rows) \in SUBSET DOMAIN d.rows
    BY DEF WithOutcome, WithCopy
  <1>7. /\ Totals(new.rows).local = Totals(d.rows).local /\ Totals(new.rows).s3 = Totals(d.rows).s3
        /\ DeletedSize(new.rows) = DeletedSize(d.rows)
    BY <1>3, <1>5, <1>6, TotalsAreSums
  <1> QED BY <1>1, <1>7 DEF Lags, new

(* The statements keep the rows finitely many, and updateStats counts them. *)
LEMMA LagStep == TypeInv /\ LagInv /\ [Next]_vars => LagInv'
  <1> SUFFICES ASSUME TypeInv, LagInv, [Next]_vars PROVE LagInv'
    OBVIOUS
  <1>1. IsDb(db) /\ IsFiniteSet(DOMAIN db.rows) /\ Lags(db)
    BY DEF TypeInv, LagInv
  <1>2. ASSUME UNCHANGED db, tx'.stage = "none" PROVE LagInv'
    BY <1>1, <1>2 DEF LagInv, Running
  <1>3. ASSUME UNCHANGED db, IsFiniteSet(DOMAIN tx'.work.rows),
               tx'.stage = "commit" => tx'.work.stats = Totals(tx'.work.rows)
        PROVE  LagInv'
    BY <1>1, <1>3 DEF LagInv, Running
  <1>4. ASSUME UNCHANGED <<tx, db>> PROVE LagInv'
    BY <1>4 DEF LagInv, Running
  <1>5. ASSUME ~Running("none"), NEW stage, NEW work, Advance(stage, work),
               IsFiniteSet(DOMAIN work.rows), stage = "commit" => work.stats = Totals(work.rows)
        PROVE  LagInv'
    <2>1. tx'.stage = stage /\ tx'.work = work /\ UNCHANGED db
      BY <1>5, Advances
    <2> QED BY <1>3, <1>5, <2>1
  <1>6. CASE Start \/ Connect \/ ConnectFails
    <2>1. UNCHANGED db
      BY <1>6 DEF Start, Connect, ConnectFails
    <2>2. CASE UNCHANGED tx
      BY <1>4, <2>1, <2>2
    <2>3. CASE ~UNCHANGED tx
      <3>1. tx' = [op |-> [kind |-> "import", todo |-> DOMAIN file.log], stage |-> "import", work |-> db]
        BY <1>6, <2>3 DEF Start, Connect, ConnectFails
      <3>2. tx'.work = db /\ tx'.stage = "import"
        BY <3>1
      <3> QED BY <1>1, <1>3, <2>1, <3>2
    <2> QED BY <2>2, <2>3
  <1>7. CASE ImportRecord
    <2>1. /\ ~Running("none") /\ tx.op \in ImportOps /\ Running("import") /\ IsDb(tx.work)
          /\ tx.op.todo \subseteq DOMAIN file.log /\ IsFiniteSet(DOMAIN tx.work.rows)
      BY <1>7, KindsOfOps DEF ImportRecord, Running, TypeInv, TxShape, LagInv
    <2>2. CASE Advance("stats", tx.work)
      BY <1>5, <2>1, <2>2
    <2>3. CASE ~Advance("stats", tx.work)
      <3>1. PICK n \in tx.op.todo :
                /\ tx' = [tx EXCEPT !.op.todo = @ \ {n}, !.work = Imported(@, file.log[n])]
                /\ UNCHANGED db
        BY <1>7, <2>3 DEF ImportRecord
      <3>2. tx' = [op |-> [kind |-> "import", todo |-> tx.op.todo \ {n}], stage |-> "import",
                   work |-> Imported(tx.work, file.log[n])]
        BY <2>1, <3>1, ImportAdvances
      <3>3. tx'.stage = "import" /\ tx'.work = Imported(tx.work, file.log[n])
        BY <3>2
      <3>4. file.log[n] \in Record
        BY <2>1, FileIsLog
      <3>5. \/ DOMAIN tx'.work.rows = DOMAIN tx.work.rows
            \/ DOMAIN tx'.work.rows = DOMAIN tx.work.rows \cup {file.log[n].id}
        BY <2>1, <3>3, <3>4, InsertedTables DEF Imported
      <3>6. IsFiniteSet(DOMAIN tx'.work.rows)
        BY <2>1, <3>5, FS_AddElement
      <3> QED BY <1>3, <3>1, <3>3, <3>6
    <2> QED BY <2>2, <2>3
  <1>8. CASE Crash \/ StatementFails
    <2>1. tx' = NoTx /\ UNCHANGED db
      BY <1>8 DEF Crash, StatementFails, Rollback, Finish
    <2> QED BY <1>2, <2>1 DEF NoTx
  <1>9. CASE Tick \/ UNCHANGED vars
    BY <1>4, <1>9 DEF Tick, vars
  <1>10. CASE UpdateRow
    <2>1. ~Running("none") /\ tx.op \in StatusOps \cup UploadOps /\ IsDb(tx.work)
          /\ IsFiniteSet(DOMAIN tx.work.rows)
      BY <1>10 DEF UpdateRow, Running, TypeInv, TxShape, LagInv
    <2>2. DOMAIN Updated(tx.work, tx.op).rows = DOMAIN tx.work.rows
      BY <2>1, UpdatedTables
    <2> QED BY <1>5, <1>10, <2>1, <2>2 DEF UpdateRow
  <1>11. CASE ClearChildren
    <2>1. ~Running("none") /\ tx.op \in StatusOps \cup UploadOps /\ IsDb(tx.work)
          /\ IsFiniteSet(DOMAIN tx.work.rows)
      BY <1>11 DEF ClearChildren, Running, TypeInv, TxShape, LagInv
    <2>2. Advance("insert", Cleared(tx.work, tx.op))
      BY <1>11 DEF ClearChildren, Cleared
    <2>3. Cleared(tx.work, tx.op).rows = tx.work.rows
      BY <2>1, ClearedTables
    <2> QED BY <1>5, <2>1, <2>2, <2>3
  <1>12. CASE InsertChildren
    <2>1. ~Running("none") /\ tx.op \in StatusOps \cup UploadOps /\ IsDb(tx.work)
          /\ IsFiniteSet(DOMAIN tx.work.rows)
      BY <1>12 DEF InsertChildren, Running, TypeInv, TxShape, LagInv
    <2>2. Rollback \/ Advance("stats", Filled(tx.work, tx.op))
      BY <1>12 DEF InsertChildren, Filled, Under
    <2>3. Filled(tx.work, tx.op).rows = tx.work.rows
      BY <2>1, FilledTables
    <2>4. CASE Rollback
      BY <1>2, <2>4 DEF Rollback, Finish, NoTx
    <2> QED BY <1>5, <2>1, <2>2, <2>3, <2>4
  <1>13. CASE CountExpired
    <2>1. ~Running("none") /\ IsFiniteSet(DOMAIN tx.work.rows)
      BY <1>13 DEF CountExpired, Running, LagInv
    <2>2. Rollback \/ Advance("delete", tx.work)
      BY <1>13 DEF CountExpired
    <2>3. CASE Rollback
      BY <1>2, <2>3 DEF Rollback, Finish, NoTx
    <2> QED BY <1>5, <2>1, <2>2, <2>3
  <1>14. CASE DeleteExpired
    <2> DEFINE ids == ExpiredIds(tx.work, tx.op.at)
    <2>1. ~Running("none") /\ IsDb(tx.work) /\ IsFiniteSet(DOMAIN tx.work.rows)
      BY <1>14 DEF DeleteExpired, Running, TypeInv, TxShape, LagInv
    <2>2. Advance("stats", Removed(tx.work, ids))
      BY <1>14 DEF DeleteExpired
    <2> HIDE DEF ids
    <2>3. DOMAIN Removed(tx.work, ids).rows = DOMAIN tx.work.rows \ ids
      BY <2>1, RemovedTables
    <2>4. IsFiniteSet(DOMAIN Removed(tx.work, ids).rows)
      BY <2>1, <2>3, FS_Subset
    <2> QED BY <1>5, <2>1, <2>2, <2>4
  <1>15. CASE updateStats
    <2>1. ~Running("none") /\ IsDb(tx.work) /\ IsFiniteSet(DOMAIN tx.work.rows)
      BY <1>15 DEF updateStats, Running, TypeInv, TxShape, LagInv
    <2>2. Advance("commit", Recounted(tx.work))
      BY <1>15 DEF updateStats, Recounted
    <2>3. /\ Recounted(tx.work).rows = tx.work.rows
          /\ Recounted(tx.work).stats = Totals(tx.work.rows)
      BY <2>1, RecountedTables
    <2> QED BY <1>5, <2>1, <2>2, <2>3
  <1>16. CASE Commit
    <2>1. tx' = NoTx /\ db' = tx.work /\ Running("commit") /\ ~Running("none")
      BY <1>16 DEF Commit, Finish, Running
    <2>2. IsDb(tx.work) /\ IsFiniteSet(DOMAIN tx.work.rows) /\ tx.work.stats = Totals(tx.work.rows)
      BY <2>1 DEF TypeInv, TxShape, LagInv, Running
    <2>3. Lags(db') /\ IsFiniteSet(DOMAIN db'.rows)
      BY <2>1, <2>2, CountedTotalsLag
    <2> QED BY <2>1, <2>3 DEF LagInv, Running, NoTx
  <1>17. ASSUME NEW stage, NEW op, Begin(stage, op), stage # "commit" PROVE LagInv'
    <2>1. tx' = [op |-> op, stage |-> stage, work |-> db] /\ UNCHANGED db
      BY <1>17 DEF Begin
    <2>2. tx'.stage = stage /\ tx'.work = db
      BY <2>1
    <2> QED BY <1>1, <1>3, <1>17, <2>1, <2>2
  <1>18. CASE PurgeDeletedBackups
    BY <1>17, <1>18 DEF PurgeDeletedBackups
  <1>19. ASSUME NEW id, NEW status, NEW size,
                UpdateBackupStatus(id, status, size) \/ UpdateS3UploadStatus(id, status)
         PROVE  LagInv'
    BY <1>17, <1>19 DEF UpdateBackupStatus, UpdateS3UploadStatus
  <1>20. ASSUME NEW t \in Targets, CreateBackupMeta(t) PROVE LagInv'
    <2>1. tx'.stage = "none"
      BY <1>20 DEF CreateBackupMeta, Free, Running
    <2>2. \/ UNCHANGED db
          \/ db' = Inserted(db, NewRecord(t, clock)) /\ IdAt(t, clock) \notin DOMAIN db.rows
      BY <1>20 DEF CreateBackupMeta
    <2>3. CASE UNCHANGED db
      BY <1>2, <2>1, <2>3
    <2>4. CASE db' = Inserted(db, NewRecord(t, clock)) /\ IdAt(t, clock) \notin DOMAIN db.rows
      <3> DEFINE r == NewRecord(t, clock)
      <3>1. r \in Record /\ r.id = IdAt(t, clock) /\ r.status = "pending" /\ r.s3 = "pending"
        BY NewRecordType DEF TypeInv, NewRecord
      <3> HIDE DEF r
      <3>2. Lags(db') /\ DOMAIN db'.rows = DOMAIN db.rows \cup {r.id}
        BY <1>1, <2>4, <3>1, CreatedLags, InsertedTables DEF r
      <3>3. IsFiniteSet(DOMAIN db'.rows)
        BY <1>1, <3>2, FS_AddElement
      <3> QED BY <2>1, <3>2, <3>3 DEF LagInv, Running
    <2> QED BY <2>2, <2>3, <2>4
  <1>21. ASSUME NEW id, MarkBackupDeleted(id) PROVE LagInv'
    <2>1. tx'.stage = "none" /\ db' = Marked(db, id)
      BY <1>21 DEF MarkBackupDeleted, Free, Running, Marked
    <2>2. Lags(db') /\ DOMAIN db'.rows = DOMAIN db.rows
      BY <1>1, <2>1, MarkedLags, MarkedTables
    <2> QED BY <1>1, <2>1, <2>2 DEF LagInv, Running
  <1> QED
    BY <1>6, <1>7, <1>8, <1>9, <1>10, <1>11, <1>12, <1>13, <1>14, <1>15, <1>16, <1>18, <1>19,
       <1>20, <1>21 DEF Next

(* The total of the uploads that GetStats shows is exact, and the local one *)
(* exceeds what GetStatsOptimized counts by deleted backups at most,        *)
(* whatever statements fail and whenever the process dies.                  *)
THEOREM TotalsOnlyLag == Spec => []TotalsLagByDeletions
<1>1. Init => LagInv
  <2> SUFFICES ASSUME Init PROVE LagInv
    OBVIOUS
  <2>1. db = NoTables /\ tx.stage = "none"
    BY DEF Init, NoTx
  <2>2. DOMAIN NoTables.rows = {} /\ NoTables.stats = Totals(NoTables.rows)
    BY DEF NoTables, EmptyLog
  <2>3. IsDb(db) /\ IsFiniteSet(DOMAIN db.rows) /\ db.stats = Totals(db.rows)
    BY <2>1, <2>2, EmptyTables, FS_EmptySet
  <2>4. Lags(db)
    BY <2>3, CountedTotalsLag
  <2> QED BY <2>1, <2>3, <2>4 DEF LagInv, Running
<1>2. LagInv => TotalsLagByDeletions
  BY DEF LagInv, Lags, TotalsLagByDeletions, GetStats, GetStatsOptimized
<1> QED BY <1>1, <1>2, LagStep, TypeInvariant, PTL DEF Spec
===============================================================================
