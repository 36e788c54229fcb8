------------------------- MODULE BackupPipeline_proofs -------------------------
(***************************************************************************)
(* Proofs about BackupPipeline, for every set of runs, every work they are *)
(* given, every configuration of the storage and every choice of faults.   *)
(***************************************************************************)
EXTENDS BackupPipeline, BackupRecords_proofs, FiniteSetTheorems

(* Lists of variables.                                                      *)
USE DEF store, flags, runVars

(* Where a run has an output file open, has a record of its own to settle,  *)
(* and has a target in hand.                                                *)
Writing == {"dump", "copy", "record", "check", "upload", "close"}
Working == {"prepare", "open"} \cup Writing
InHand == {"begin", "create", "return"} \cup Working

(* The control state of the runs.                                           *)
ControlInv ==
    /\ pc \in [Runs -> Labels]
    /\ todo \in [Runs -> Seq(Targets)]
    /\ stamp \in [Runs -> Nat]
    /\ rid \in [Runs -> Ids]
    /\ named \in [Runs -> SUBSET Organisations]
    /\ sent \in [Runs -> SUBSET Organisations]
    /\ failed \in [Runs -> SUBSET Organisations]
    /\ isTaskRunning \in BOOLEAN
    /\ retaining \in BOOLEAN
    /\ s3 \in [enabled: BOOLEAN, bucket: Buckets, client: BOOLEAN]
    /\ clock \in Nat \ {0}
    /\ \A r \in Runs : pc[r] \in InHand => todo[r] # <<>>

(* A printed target and a second make an identifier.                        *)
LEMMA IdType ==
    ASSUME NEW t \in Targets, NEW now \in Nat
    PROVE  IdAt(t, now) \in Ids
  BY RecordsAssumption DEF IdAt, Ids

(* A list of targets that is not empty, without its head.                   *)
LEMMA TailFacts ==
    ASSUME NEW s \in Seq(Targets), s # <<>>
    PROVE  /\ Head(s) = s[1] /\ Head(s) \in Targets
           /\ Tail(s) \in Seq(Targets) /\ Len(Tail(s)) = Len(s) - 1
           /\ Len(s) \in Nat \ {0}
           /\ Len(s) > 1 => Tail(s) # <<>>
           /\ \A i \in 1..Len(Tail(s)) : Tail(s)[i] = s[i + 1]
  <1>1. /\ Head(s) = s[1] /\ Head(s) \in Targets
        /\ Tail(s) \in Seq(Targets) /\ Len(Tail(s)) = Len(s) - 1
        /\ Len(s) \in Nat \ {0}
    OBVIOUS
  <1>2. ASSUME Len(s) > 1 PROVE Tail(s) # <<>>
    <2>1. Len(Tail(s)) # 0
      BY <1>1, <1>2
    <2>2. Len(<<>>) = 0
      OBVIOUS
    <2> QED BY <2>1, <2>2, Zenon
  <1>3. \A i \in 1..Len(Tail(s)) : Tail(s)[i] = s[i + 1]
    BY <1>1
  <1> QED BY <1>1, <1>2, <1>3

(* A run with a target in hand has one that is a target.                    *)
LEMMA TargetType ==
    ASSUME ControlInv, NEW r \in Runs, pc[r] \in InHand
    PROVE  /\ todo[r] \in Seq(Targets) /\ todo[r] # <<>>
           /\ Target(r) \in Targets
           /\ Len(todo[r]) \in Nat \ {0}
  BY TailFacts DEF ControlInv, Target

(* A function stays one when it is given another value at a point.          *)
LEMMA Updated ==
    ASSUME NEW S, NEW T, NEW f \in [S -> T], NEW x \in S, NEW v \in T
    PROVE  [f EXCEPT ![x] = v] \in [S -> T]
  OBVIOUS

(* No run has begun at the start.                                           *)
LEMMA InitialControl == Init => ControlInv
  <1> SUFFICES ASSUME Init PROVE ControlInv
    OBVIOUS
  <1>1. NoId \in Ids
    BY DEF NoId, Ids
  <1>2. \A r \in Runs : pc[r] \notin InHand
    BY DEF Init, InHand, Working, Writing
  <1>3. /\ sent \in [Runs -> SUBSET Organisations]
        /\ failed \in [Runs -> SUBSET Organisations]
        /\ named \in [Runs -> SUBSET Organisations]
        /\ isTaskRunning \in BOOLEAN /\ retaining \in BOOLEAN
        /\ s3 \in [enabled: BOOLEAN, bucket: Buckets, client: BOOLEAN]
    BY PipelineAssumption DEF Init
  <1>4. /\ pc \in [Runs -> Labels] /\ stamp \in [Runs -> Nat] /\ rid \in [Runs -> Ids]
        /\ todo \in [Runs -> Seq(Targets)]
        /\ clock \in Nat \ {0}
    BY <1>1, PipelineAssumption DEF Init, Labels
  <1> QED BY <1>2, <1>3, <1>4 DEF ControlInv

(* Every step keeps the control state of the runs what it is.               *)
LEMMA ControlStep == ControlInv /\ [Next]_vars => ControlInv'
  <1> SUFFICES ASSUME ControlInv, [Next]_vars PROVE ControlInv'
    OBVIOUS
  <1> USE DEF Goto, At, Labels, InHand, Working, Writing, ghosts, runVars
  <1>1. ASSUME NEW r \in Runs, Fire(r) PROVE ControlInv'
    BY <1>1 DEF Fire, ControlInv
  <1>2. ASSUME NEW r \in Runs, SkipServer(r) PROVE ControlInv'
    <2>1. PICK k \in 1..Len(todo[r]) :
              todo' = [todo EXCEPT ![r] = SubSeq(@, k + 1, Len(@))]
      BY <1>2 DEF SkipServer
    <2>2. SubSeq(todo[r], k + 1, Len(todo[r])) \in Seq(Targets)
      BY <2>1 DEF ControlInv
    <2>3. pc' = [pc EXCEPT ![r] = IF todo'[r] = <<>> THEN "end" ELSE "begin"]
      BY <1>2 DEF SkipServer
    <2> QED BY <1>2, <2>1, <2>2, <2>3 DEF SkipServer, ControlInv
  <1>3. ASSUME NEW r \in Runs, Begin(r) PROVE ControlInv'
    <2>1. S3Keys \in SUBSET Organisations
      BY DEF S3Keys
    <2>2. named' \in [Runs -> SUBSET Organisations]
      BY <1>3, <2>1 DEF Begin, ControlInv
    <2> QED BY <1>3, <2>2 DEF Begin, ControlInv
  <1>4. ASSUME NEW r \in Runs, CreateMeta(r) PROVE ControlInv'
    <2>1. IdAt(Target(r), clock) \in Ids
      BY <1>4, TargetType, IdType DEF CreateMeta, ControlInv
    <2> QED BY <1>4, <2>1 DEF CreateMeta, ControlInv
  <1>5. ASSUME NEW r \in Runs,
               Prepare(r) \/ OpenOutput(r) \/ Dump(r) \/ Copy(r) \/ RecordSuccess(r)
                   \/ CheckS3(r) \/ RecordUpload(r) \/ Close(r) \/ End(r)
        PROVE  ControlInv'
    <2>1. pc[r] \in InHand \/ End(r)
      BY <1>5 DEF Prepare, OpenOutput, Dump, Copy, RecordSuccess, CheckS3, RecordUpload, Close
    <2>2. PICK to \in Labels : pc' = [pc EXCEPT ![r] = to] /\ (to \in InHand => pc[r] \in InHand)
      BY <1>5, <2>1 DEF Prepare, OpenOutput, Dump, Copy, RecordSuccess, CheckS3, RecordUpload, Close, End,
                        Fail
    <2>3. /\ UNCHANGED <<todo, stamp, rid, named, sent, failed, s3, retaining, clock>>
          /\ isTaskRunning' \in BOOLEAN
      BY <1>5 DEF Prepare, OpenOutput, Dump, Copy, RecordSuccess, CheckS3, RecordUpload, Close, End,
                  ControlInv
    <2> QED BY <2>2, <2>3 DEF ControlInv
  <1>6. ASSUME NEW r \in Runs, NEW org \in Organisations, UploadKey(r, org) PROVE ControlInv'
    <2>1. /\ sent[r] \cup {org} \in SUBSET Organisations
          /\ failed[r] \cup {org} \in SUBSET Organisations
      BY Zenon DEF ControlInv
    <2>2. /\ sent' = sent \/ sent' = [sent EXCEPT ![r] = @ \cup {org}]
          /\ failed' = failed \/ failed' = [failed EXCEPT ![r] = @ \cup {org}]
      BY <1>6 DEF UploadKey
    <2>4. sent \in [Runs -> SUBSET Organisations] /\ failed \in [Runs -> SUBSET Organisations]
      BY DEF ControlInv
    <2>3. /\ sent' \in [Runs -> SUBSET Organisations]
          /\ failed' \in [Runs -> SUBSET Organisations]
      BY ONLY <2>1, <2>2, <2>4, Updated, r \in Runs
    <2> QED BY <1>6, <2>3 DEF UploadKey, ControlInv
  <1>7. ASSUME NEW r \in Runs, Return(r) PROVE ControlInv'
    <2>0. pc[r] \in InHand
      BY <1>7 DEF Return
    <2>1. Tail(todo[r]) \in Seq(Targets) /\ (Len(todo[r]) > 1 => Tail(todo[r]) # <<>>)
      BY <2>0, TargetType, TailFacts
    <2>2. {} \in SUBSET Organisations
      OBVIOUS
    <2>3. pc' \in [Runs -> Labels] /\ todo' \in [Runs -> Seq(Targets)]
      BY <1>7, <2>1 DEF Return, ControlInv
    <2>4. /\ sent' \in [Runs -> SUBSET Organisations]
          /\ failed' \in [Runs -> SUBSET Organisations]
          /\ named' \in [Runs -> SUBSET Organisations]
      BY <1>7, <2>2 DEF Return, ControlInv
    <2>5. \A q \in Runs : pc'[q] \in InHand => todo'[q] # <<>>
      BY <1>7, <2>1 DEF Return, ControlInv
    <2> QED BY <1>7, <2>3, <2>4, <2>5 DEF Return, ControlInv
  <1>8. ASSUME NEW id, DeleteBackup(id) PROVE ControlInv'
    BY <1>8 DEF DeleteBackup, ControlInv
  <1>9. CASE Crash
    <2>1. \A r \in Runs : pc'[r] \in {"idle", "done"}
      BY <1>9 DEF Crash
    <2>2. s3' \in [enabled: BOOLEAN, bucket: Buckets, client: BOOLEAN]
      BY <1>9, PipelineAssumption DEF Crash, AtStart, ControlInv
    <2> QED BY <1>9, <2>1, <2>2 DEF Crash, ControlInv
  <1>10. CASE Purge \/ UNCHANGED vars
    BY <1>10 DEF Purge, vars, ControlInv
  <1>11. CASE TriggerRetention \/ RetentionTask
    <2>1. isTaskRunning' \in BOOLEAN /\ retaining' \in BOOLEAN
      BY <1>11 DEF TriggerRetention, RetentionTask
    <2> QED BY <1>11, <2>1 DEF TriggerRetention, RetentionTask, ControlInv
  <1>12. CASE Tick
    BY <1>12 DEF Tick, ControlInv
  <1>15. CASE updateS3Config
    <2>1. PICK enabled \in BOOLEAN, bucket \in Buckets :
              s3' = [enabled |-> enabled, bucket |-> bucket, client |-> s3.client]
      BY <1>15 DEF updateS3Config
    <2>2. s3' \in [enabled: BOOLEAN, bucket: Buckets, client: BOOLEAN]
      BY <2>1 DEF ControlInv
    <2> QED BY <1>15, <2>2 DEF updateS3Config, ControlInv
  <1>13. CASE \E r \in Runs : Fire(r) \/ Step(r)
    BY <1>1, <1>2, <1>3, <1>4, <1>5, <1>6, <1>7, <1>13 DEF Step
  <1>14. CASE \E id \in {backups[n].id : n \in DOMAIN backups} : DeleteBackup(id)
    BY <1>8, <1>14
  <1> QED BY <1>9, <1>10, <1>11, <1>12, <1>13, <1>14, <1>15 DEF Next

(* What users, retention, the administrator and the clock do reaches no     *)
(* run, no file and none of what is known of the records.                   *)
Environment ==
    \/ Purge \/ TriggerRetention \/ RetentionTask \/ updateS3Config \/ Tick \/ UNCHANGED vars
    \/ \E id : DeleteBackup(id)

LEMMA EnvironmentSteps ==
    ASSUME Environment
    PROVE  /\ UNCHANGED <<pc, todo, stamp, rid, named, sent, failed, keys, files, objects>>
           /\ UNCHANGED <<origin, interrupted, refused, torn>>
           /\ updateS3Config \/ UNCHANGED <<s3, changes>>
  <1>1. CASE Purge \/ RetentionTask
    BY <1>1 DEF Purge, RetentionTask, ghosts
  <1>2. CASE TriggerRetention
    BY <1>2 DEF TriggerRetention, ghosts
  <1>3. CASE updateS3Config
    BY <1>3 DEF updateS3Config
  <1>4. CASE Tick \/ UNCHANGED vars
    BY <1>4 DEF Tick, vars, ghosts
  <1>5. CASE \E id : DeleteBackup(id)
    BY <1>5 DEF DeleteBackup, ghosts
  <1> QED BY <1>1, <1>2, <1>3, <1>4, <1>5 DEF Environment

(* The log it reaches by deletions and purges only.                         *)
LEMMA EnvironmentLog ==
    ASSUME Environment
    PROVE  UNCHANGED backups \/ backups' = Purged(backups, clock) \/ \E id : DeleteBackup(id)
  <1>1. CASE Purge \/ RetentionTask
    BY <1>1 DEF Purge, RetentionTask
  <1>2. CASE TriggerRetention \/ updateS3Config
    BY <1>2 DEF TriggerRetention, updateS3Config
  <1>3. CASE Tick \/ UNCHANGED vars
    BY <1>3 DEF Tick, vars
  <1>4. CASE \E id : DeleteBackup(id)
    BY <1>4
  <1> QED BY <1>1, <1>2, <1>3, <1>4 DEF Environment

(* A step is one of a run, the end of the process, or one of these.         *)
LEMMA KindsOfSteps ==
    ASSUME [Next]_vars
    PROVE  (\E r \in Runs : Fire(r) \/ Step(r)) \/ Crash \/ Environment
  BY Zenon DEF Next, Environment

-------------------------------------------------------------------------------
(* The admin server's flag.  "Never a second task" alone is not inductive:  *)
(* what keeps it is that the flag is up exactly while a task is under way,  *)
(* and that retention and a backup are never under way together.            *)
TaskInv ==
    /\ \A q, r \in Manual : Active(q) /\ Active(r) => q = r
    /\ retaining => \A r \in Manual : ~Active(r)
    /\ isTaskRunning <=> retaining \/ \E r \in Manual : Active(r)

(* A run is under way from the step that fires it to the one that ends it.  *)
LEMMA ActiveSteps ==
    ASSUME ControlInv, NEW r \in Runs, Step(r)
    PROVE  /\ UNCHANGED retaining
           /\ \A q \in Runs \ {r} : Active(q)' <=> Active(q)
           /\ Active(r)
           /\ \/ Active(r)' /\ UNCHANGED isTaskRunning
              \/ ~Active(r)' /\ End(r)
  <1> USE DEF Goto, At, Active
  <1>2. CASE SkipServer(r) \/ Begin(r) \/ CreateMeta(r) \/ Prepare(r) \/ OpenOutput(r) \/ Dump(r)
    BY <1>2 DEF SkipServer, Begin, CreateMeta, Prepare, OpenOutput, Dump, Fail, ControlInv, Labels
  <1>3. CASE Copy(r) \/ RecordSuccess(r) \/ CheckS3(r) \/ RecordUpload(r) \/ Close(r) \/ Return(r)
    BY <1>3 DEF Copy, RecordSuccess, CheckS3, RecordUpload, Close, Return, ControlInv, Labels
  <1>4. CASE \E org \in Organisations : UploadKey(r, org)
    BY <1>4 DEF UploadKey
  <1>5. CASE End(r)
    BY <1>5 DEF End, ControlInv, Labels
  <1> QED BY <1>2, <1>3, <1>4, <1>5 DEF Step

(* Every step keeps the flag up exactly while a task it was raised for goes *)
(* on.                                                                      *)
LEMMA TaskStep == ControlInv /\ TaskInv /\ [Next]_vars => TaskInv'
  <1> SUFFICES ASSUME ControlInv, TaskInv, [Next]_vars PROVE TaskInv'
    OBVIOUS
  <1> USE PipelineAssumption
  <1>1. ASSUME NEW r \in Runs, Fire(r) PROVE TaskInv'
    <2>1. /\ \A q \in Runs \ {r} : Active(q)' <=> Active(q)
          /\ ~Active(r) /\ Active(r)'
      BY <1>1 DEF Fire, At, Goto, Active, ControlInv
    <2>2. CASE r \in Manual
      <3>1. ~isTaskRunning /\ isTaskRunning' = TRUE /\ retaining' = retaining
        BY <1>1, <2>2 DEF Fire, Admitted, ControlInv
      <3>2. ~retaining /\ \A q \in Manual : ~Active(q)
        BY <3>1 DEF TaskInv
      <3> QED BY <2>1, <2>2, <3>1, <3>2, Zenon DEF TaskInv
    <2>3. CASE r \notin Manual
      <3>1. isTaskRunning' = isTaskRunning /\ retaining' = retaining
        BY <1>1, <2>3 DEF Fire, ControlInv
      <3> QED BY <2>1, <2>3, <3>1 DEF TaskInv
    <2> QED BY <2>2, <2>3
  <1>2. ASSUME NEW r \in Runs, Step(r) PROVE TaskInv'
    <2>1. CASE Active(r)' /\ UNCHANGED isTaskRunning
      BY <1>2, <2>1, ActiveSteps DEF TaskInv
    <2>2. CASE ~Active(r)' /\ End(r)
      <3>1. CASE r \in Manual
        <4>1. isTaskRunning' = FALSE
          BY <2>2, <3>1 DEF End
        <4>2. \A q \in Manual : ~Active(q)'
          BY <1>2, <2>2, <3>1, ActiveSteps DEF TaskInv
        <4>3. retaining' = FALSE
          BY <1>2, <3>1, ActiveSteps DEF TaskInv, ControlInv
        <4> QED BY <4>1, <4>2, <4>3 DEF TaskInv
      <3>2. CASE r \notin Manual
        <4>1. isTaskRunning' = isTaskRunning
          BY <2>2, <3>2 DEF End, ControlInv
        <4> QED BY <1>2, <3>2, <4>1, ActiveSteps DEF TaskInv
      <3> QED BY <3>1, <3>2
    <2> QED BY <1>2, <2>1, <2>2, ActiveSteps
  <1>3. CASE TriggerRetention
    BY <1>3 DEF TriggerRetention, TaskInv, Active, runVars
  <1>4. CASE RetentionTask
    <2>1. /\ isTaskRunning' = FALSE /\ retaining' = FALSE
          /\ \A r \in Manual : ~Active(r)'
      BY <1>4 DEF RetentionTask, TaskInv, Active, runVars
    <2> QED BY <2>1 DEF TaskInv
  <1>5. CASE Crash
    <2>1. \A r \in Runs : ~Active(r)'
      BY <1>5 DEF Crash, Active
    <2> QED BY <1>5, <2>1 DEF Crash, TaskInv
  <1>6. CASE Purge \/ updateS3Config \/ Tick \/ UNCHANGED vars \/ \E id : DeleteBackup(id)
    <2>1. UNCHANGED <<pc, isTaskRunning, retaining>>
      <3>1. CASE Purge \/ Tick \/ UNCHANGED vars
        BY <3>1 DEF Purge, Tick, vars
      <3>2. CASE updateS3Config
        BY <3>2 DEF updateS3Config
      <3>3. CASE \E id : DeleteBackup(id)
        BY <3>3 DEF DeleteBackup
      <3> QED BY <1>6, <3>1, <3>2, <3>3
    <2> QED BY <2>1 DEF TaskInv, Active
  <1> QED BY <1>1, <1>2, <1>3, <1>4, <1>5, <1>6, Zenon DEF Next

(* Counting the tasks under way.                                            *)
LEMMA AtMostOneTask == TaskInv => OneManualTask
  <1> SUFFICES ASSUME TaskInv PROVE OneManualTask
    OBVIOUS
  <1> DEFINE busy == {r \in Manual : Active(r)}
  <1>1. ManualTasks # {} <=> retaining \/ \E r \in Manual : Active(r)
    BY DEF ManualTasks
  <1>2. ManualTasks = {} \/ \E x : ManualTasks = {x}
    <2>1. CASE retaining
      BY <2>1 DEF TaskInv, ManualTasks
    <2>2. CASE ~retaining /\ \E r \in Manual : Active(r)
      <3>1. PICK r \in Manual : Active(r)
        BY <2>2
      <3>2. ManualTasks = {r}
        BY <2>2, <3>1 DEF TaskInv, ManualTasks
      <3> QED BY <3>2
    <2>3. CASE ~retaining /\ ~\E r \in Manual : Active(r)
      BY <2>3 DEF ManualTasks
    <2> QED BY <2>1, <2>2, <2>3
  <1>3. Cardinality(ManualTasks) <= 1
    <2>1. CASE ManualTasks = {}
      BY <2>1, FS_EmptySet
    <2>2. ASSUME NEW x, ManualTasks = {x} PROVE Cardinality(ManualTasks) <= 1
      <3>1. Cardinality({x}) = 1
        BY FS_Singleton
      <3> QED BY <2>2, <3>1
    <2> QED BY <1>2, <2>1, <2>2
  <1> QED BY <1>1, <1>3 DEF TaskInv, OneManualTask

(* However backups, retention and crashes interleave, the flag is up        *)
(* exactly while a task that took it is under way, and there is one at most.*)
THEOREM OneTaskAtATime == Spec => []OneManualTask
<1>1. Init => TaskInv
  BY PipelineAssumption DEF Init, TaskInv, Active
<1> QED BY <1>1, InitialControl, ControlStep, TaskStep, AtMostOneTask, PTL DEF Spec

-------------------------------------------------------------------------------
(* Which run made which record.  A run that has a record to settle holds    *)
(* its identifier, and two records of one run are of different targets in   *)
(* its list: what is left of the list tells them apart.                     *)
OriginRecord == [run: Runs, left: Nat, target: Targets, stamp: Nat,
                 named: SUBSET Organisations, made: Nat]
MadeAs(n) == IdAt(origin[n].target, origin[n].made)

Own(r, n) ==
    /\ n \in DOMAIN origin
    /\ origin[n].run = r
    /\ origin[n].left = Len(todo[r])
    /\ origin[n].target = Target(r)
    /\ origin[n].stamp = stamp[r]
    /\ origin[n].named = named[r]
    /\ MadeAs(n) = rid[r]

OriginInv ==
    /\ \E k \in Nat : DOMAIN origin = 1..k
    /\ \A n \in DOMAIN origin : origin[n] \in OriginRecord
    /\ \A n \in DOMAIN origin :
          LET r == origin[n].run
          IN  /\ pc[r] # "idle"
              /\ Len(todo[r]) <= origin[n].left
              /\ pc[r] \in {"begin", "create"} => Len(todo[r]) < origin[n].left
    /\ \A m, n \in DOMAIN origin :
          (origin[m].run = origin[n].run /\ origin[m].left = origin[n].left) => m = n
    /\ \A r \in Runs : pc[r] \in Working => \E n \in DOMAIN origin : Own(r, n)

(* The next number has not been used.                                       *)
LEMMA NextIsNew ==
    ASSUME OriginInv
    PROVE  /\ NextNumber \in Numbers /\ NextNumber \notin DOMAIN origin
           /\ \E k \in Nat : DOMAIN origin \cup {NextNumber} = 1..k
  <1>1. PICK k \in Nat : DOMAIN origin = 1..k
    BY DEF OriginInv
  <1>2. Cardinality(1..k) = k
    BY FS_Interval
  <1>3. NextNumber = k + 1
    BY <1>1, <1>2 DEF NextNumber
  <1>4. DOMAIN origin \cup {NextNumber} = 1..(k + 1)
    BY <1>1, <1>3
  <1> QED BY <1>1, <1>3, <1>4 DEF Numbers

(* A step of one run leaves the control state of the others alone.          *)
LEMMA OthersWait ==
    ASSUME ControlInv, NEW r \in Runs, Fire(r) \/ Step(r), NEW q \in Runs, q # r
    PROVE  /\ pc'[q] = pc[q] /\ todo'[q] = todo[q] /\ stamp'[q] = stamp[q]
           /\ rid'[q] = rid[q] /\ named'[q] = named[q]
           /\ sent'[q] = sent[q] /\ failed'[q] = failed[q]
  <1> USE DEF Goto, ControlInv
  <1>1. CASE Fire(r) \/ SkipServer(r) \/ Begin(r) \/ CreateMeta(r) \/ Prepare(r)
    BY <1>1 DEF Fire, SkipServer, Begin, CreateMeta, Prepare, Fail
  <1>2. CASE OpenOutput(r) \/ Dump(r) \/ Copy(r) \/ RecordSuccess(r) \/ CheckS3(r) \/ RecordUpload(r)
    BY <1>2 DEF OpenOutput, Dump, Copy, RecordSuccess, CheckS3, RecordUpload, Fail
  <1>3. CASE Close(r) \/ Return(r) \/ End(r) \/ \E org \in Organisations : UploadKey(r, org)
    BY <1>3 DEF Close, Return, End, UploadKey
  <1> QED BY <1>1, <1>2, <1>3 DEF Step

(* What a step without a new record must respect.                           *)
LEMMA OriginKept ==
    ASSUME ControlInv, ControlInv', OriginInv, UNCHANGED origin,
           \A q \in Runs :
              /\ Len(todo'[q]) <= Len(todo[q])
              /\ pc'[q] = "idle" => pc[q] = "idle"
              /\ pc'[q] \in {"begin", "create"} =>
                    \/ pc[q] \in {"idle", "begin", "create"}
                    \/ Len(todo'[q]) < Len(todo[q])
              /\ pc'[q] \in Working =>
                    /\ pc[q] \in Working
                    /\ todo'[q] = todo[q] /\ stamp'[q] = stamp[q] /\ rid'[q] = rid[q]
                    /\ named'[q] = named[q]
    PROVE  OriginInv'
  <1>1. \A q \in Runs : Len(todo[q]) \in Nat /\ Len(todo'[q]) \in Nat
    BY DEF ControlInv
  <1>2. ASSUME NEW n \in DOMAIN origin
        PROVE  /\ pc'[origin[n].run] # "idle"
               /\ Len(todo'[origin[n].run]) <= origin[n].left
               /\ pc'[origin[n].run] \in {"begin", "create"}
                     => Len(todo'[origin[n].run]) < origin[n].left
    <2>1. origin[n].run \in Runs /\ origin[n].left \in Nat
      BY DEF OriginInv, OriginRecord
    <2>2. /\ pc[origin[n].run] # "idle"
          /\ Len(todo[origin[n].run]) <= origin[n].left
          /\ pc[origin[n].run] \in {"begin", "create"}
                => Len(todo[origin[n].run]) < origin[n].left
      BY DEF OriginInv
    <2> QED BY <1>1, <2>1, <2>2
  <1>3. ASSUME NEW q \in Runs, pc'[q] \in Working PROVE \E n \in DOMAIN origin : Own(q, n)'
    <2>1. PICK n \in DOMAIN origin : Own(q, n)
      BY <1>3 DEF OriginInv
    <2> QED BY <1>3, <2>1 DEF Own, Target, MadeAs
  <1> QED BY <1>2, <1>3 DEF OriginInv

(* Every step keeps the ghosts of the records in line with the runs.        *)
LEMMA OriginStep == ControlInv /\ OriginInv /\ [Next]_vars => OriginInv'
  <1> SUFFICES ASSUME ControlInv, OriginInv, [Next]_vars PROVE OriginInv'
    OBVIOUS
  <1> USE DEF Goto, At
  <1>0. ControlInv'
    BY ControlStep
  <1>1. \A q \in Runs : Len(todo[q]) \in Nat
    BY DEF ControlInv
  <1>2. ASSUME NEW r \in Runs, Fire(r) \/ Step(r), UNCHANGED origin,
               /\ Len(todo'[r]) <= Len(todo[r])
               /\ pc'[r] # "idle"
               /\ pc'[r] \in {"begin", "create"} =>
                     \/ pc[r] \in {"idle", "begin", "create"}
                     \/ Len(todo'[r]) < Len(todo[r])
               /\ pc'[r] \in Working =>
                     /\ pc[r] \in Working
                     /\ todo'[r] = todo[r] /\ stamp'[r] = stamp[r] /\ rid'[r] = rid[r]
                     /\ named'[r] = named[r]
        PROVE  OriginInv'
    <2>1. ASSUME NEW q \in Runs
          PROVE  /\ Len(todo'[q]) <= Len(todo[q])
                 /\ pc'[q] = "idle" => pc[q] = "idle"
                 /\ pc'[q] \in {"begin", "create"} =>
                       \/ pc[q] \in {"idle", "begin", "create"}
                       \/ Len(todo'[q]) < Len(todo[q])
                 /\ pc'[q] \in Working =>
                       /\ pc[q] \in Working
                       /\ todo'[q] = todo[q] /\ stamp'[q] = stamp[q] /\ rid'[q] = rid[q]
                    /\ named'[q] = named[q]
      BY <1>1, <1>2, OthersWait
    <2> QED BY <1>0, <1>2, <2>1, OriginKept
  <1>3. ASSUME NEW r \in Runs, Fire(r) \/ Begin(r) \/ End(r) PROVE OriginInv'
    <2>1. /\ UNCHANGED <<origin, todo>>
          /\ pc'[r] \in {"begin", "create", "end", "done"}
          /\ pc'[r] = "begin" => pc[r] = "idle"
          /\ pc'[r] = "create" => pc[r] = "begin"
      BY <1>3 DEF Fire, Begin, End, ghosts, ControlInv
    <2> QED BY <1>1, <1>2, <1>3, <2>1 DEF Working, Writing, Step
  <1>4. ASSUME NEW r \in Runs, SkipServer(r) PROVE OriginInv'
    <2>1. PICK k \in 1..Len(todo[r]) :
              todo' = [todo EXCEPT ![r] = SubSeq(@, k + 1, Len(@))]
      BY <1>4 DEF SkipServer
    <2>2. Len(todo'[r]) <= Len(todo[r])
      BY <2>1 DEF ControlInv
    <2>3. UNCHANGED origin /\ pc[r] = "begin" /\ pc'[r] \in {"begin", "end"}
      BY <1>4 DEF SkipServer, ghosts, ControlInv
    <2> QED BY <1>2, <1>4, <2>2, <2>3 DEF Working, Writing, Step
  <1>5. ASSUME NEW r \in Runs, Return(r) PROVE OriginInv'
    <2>1. todo[r] \in Seq(Targets) /\ todo[r] # <<>>
      BY <1>5, TargetType DEF Return, InHand
    <2>2. Len(todo'[r]) = Len(todo[r]) - 1
      BY <1>5, <2>1, TailFacts DEF Return, ControlInv
    <2>3. UNCHANGED origin /\ pc'[r] \in {"begin", "end"}
      BY <1>5 DEF Return, ghosts, ControlInv
    <2> QED BY <1>1, <1>2, <1>5, <2>2, <2>3 DEF Working, Writing, Step
  <1>6. ASSUME NEW r \in Runs,
               \/ Prepare(r) \/ OpenOutput(r) \/ Dump(r) \/ Copy(r) \/ RecordSuccess(r)
               \/ CheckS3(r) \/ RecordUpload(r) \/ Close(r)
               \/ \E org \in Organisations : UploadKey(r, org)
        PROVE OriginInv'
    <2>1. /\ UNCHANGED <<origin, todo, stamp, rid, named>>
          /\ pc[r] \in Working
          /\ pc'[r] \in Working \cup {"return"}
      BY <1>6 DEF Prepare, OpenOutput, Dump, Copy, RecordSuccess, CheckS3, RecordUpload, Close, UploadKey,
                  Fail, ghosts, ControlInv, Working, Writing
    <2> QED BY <1>1, <1>2, <1>6, <2>1 DEF Working, Writing, Step
  <1>7. ASSUME NEW r \in Runs, CreateMeta(r) PROVE OriginInv'
    <2>0. PICK new \in Numbers : new = NextNumber
      BY NextIsNew
    <2> DEFINE made == [run |-> r, left |-> Len(todo[r]), target |-> Target(r),
                        stamp |-> stamp[r], named |-> named[r], made |-> clock]
    <2>1. /\ DOMAIN origin' = DOMAIN origin \cup {new} /\ origin'[new] = made
          /\ \A n \in DOMAIN origin : n # new /\ origin'[n] = origin[n]
      BY <1>7, <2>0, NextIsNew DEF CreateMeta, Put
    <2>2. /\ UNCHANGED <<todo, stamp, named>> /\ pc[r] = "create" /\ pc'[r] = "prepare"
          /\ rid'[r] = IdAt(Target(r), clock)
          /\ \A q \in Runs \ {r} : pc'[q] = pc[q] /\ rid'[q] = rid[q]
      BY <1>7 DEF CreateMeta, ControlInv
    <2>3. made \in OriginRecord
      BY <1>1, <2>2, TargetType DEF ControlInv, OriginRecord, InHand
    <2>4. \A n \in DOMAIN origin : origin[n] \in OriginRecord /\ origin[n].left \in Nat
      BY DEF OriginInv, OriginRecord
    <2>5. \A n \in DOMAIN origin :
             /\ pc[origin[n].run] # "idle"
             /\ Len(todo[origin[n].run]) <= origin[n].left
             /\ origin[n].run = r => Len(todo[r]) < origin[n].left
      BY <2>2 DEF OriginInv
    <2>6. \E k \in Nat : DOMAIN origin' = 1..k
      BY <2>0, <2>1, NextIsNew
    <2>7. \A n \in DOMAIN origin' : origin'[n] \in OriginRecord
      BY <2>1, <2>3, <2>4
    <2>8. ASSUME NEW n \in DOMAIN origin'
          PROVE  /\ pc'[origin'[n].run] # "idle"
                 /\ Len(todo'[origin'[n].run]) <= origin'[n].left
                 /\ pc'[origin'[n].run] \in {"begin", "create"}
                       => Len(todo'[origin'[n].run]) < origin'[n].left
      <3>1. CASE n = new
        BY <1>1, <2>1, <2>2, <3>1
      <3>2. CASE n \in DOMAIN origin
        <4>1. origin[n].run \in Runs /\ origin'[n] = origin[n]
          BY <2>1, <2>4, <3>2 DEF OriginRecord
        <4> QED BY <2>2, <2>5, <3>2, <4>1 DEF OriginInv
      <3> QED BY <2>1, <3>1, <3>2
    <2>9. ASSUME NEW m \in DOMAIN origin', NEW n \in DOMAIN origin',
                 origin'[m].run = origin'[n].run, origin'[m].left = origin'[n].left
          PROVE  m = n
      <3>1. CASE m = new /\ n = new
        BY <3>1
      <3>2. CASE m \in DOMAIN origin /\ n \in DOMAIN origin
        BY <2>1, <2>9, <3>2 DEF OriginInv
      <3>3. \A i \in DOMAIN origin :
                ~(origin[i].run = made.run /\ origin[i].left = made.left)
        BY <1>1, <2>4, <2>5
      <3> QED BY <2>1, <2>9, <3>1, <3>2, <3>3
    <2>10. ASSUME NEW q \in Runs, pc'[q] \in Working PROVE \E n \in DOMAIN origin' : Own(q, n)'
      <3>1. CASE q = r
        <4>1. Own(r, new)'
          BY <2>1, <2>2 DEF Own, MadeAs, Target
        <4> QED BY <2>1, <3>1, <4>1
      <3>2. CASE q # r
        <4>1. PICK n \in DOMAIN origin : Own(q, n)
          BY <2>2, <2>10, <3>2 DEF OriginInv
        <4>2. Own(q, n)'
          BY <2>1, <2>2, <3>2, <4>1 DEF Own, MadeAs, Target
        <4> QED BY <2>1, <4>2, Zenon
      <3> QED BY <3>1, <3>2
    <2> QED BY <2>6, <2>7, <2>8, <2>9, <2>10 DEF OriginInv
  <1>8. CASE Crash
    <2>1. \A q \in Runs : /\ todo'[q] = todo[q]
                          /\ pc'[q] \in {"idle", "done"}
                          /\ pc'[q] = "idle" => pc[q] = "idle"
      BY <1>8 DEF Crash
    <2>2. UNCHANGED origin
      BY <1>8 DEF Crash
    <2> QED BY <1>0, <1>1, <2>1, <2>2, OriginKept DEF Working, Writing
  <1>9. CASE \/ Purge \/ TriggerRetention \/ RetentionTask \/ updateS3Config \/ Tick \/ UNCHANGED vars
             \/ \E id : DeleteBackup(id)
    <2>1. UNCHANGED <<origin, pc, todo, stamp, rid, named>>
      BY <1>9, EnvironmentSteps DEF Environment
    <2> QED BY <1>0, <1>1, <2>1, OriginKept
  <1> QED BY <1>3, <1>4, <1>5, <1>6, <1>7, <1>8, <1>9, Zenon DEF Next, Step

-------------------------------------------------------------------------------
(* The log: its records have a maker, and who records success records all   *)
(* the local paths of the configuration with it.                            *)
RecordsInv ==
    /\ IsLog(backups)
    /\ DOMAIN backups \subseteq DOMAIN origin
    /\ \A n \in DOMAIN backups : backups[n].id = MadeAs(n)
    /\ \A n \in DOMAIN backups : backups[n].status = "success" => backups[n].paths = LocalPaths

(* The steps that reach the log.  An outcome or an upload that the store    *)
(* refuses counts as one of them.                                           *)
FailStep(r) ==
    /\ pc[r] \in {"prepare", "open", "dump"}
    /\ Step(r)
    /\ Fail(r)
    /\ UNCHANGED origin

NoteStep(r) ==
    /\ pc[r] \in {"check", "upload"}
    /\ Step(r)
    /\ UNCHANGED <<origin, objects, s3, changes>>
    /\ \E status \in {"success", "error"}, given \in SUBSET Organisations :
          /\ UpdateS3UploadStatus(r, status, given)
          /\ status = "success" => /\ pc[r] = "upload"
                                   /\ given = named[r] /\ sent[r] = named[r]

(* Asking the configuration reaches the log when no upload is noted as one  *)
(* that failed; recording the upload always does.                           *)
LEMMA NoteSteps ==
    ASSUME ControlInv, NEW r \in Runs, CheckS3(r) \/ RecordUpload(r)
    PROVE  NoteStep(r) \/ (CheckS3(r) /\ UNCHANGED store)
  <1>1. CASE CheckS3(r)
    <2>1. UNCHANGED store \/ UpdateS3UploadStatus(r, "error", {})
      BY <1>1 DEF CheckS3
    <2>2. pc[r] = "check" /\ UNCHANGED <<origin, objects, s3, changes>>
      BY <1>1 DEF CheckS3, At, ghosts
    <2>3. {} \in SUBSET Organisations
      OBVIOUS
    <2> QED BY <1>1, <2>1, <2>2, <2>3 DEF NoteStep, Step
  <1>2. CASE RecordUpload(r)
    <2>1. pc[r] = "upload" /\ UNCHANGED <<origin, objects, s3, changes>>
      BY <1>2 DEF RecordUpload, At, ghosts
    <2>2. {} \in SUBSET Organisations /\ named[r] \in SUBSET Organisations
      BY DEF ControlInv
    <2>3. \/ UpdateS3UploadStatus(r, "success", named[r]) /\ sent[r] = named[r]
          \/ UpdateS3UploadStatus(r, "error", {})
      BY <1>2 DEF RecordUpload
    <2> QED BY <1>2, <2>1, <2>2, <2>3 DEF NoteStep, Step
  <1> QED BY <1>1, <1>2

(* Of the steps of a run four kinds write records; none counts a run as     *)
(* interrupted, or forgets what was refused or torn.                        *)
LEMMA RunLogSteps ==
    ASSUME ControlInv, NEW r \in Runs, Fire(r) \/ Step(r)
    PROVE  /\ UNCHANGED interrupted /\ refused \subseteq refused' /\ torn \subseteq torn'
           /\ \/ UNCHANGED <<store, origin>>
              \/ CreateMeta(r) \/ FailStep(r) \/ RecordSuccess(r) \/ NoteStep(r)
  <1>1. CASE Prepare(r)
    BY <1>1 DEF Prepare, FailStep, Fail, UpdateBackupStatus, Step, At, ghosts
  <1>2. CASE OpenOutput(r)
    BY <1>2 DEF OpenOutput, FailStep, Fail, UpdateBackupStatus, Step, At, ghosts
  <1>3. CASE Dump(r)
    BY <1>3 DEF Dump, FailStep, Fail, UpdateBackupStatus, Step, At, ghosts
  <1>4. CASE Fire(r) \/ SkipServer(r) \/ Begin(r) \/ Copy(r) \/ Close(r) \/ Return(r) \/ End(r)
             \/ \E org \in Organisations : UploadKey(r, org)
    BY <1>4 DEF Fire, SkipServer, Begin, Copy, Close, Return, End, UploadKey, ghosts
  <1>5. CASE CreateMeta(r) \/ RecordSuccess(r)
    BY <1>5 DEF CreateMeta, RecordSuccess, UpdateBackupStatus, ghosts
  <1>6. CASE CheckS3(r) \/ RecordUpload(r)
    <2>1. UNCHANGED <<interrupted, refused, torn, origin>>
      BY <1>6 DEF CheckS3, RecordUpload, ghosts
    <2> QED BY <1>6, <2>1, NoteSteps
  <1> QED BY <1>1, <1>2, <1>3, <1>4, <1>5, <1>6 DEF Step

(* Of all steps those four, a deletion and a purge write records.           *)
LEMMA LogSteps ==
    ASSUME ControlInv, [Next]_vars
    PROVE  \/ UNCHANGED <<store, origin>>
           \/ \E r \in Runs : CreateMeta(r) \/ FailStep(r) \/ RecordSuccess(r) \/ NoteStep(r)
           \/ \E id : DeleteBackup(id)
           \/ backups' = Purged(backups, clock) /\ UNCHANGED <<runVars, keys, files, objects, ghosts>>
  <1>1. CASE Purge \/ RetentionTask
    BY <1>1 DEF Purge, RetentionTask
  <1>2. CASE TriggerRetention \/ updateS3Config
    BY <1>2 DEF TriggerRetention, updateS3Config, ghosts
  <1>3. CASE Tick \/ UNCHANGED vars
    BY <1>3 DEF Tick, vars, ghosts
  <1>4. CASE Crash
    BY <1>4 DEF Crash
  <1>5. CASE \E r \in Runs : Fire(r) \/ Step(r)
    BY <1>5, RunLogSteps
  <1>6. CASE \E id : DeleteBackup(id)
    BY <1>6
  <1> QED BY <1>1, <1>2, <1>3, <1>4, <1>5, <1>6, Zenon DEF Next

(* What recording an outcome does to the fields of a record.                *)
LEMMA SettledFields ==
    ASSUME NEW rec \in Record, NEW status, NEW paths, NEW size, NEW now
    PROVE  /\ Settled(rec, status, paths, size, now).id = rec.id
           /\ Settled(rec, status, paths, size, now).status = status
           /\ Settled(rec, status, paths, size, now).paths = paths
           /\ Settled(rec, status, paths, size, now).s3 = rec.s3
  BY DEF Settled, Record

(* Edits keep the log a log; what they do to one record is all that counts. *)
LEMMA RecordsStep == ControlInv /\ OriginInv /\ RecordsInv /\ [Next]_vars => RecordsInv'
  <1> SUFFICES ASSUME ControlInv, OriginInv, RecordsInv, [Next]_vars PROVE RecordsInv'
    OBVIOUS
  <1>0. \A n \in DOMAIN backups : backups[n] \in Record
    BY DEF RecordsInv, IsLog
  <1>1. CASE UNCHANGED backups /\ DOMAIN origin \subseteq DOMAIN origin'
             /\ \A n \in DOMAIN origin : origin'[n] = origin[n]
    <2>1. \A n \in DOMAIN backups : n \in DOMAIN origin /\ MadeAs(n)' = MadeAs(n)
      BY <1>1 DEF RecordsInv, MadeAs
    <2> QED BY <1>1, <2>1 DEF RecordsInv
  <1>2. ASSUME NEW r \in Runs, CreateMeta(r) PROVE RecordsInv'
    <2>0. PICK new \in Numbers : new = NextNumber
      BY NextIsNew
    <2>1. /\ DOMAIN origin' = DOMAIN origin \cup {new}
          /\ origin'[new].target = Target(r) /\ origin'[new].made = clock
          /\ \A n \in DOMAIN origin : n # new /\ origin'[n] = origin[n]
      BY <1>2, <2>0, NextIsNew DEF CreateMeta, Put
    <2>3. Target(r) \in Targets /\ clock \in Nat
      BY <1>2, TargetType DEF CreateMeta, At, InHand, ControlInv
    <2>7. CASE UNCHANGED backups
      BY <1>1, <2>1, <2>7
    <2> SUFFICES ASSUME backups' # backups PROVE RecordsInv'
      BY <2>7
    <2>2. backups' = WithNew(backups, new, Target(r), clock)
      BY <1>2, <2>0 DEF CreateMeta
    <2>4. IsLog(backups')
      BY <2>2, <2>3, WithNewType DEF RecordsInv
    <2>5. /\ DOMAIN backups' = DOMAIN backups \cup {new}
          /\ backups'[new] = NewRecord(Target(r), clock)
          /\ \A n \in DOMAIN backups : n # new /\ backups'[n] = backups[n]
      BY <2>1, <2>2 DEF WithNew, RecordsInv
    <2>6. backups'[new].id = IdAt(Target(r), clock) /\ backups'[new].status = "pending"
      BY <2>5 DEF NewRecord
    <2> QED BY <2>1, <2>4, <2>5, <2>6 DEF RecordsInv, MadeAs
  <1>3. ASSUME IsLog(backups'), DOMAIN backups' \subseteq DOMAIN backups, UNCHANGED origin,
               \A n \in DOMAIN backups' :
                  /\ backups'[n].id = backups[n].id
                  /\ backups'[n].status = "success" => backups'[n].paths = LocalPaths
        PROVE  RecordsInv'
    BY <1>3 DEF RecordsInv, MadeAs
  <1>4. ASSUME NEW r \in Runs, FailStep(r) PROVE RecordsInv'
    <2>0. UNCHANGED origin
      BY <1>4 DEF FailStep
    <2>1. ASSUME backups' = WithStatus(backups, rid[r], "error", {}, 0, clock) PROVE RecordsInv'
      <3>1. IsLog(backups') /\ DOMAIN backups' = DOMAIN backups
        <4>1. IsLog(WithStatus(backups, rid[r], "error", {}, 0, clock))
          BY WithStatusType DEF RecordsInv, ControlInv, Statuses
        <4> QED BY <2>1, <4>1, EditDomains
      <3>2. \A n \in DOMAIN backups :
               \/ backups'[n] = backups[n]
               \/ backups'[n] = Settled(backups[n], "error", {}, 0, clock)
        BY <2>1 DEF WithStatus, EditFirst
      <3>3. \A n \in DOMAIN backups' :
               /\ backups'[n].id = backups[n].id
               /\ backups'[n].status = "success" => backups'[n].paths = LocalPaths
        BY <1>0, <3>1, <3>2, SettledFields DEF RecordsInv
      <3> QED BY <1>3, <2>0, <3>1, <3>3
    <2>2. \/ UNCHANGED backups
          \/ backups' = WithStatus(backups, rid[r], "error", {}, 0, clock)
      BY <1>4 DEF FailStep, Fail, UpdateBackupStatus
    <2> QED BY <1>1, <2>0, <2>1, <2>2
  <1>5. ASSUME NEW r \in Runs, RecordSuccess(r) PROVE RecordsInv'
    <2>4. UNCHANGED origin
      BY <1>5 DEF RecordSuccess, ghosts
    <2>1. ASSUME NEW size \in Nat,
                 backups' = WithStatus(backups, rid[r], "success", LocalPaths, size, clock)
          PROVE  RecordsInv'
      <3>1. IsLog(backups') /\ DOMAIN backups' = DOMAIN backups
        <4>1. IsLog(WithStatus(backups, rid[r], "success", LocalPaths, size, clock))
          BY WithStatusType DEF RecordsInv, ControlInv, Statuses, LocalPaths
        <4> QED BY <2>1, <4>1, EditDomains
      <3>2. \A n \in DOMAIN backups :
               \/ backups'[n] = backups[n]
               \/ backups'[n] = Settled(backups[n], "success", LocalPaths, size, clock)
        BY <2>1 DEF WithStatus, EditFirst
      <3>3. \A n \in DOMAIN backups' :
               /\ backups'[n].id = backups[n].id
               /\ backups'[n].status = "success" => backups'[n].paths = LocalPaths
        BY <1>0, <3>1, <3>2, SettledFields DEF RecordsInv
      <3> QED BY <1>3, <2>4, <3>1, <3>3
    <2>2. \/ UNCHANGED backups
          \/ \E size \in Nat :
                backups' = WithStatus(backups, rid[r], "success", LocalPaths, size, clock)
      BY <1>5 DEF RecordSuccess, UpdateBackupStatus, SizeOf
    <2> QED BY <1>1, <2>1, <2>2, <2>4
  <1>6. ASSUME NEW r \in Runs, NoteStep(r) PROVE RecordsInv'
    <2>1. UNCHANGED origin
      BY <1>6 DEF NoteStep
    <2>2. ASSUME NEW status \in {"success", "error"}, backups' = WithUpload(backups, rid[r], status)
          PROVE  RecordsInv'
      <3>1. IsLog(backups') /\ DOMAIN backups' = DOMAIN backups
        BY <2>2, WithUploadType, EditDomains DEF RecordsInv, Statuses
      <3>2. \A n \in DOMAIN backups' :
               /\ backups'[n].id = backups[n].id
               /\ backups'[n].status = "success" => backups'[n].paths = LocalPaths
        BY <1>0, <2>2 DEF WithUpload, EditFirst, Uploaded, Record, RecordsInv
      <3> QED BY <1>3, <2>1, <3>1, <3>2
    <2>3. \/ UNCHANGED backups
          \/ \E status \in {"success", "error"} : backups' = WithUpload(backups, rid[r], status)
      BY <1>6 DEF NoteStep, UpdateS3UploadStatus
    <2> QED BY <1>1, <2>1, <2>2, <2>3
  <1>7. ASSUME NEW id, DeleteBackup(id) PROVE RecordsInv'
    <2>1. backups' = WithDeletion(backups, id) /\ UNCHANGED origin
      BY <1>7 DEF DeleteBackup, ghosts
    <2>2. IsLog(backups') /\ DOMAIN backups' = DOMAIN backups
      BY <2>1, WithDeletionType, EditDomains DEF RecordsInv
    <2>3. \A n \in DOMAIN backups' :
             /\ backups'[n].id = backups[n].id
             /\ backups'[n].status = "success" => backups'[n].paths = LocalPaths
      BY <1>0, <2>1 DEF WithDeletion, EditFirst, Deleted, Record, RecordsInv
    <2> QED BY <1>3, <2>1, <2>2, <2>3
  <1>8. CASE backups' = Purged(backups, clock) /\ UNCHANGED <<runVars, keys, files, objects, ghosts>>
    <2>1. IsLog(Purged(backups, clock))
      BY PurgedType DEF RecordsInv
    <2> QED BY <1>3, <1>8, <2>1 DEF Purged, RecordsInv, ghosts
  <1> QED BY <1>1, <1>2, <1>4, <1>5, <1>6, <1>7, <1>8, LogSteps

(* The keys that go with the records.                                       *)
KeysInv == keys \in [DOMAIN origin -> SUBSET Organisations]

(* Recording an outcome says nothing of keys, and moves no object.          *)
LEMMA OutcomeKeepsKeys ==
    ASSUME NEW r \in Runs, FailStep(r) \/ RecordSuccess(r)
    PROVE  UNCHANGED <<keys, origin, objects, s3, named, changes>>
  <1>1. CASE RecordSuccess(r)
    BY <1>1 DEF RecordSuccess
  <1>2. CASE FailStep(r)
    <2>1. pc[r] \in {"prepare", "open", "dump"} /\ Step(r)
      BY <1>2 DEF FailStep
    <2>2. Prepare(r) \/ OpenOutput(r) \/ Dump(r)
      BY <2>1 DEF Step, At, SkipServer, Begin, CreateMeta, Copy, RecordSuccess, CheckS3,
                  UploadKey, RecordUpload, Close, Return, End
    <2> QED BY <2>2 DEF Prepare, OpenOutput, Dump
  <1> QED BY <1>1, <1>2

(* A new record has no keys, and who notes an upload gives keys.            *)
LEMMA KeysStep == ControlInv /\ OriginInv /\ KeysInv /\ [Next]_vars => KeysInv'
  <1> SUFFICES ASSUME ControlInv, OriginInv, KeysInv, [Next]_vars PROVE KeysInv'
    OBVIOUS
  <1>1. CASE UNCHANGED <<keys, origin>>
    BY <1>1 DEF KeysInv
  <1>2. ASSUME NEW r \in Runs, CreateMeta(r) PROVE KeysInv'
    <2>1. PICK made : origin' = Put(origin, NextNumber, made) /\ keys' = Put(keys, NextNumber, {})
      BY <1>2 DEF CreateMeta
    <2>2. {} \in SUBSET Organisations
      OBVIOUS
    <2> QED BY <2>1, <2>2 DEF KeysInv, Put
  <1>3. ASSUME NEW r \in Runs, NoteStep(r) PROVE KeysInv'
    <2>1. PICK given \in SUBSET Organisations :
              \/ UNCHANGED keys
              \/ keys' = [n \in DOMAIN keys |->
                            IF IsFirst(backups, rid[r], n) THEN given ELSE keys[n]]
      BY <1>3 DEF NoteStep, UpdateS3UploadStatus
    <2>2. UNCHANGED origin
      BY <1>3 DEF NoteStep
    <2> QED BY <2>1, <2>2 DEF KeysInv
  <1>4. ASSUME NEW r \in Runs, FailStep(r) \/ RecordSuccess(r) PROVE UNCHANGED <<keys, origin>>
    BY <1>4, OutcomeKeepsKeys
  <1>5. ASSUME NEW id, DeleteBackup(id) PROVE UNCHANGED <<keys, origin>>
    BY <1>5 DEF DeleteBackup, ghosts
  <1>6. CASE UNCHANGED <<runVars, keys, files, objects, ghosts>>
    BY <1>1, <1>6 DEF ghosts
  <1> QED BY <1>1, <1>2, <1>3, <1>4, <1>5, <1>6, LogSteps

-------------------------------------------------------------------------------
(* The files and the objects: a run that writes has a file to write to.     *)
IsStore(f) == DOMAIN f \subseteq Places /\ f \in [DOMAIN f -> Contents]
IsBucketStore(f) == DOMAIN f \subseteq Buckets \X Places /\ f \in [DOMAIN f -> Contents]

FilesInv ==
    /\ IsStore(files)
    /\ IsBucketStore(objects)
    /\ \A r \in Runs : pc[r] \in Writing => Primary(r) \in DOMAIN files

(* Writing one place leaves the others, and a store of files a store of     *)
(* files.                                                                   *)
LEMMA PutFacts ==
    /\ \A f, key, value : DOMAIN Put(f, key, value) = DOMAIN f \cup {key}
    /\ \A f, key, value : Put(f, key, value)[key] = value
    /\ \A f, key, value : \A k \in DOMAIN f : k # key => Put(f, key, value)[k] = f[k]
    /\ \A f : IsStore(f) => \A key \in Places, value \in Contents : IsStore(Put(f, key, value))
    /\ \A f : IsBucketStore(f) => \A key \in Buckets \X Places, value \in Contents :
          IsBucketStore(Put(f, key, value))
  BY DEF Put, IsStore, IsBucketStore

(* The places a run writes to are places.                                   *)
LEMMA PlaceTypes ==
    ASSUME ControlInv, NEW r \in Runs, pc[r] \in InHand
    PROVE  /\ Primary(r) \in Places /\ ByType(r) \in Places
           /\ \A org \in Organisations : Place(Target(r), stamp[r], org) \in Places
  BY TargetType DEF ControlInv, Primary, ByType, Place, Places, Organisations

(* What is read of a content, and what is left of it at a close, are        *)
(* contents.                                                                *)
LEMMA ContentTypes ==
    ASSUME NEW c \in Contents
    PROVE  /\ AsRead(c) \in Contents
           /\ \A outcome \in Contents : Closed(c, outcome) \in Contents
  BY DEF AsRead, Closed, Contents

(* What a step must respect for the writers to keep their files.            *)
LEMMA FilesKept ==
    ASSUME FilesInv, IsStore(files'), IsBucketStore(objects'),
           \A q \in Runs : pc'[q] \in Writing =>
              /\ Primary(q) \in DOMAIN files'
              /\ todo'[q] = todo[q] /\ stamp'[q] = stamp[q]
    PROVE  FilesInv'
  BY DEF FilesInv, Primary, Target

(* Every step keeps what is known of the open files.                        *)
LEMMA FilesStep == ControlInv /\ FilesInv /\ [Next]_vars => FilesInv'
  <1> SUFFICES ASSUME ControlInv, FilesInv, [Next]_vars PROVE FilesInv'
    OBVIOUS
  <1> USE DEF Goto, At, InHand, Working, Writing
  <1>0. ASSUME NEW r \in Runs, Fire(r) \/ Step(r), IsStore(files'), IsBucketStore(objects'),
               DOMAIN files \subseteq DOMAIN files',
               pc'[r] \in Writing =>
                  /\ Primary(r) \in DOMAIN files'
                  /\ todo'[r] = todo[r] /\ stamp'[r] = stamp[r]
        PROVE  FilesInv'
    <2>1. \A q \in Runs : pc'[q] \in Writing =>
             /\ Primary(q) \in DOMAIN files'
             /\ todo'[q] = todo[q] /\ stamp'[q] = stamp[q]
      BY <1>0, OthersWait DEF FilesInv
    <2> QED BY <1>0, <2>1, FilesKept
  <1>1. ASSUME NEW r \in Runs,
               \/ Fire(r) \/ SkipServer(r) \/ Begin(r) \/ CreateMeta(r) \/ Prepare(r) \/ End(r)
        PROVE  FilesInv'
    <2>1. UNCHANGED <<files, objects>> /\ pc'[r] \notin Writing
      BY <1>1 DEF Fire, SkipServer, Begin, CreateMeta, Prepare, End, Fail, ControlInv
    <2> QED BY <1>0, <1>1, <2>1 DEF Step, FilesInv
  <1>put. ASSUME NEW key \in Places, NEW value \in Contents, files' = Put(files, key, value)
        PROVE  IsStore(files') /\ DOMAIN files' = DOMAIN files \cup {key}
    BY <1>put, PutFacts DEF FilesInv
  <1>2. ASSUME NEW r \in Runs, OpenOutput(r) PROVE FilesInv'
    <2>1. Primary(r) \in Places /\ UNCHANGED <<objects, todo, stamp>>
      BY <1>2, PlaceTypes DEF OpenOutput
    <2>2. CASE UNCHANGED files /\ Fail(r)
      <3>1. pc'[r] = "return"
        BY <2>2 DEF Fail, ControlInv
      <3> QED BY <1>0, <1>2, <2>1, <2>2, <3>1 DEF Step, FilesInv
    <2>3. ASSUME NEW value \in Contents, files' = Put(files, Primary(r), value) PROVE FilesInv'
      <3>1. IsStore(files') /\ DOMAIN files' = DOMAIN files \cup {Primary(r)}
        BY <1>put, <2>1, <2>3
      <3> QED BY <1>0, <1>2, <2>1, <3>1 DEF Step, FilesInv
    <2> QED BY <1>2, <2>2, <2>3 DEF OpenOutput, Contents
  <1>3. ASSUME NEW r \in Runs, Dump(r) \/ Close(r) PROVE FilesInv'
    <2>1. /\ Primary(r) \in Places /\ Primary(r) \in DOMAIN files
          /\ files[Primary(r)] \in Contents /\ UNCHANGED <<objects, todo, stamp>>
      BY <1>3, PlaceTypes DEF Dump, Close, FilesInv, IsStore
    <2>2. CASE UNCHANGED files
      BY <1>0, <1>3, <2>1, <2>2 DEF Step, FilesInv
    <2>3. ASSUME NEW value \in Contents, files' = Put(files, Primary(r), value) PROVE FilesInv'
      <3>1. IsStore(files') /\ DOMAIN files' = DOMAIN files
        BY <1>put, <2>1, <2>3
      <3> QED BY <1>0, <1>3, <2>1, <3>1 DEF Step, FilesInv
    <2>4. ASSUME NEW outcome \in {"failed", "whole", "cut"}
          PROVE  Closed(files[Primary(r)], outcome) \in Contents
      BY <2>1, ContentTypes DEF Contents
    <2> QED BY <1>3, <2>2, <2>3, <2>4 DEF Dump, Close
  <1>4. ASSUME NEW r \in Runs, Copy(r) PROVE FilesInv'
    <2>1. /\ ByType(r) \in Places /\ Primary(r) \in DOMAIN files
          /\ files[Primary(r)] \in Contents /\ UNCHANGED <<objects, todo, stamp>>
      BY <1>4, PlaceTypes DEF Copy, FilesInv, IsStore
    <2>2. CASE UNCHANGED files
      BY <1>0, <1>4, <2>1, <2>2 DEF Step, FilesInv
    <2>3. ASSUME NEW value \in Contents, files' = Put(files, ByType(r), value) PROVE FilesInv'
      <3>1. IsStore(files') /\ DOMAIN files \subseteq DOMAIN files'
        BY <1>put, <2>1, <2>3
      <3> QED BY <1>0, <1>4, <2>1, <3>1 DEF Step, FilesInv
    <2>4. AsRead(files[Primary(r)]) \in Contents /\ "cut" \in Contents
      BY <2>1, ContentTypes DEF Contents
    <2> QED BY <1>4, <2>2, <2>3, <2>4 DEF Copy
  <1>5. ASSUME NEW r \in Runs, NEW org \in Organisations, UploadKey(r, org) PROVE FilesInv'
    <2>1. /\ Place(Target(r), stamp[r], org) \in Places /\ Primary(r) \in DOMAIN files
          /\ files[Primary(r)] \in Contents /\ UNCHANGED <<files, pc, todo, stamp>>
      BY <1>5, PlaceTypes DEF UploadKey, FilesInv, IsStore
    <2>2. \/ UNCHANGED objects
          \/ objects' = Put(objects, ObjectAt(s3.bucket, Place(Target(r), stamp[r], org)),
                            AsRead(files[Primary(r)]))
      BY <1>5 DEF UploadKey
    <2>4. ObjectAt(s3.bucket, Place(Target(r), stamp[r], org)) \in Buckets \X Places
      BY <2>1 DEF ObjectAt, ControlInv
    <2>3. IsBucketStore(objects')
      BY <2>1, <2>2, <2>4, PutFacts, ContentTypes DEF FilesInv
    <2> QED BY <1>0, <1>5, <2>1, <2>3 DEF Step, FilesInv
  <1>6. ASSUME NEW r \in Runs, RecordSuccess(r) \/ CheckS3(r) \/ RecordUpload(r) PROVE FilesInv'
    <2>1. Primary(r) \in DOMAIN files /\ UNCHANGED <<files, objects, todo, stamp>>
      BY <1>6 DEF RecordSuccess, CheckS3, RecordUpload, FilesInv
    <2> QED BY <1>0, <1>6, <2>1 DEF Step, FilesInv
  <1>7. ASSUME NEW r \in Runs, Return(r) PROVE FilesInv'
    <2>1. UNCHANGED objects /\ pc'[r] \notin Writing
      BY <1>7 DEF Return, ControlInv
    <2>2. CASE LocalOn
      BY <1>0, <1>7, <2>1, <2>2 DEF Return, Step, FilesInv
    <2>3. CASE ~LocalOn
      <3>1. files' = Without(files, Place(r, 0, "temp"))
        BY <1>7, <2>3 DEF Return, Primary
      <3>2. IsStore(files')
        BY <3>1 DEF FilesInv, IsStore, Without
      <3>3. ASSUME NEW q \in Runs, pc'[q] \in Writing
            PROVE  /\ Primary(q) \in DOMAIN files'
                   /\ todo'[q] = todo[q] /\ stamp'[q] = stamp[q]
        <4>1. q # r
          BY <2>1, <3>3
        <4>2. pc[q] \in Writing /\ todo'[q] = todo[q] /\ stamp'[q] = stamp[q]
          BY <1>7, <3>3, <4>1, OthersWait DEF Step
        <4>3. Primary(q) \in DOMAIN files /\ Primary(q) # Place(r, 0, "temp")
          BY <2>3, <4>1, <4>2 DEF FilesInv, Primary, Place
        <4> QED BY <3>1, <4>2, <4>3 DEF Without
      <3> QED BY <2>1, <3>2, <3>3, FilesKept DEF FilesInv
    <2> QED BY <2>2, <2>3
  <1>8. CASE Crash
    <2>1. IsStore(files') /\ UNCHANGED objects
      BY <1>8, ContentTypes DEF Crash, FilesInv, IsStore
    <2>2. \A q \in Runs : pc'[q] \notin Writing
      BY <1>8 DEF Crash
    <2> QED BY <2>1, <2>2, FilesKept DEF FilesInv
  <1>9. CASE \/ Purge \/ TriggerRetention \/ RetentionTask \/ updateS3Config \/ Tick \/ UNCHANGED vars
             \/ \E id : DeleteBackup(id)
    <2>1. UNCHANGED <<files, objects, pc, todo, stamp>>
      BY <1>9, EnvironmentSteps DEF Environment
    <2> QED BY <2>1, FilesKept DEF FilesInv
  <1>10. CASE \E r \in Runs : Fire(r) \/ Step(r)
    BY <1>1, <1>2, <1>3, <1>4, <1>5, <1>6, <1>7, <1>10 DEF Step
  <1> QED BY <1>8, <1>9, <1>10, Zenon DEF Next

(* The parts together, and what they say of the shape of the state.         *)
BaseInv == ControlInv /\ OriginInv /\ RecordsInv /\ KeysInv /\ FilesInv

(* The parts that need no hypothesis about names hold throughout.           *)
LEMMA BaseInvariant == Spec => []BaseInv
<1>1. Init => BaseInv
  <2> SUFFICES ASSUME Init PROVE BaseInv
    OBVIOUS
  <2>1. /\ backups = EmptyLog /\ files = EmptyLog /\ objects = EmptyLog /\ origin = EmptyLog
        /\ keys = EmptyLog
        /\ \A r \in Runs : pc[r] \notin Working
    BY DEF Init, Working, Writing
  <2>2. DOMAIN EmptyLog = {} /\ {} = 1..0
    BY DEF EmptyLog
  <2>3. OriginInv
    BY <2>1, <2>2 DEF OriginInv
  <2>4. RecordsInv
    BY <2>1, <2>2, EmptyLogType DEF RecordsInv
  <2>5. FilesInv
    BY <2>1, <2>2 DEF FilesInv, IsStore, IsBucketStore, Working, EmptyLog
  <2>6. KeysInv
    BY <2>1, <2>2 DEF KeysInv, EmptyLog
  <2> QED BY <2>3, <2>4, <2>5, <2>6, InitialControl DEF BaseInv
<1>2. BaseInv /\ [Next]_vars => BaseInv'
  BY ControlStep, OriginStep, RecordsStep, KeysStep, FilesStep DEF BaseInv
<1> QED BY <1>1, <1>2, PTL DEF Spec

(* Runs, records, files and objects keep their shape; no run is ever at a   *)
(* step without a target, or writes to a file it does not have.             *)
THEOREM PipelineTypeCorrect == Spec => []TypeOK
<1>1. BaseInv => TypeOK
  BY DEF BaseInv, ControlInv, RecordsInv, KeysInv, FilesInv, IsStore, IsBucketStore, TypeOK
<1> QED BY <1>1, BaseInvariant, PTL

-------------------------------------------------------------------------------
(* What the records say of the backups can only be right as long as a name  *)
(* means one backup: the identifiers and the file names have the resolution *)
(* of a second, and nothing in the code keeps two backups of one name apart *)
(* within it.  TWINS are two backups that got the same identifier, or the   *)
(* same files.                                                              *)
NoTwins ==
    \A m, n \in DOMAIN origin : m # n =>
        /\ MadeAs(m) # MadeAs(n)
        /\ <<origin[m].target, origin[m].stamp>> # <<origin[n].target, origin[n].stamp>>

(* A run has sent nothing before it comes to the upload, and what it has    *)
(* sent is in one of the buckets; so is everything its record then names.   *)
Unsent == {"idle", "begin", "create", "prepare", "open", "dump", "copy", "record", "check"}
InABucket(objs, place) == \E bucket \in Buckets : ObjectAt(bucket, place) \in DOMAIN objs
CfgKeys == IF CfgS3 THEN Organisations ELSE {}

SentInv ==
    \A r \in Runs :
        /\ pc[r] \in Unsent => sent[r] = {}
        /\ pc[r] = "upload"
              => \A org \in sent[r] : InABucket(objects, Place(Target(r), stamp[r], org))

UploadedInv ==
    \A n \in DOMAIN backups : backups[n].s3 = "success" =>
        /\ keys[n] = origin[n].named
        /\ \A org \in keys[n] : InABucket(objects, FileOf(n, org))

(* While nobody changes the configuration, keys are made if and only if     *)
(* uploads are made, and all go to one bucket.                              *)
QuietInv ==
    /\ changes \in Nat
    /\ changes = 0 =>
          /\ s3 = AtStart(CfgS3, CfgBucket)
          /\ DOMAIN objects \subseteq {CfgBucket} \X Places
          /\ \A r \in Runs : /\ pc[r] = "create" => named[r] = CfgKeys
                             /\ pc[r] = "upload" => CfgS3
          /\ \A n \in DOMAIN origin : origin[n].named = CfgKeys
          /\ \A n \in DOMAIN backups : backups[n].s3 = "success" => CfgS3

(* A file under a writer is open and nobody else's, ...                     *)
OpenInv == LocalOn => \A r \in Runs : pc[r] \in Writing => files[Primary(r)] = "open"

(* ... and once success is recorded the writer is still to be closed, or    *)
(* the file is whole.                                                       *)
WholeInv ==
    LocalOn => \A n \in DOMAIN backups \ (interrupted \cup torn) : backups[n].status = "success" =>
        \/ Busy(n, {"check", "upload", "close"})
        \/ Holds(files, FileOf(n, "by-server"), "whole")

(* No record says success while its run is still on its way to an outcome.  *)
DecidedInv == \A n \in DOMAIN backups : backups[n].status = "success" => ~Undecided(n)

OutcomeParts == PendingMeansInProgress /\ UploadedInv /\ DecidedInv /\ OpenInv /\ WholeInv
OutcomeInv == SentInv /\ QuietInv /\ (NoTwins => OutcomeParts)

(* Makers are never forgotten, so twins stay twins.                         *)
LEMMA OriginGrows ==
    ASSUME BaseInv, [Next]_vars
    PROVE  /\ DOMAIN origin \subseteq DOMAIN origin'
           /\ \A n \in DOMAIN origin : origin'[n] = origin[n]
           /\ NoTwins' => NoTwins
  <1>1. CASE UNCHANGED origin
    BY <1>1 DEF NoTwins, MadeAs
  <1>2. ASSUME NEW r \in Runs, CreateMeta(r)
        PROVE  /\ DOMAIN origin \subseteq DOMAIN origin'
               /\ \A n \in DOMAIN origin : origin'[n] = origin[n]
    <2>1. NextNumber \notin DOMAIN origin
      BY NextIsNew DEF BaseInv
    <2>2. \E entry : origin' = Put(origin, NextNumber, entry)
      BY <1>2 DEF CreateMeta
    <2> QED BY <2>1, <2>2 DEF Put
  <1>3. ASSUME DOMAIN origin \subseteq DOMAIN origin', \A n \in DOMAIN origin : origin'[n] = origin[n]
        PROVE  NoTwins' => NoTwins
    BY <1>3 DEF NoTwins, MadeAs
  <1>4. UNCHANGED origin \/ \E r \in Runs : CreateMeta(r)
    BY LogSteps DEF BaseInv, FailStep, RecordSuccess, NoteStep, DeleteBackup, ghosts
  <1>5. CASE \E r \in Runs : CreateMeta(r)
    BY <1>2, <1>3, <1>5
  <1> QED BY <1>1, <1>4, <1>5

(* What was interrupted, refused or torn stays so.                          *)
LEMMA GhostsGrow ==
    ASSUME ControlInv, [Next]_vars
    PROVE  interrupted \subseteq interrupted' /\ refused \subseteq refused' /\ torn \subseteq torn'
  <1>1. CASE \E r \in Runs : Fire(r) \/ Step(r)
    BY <1>1, RunLogSteps
  <1>2. CASE Crash
    BY <1>2 DEF Crash
  <1>3. CASE Environment
    BY <1>3, EnvironmentSteps
  <1> QED BY <1>1, <1>2, <1>3, KindsOfSteps

(* Without twins an identifier names one record.                            *)
LEMMA NoTwinRecords ==
    ASSUME BaseInv, NoTwins
    PROVE  OneRecordEach(backups)
  BY DEF BaseInv, RecordsInv, NoTwins, OneRecordEach

(* Without twins a run at work edits the record it made, and no other ...   *)
LEMMA EditsItsOwn ==
    ASSUME BaseInv, NoTwins, NEW r \in Runs, NEW n, Own(r, n), NEW m \in DOMAIN backups
    PROVE  /\ \A status, paths, size, now :
                 WithStatus(backups, rid[r], status, paths, size, now)[m] =
                     IF m = n THEN Settled(backups[m], status, paths, size, now) ELSE backups[m]
           /\ \A status : WithUpload(backups, rid[r], status)[m] =
                     IF m = n THEN Uploaded(backups[m], status) ELSE backups[m]
  <1>1. backups[m].id = rid[r] <=> m = n
    BY DEF BaseInv, RecordsInv, NoTwins, Own
  <1> QED BY <1>1, NoTwinRecords, EditsTheOne DEF BaseInv, RecordsInv

(* ... which is the one that is busy.                                       *)
LEMMA BusyIsOwn ==
    ASSUME BaseInv, NEW r \in Runs, pc[r] \in Working
    PROVE  \E n \in DOMAIN origin :
              /\ Own(r, n)
              /\ \A m \in DOMAIN origin : \A labels :
                    (origin[m].run = r /\ Busy(m, labels)) => m = n
  <1>1. PICK n \in DOMAIN origin : Own(r, n)
    BY DEF BaseInv, OriginInv
  <1> QED BY <1>1 DEF BaseInv, OriginInv, Own, Busy

(* Two runs at work have different files to write to.                       *)
LEMMA FilesApart ==
    ASSUME BaseInv, NoTwins, LocalOn, NEW q \in Runs, NEW r \in Runs, q # r,
           pc[q] \in Working, pc[r] \in Working
    PROVE  Primary(q) # Primary(r)
  <1>1. PICK m \in DOMAIN origin : Own(q, m)
    BY DEF BaseInv, OriginInv
  <1>2. PICK n \in DOMAIN origin : Own(r, n)
    BY DEF BaseInv, OriginInv
  <1>3. m # n
    BY <1>1, <1>2 DEF Own
  <1> QED BY <1>1, <1>2, <1>3 DEF Own, NoTwins, Primary, Place

(* A step of one run leaves the others' business alone.                     *)
LEMMA OthersBusy ==
    ASSUME BaseInv, NEW r \in Runs, Fire(r) \/ Step(r), NEW n \in DOMAIN origin,
           origin[n].run # r, NEW labels
    PROVE  Busy(n, labels)' <=> Busy(n, labels)
  <1>1. origin[n].run \in Runs
    BY DEF BaseInv, OriginInv, OriginRecord
  <1>2. origin'[n] = origin[n]
    BY OriginGrows DEF Next
  <1> QED BY <1>1, <1>2, OthersWait DEF Busy, BaseInv

(* Until it records an outcome, a run stays on its way to one.              *)
Deciding == {"prepare", "open", "dump", "copy", "record"}

(* Between the record and its outcome a run keeps its target and the        *)
(* records.                                                                 *)
LEMMA DecidingSteps ==
    ASSUME ControlInv, NEW r \in Runs, Step(r), pc[r] \in Deciding,
           ~FailStep(r), ~RecordSuccess(r)
    PROVE  pc'[r] \in Deciding /\ UNCHANGED <<todo, backups, origin>>
  <1> USE DEF At, Goto, Deciding, ControlInv
  <1>1. CASE Prepare(r)
    BY <1>1 DEF Prepare, FailStep, ghosts
  <1>2. CASE OpenOutput(r)
    BY <1>2 DEF OpenOutput, FailStep, ghosts
  <1>3. CASE Dump(r)
    BY <1>3 DEF Dump, FailStep, ghosts
  <1>4. CASE Copy(r)
    BY <1>4 DEF Copy, ghosts
  <1>5. CASE SkipServer(r) \/ Begin(r) \/ CreateMeta(r) \/ CheckS3(r) \/ RecordUpload(r) \/ Close(r)
             \/ Return(r) \/ End(r) \/ \E org \in Organisations : UploadKey(r, org)
    BY <1>5 DEF SkipServer, Begin, CreateMeta, CheckS3, RecordUpload, Close, Return, End, UploadKey
  <1> QED BY <1>1, <1>2, <1>3, <1>4, <1>5 DEF Step

(* Noting an upload says nothing of the backup itself, ...                  *)
LEMMA UploadEdits ==
    ASSUME BaseInv, NEW r \in Runs, NoteStep(r)
    PROVE  /\ DOMAIN backups' = DOMAIN backups
           /\ \A n \in DOMAIN backups : /\ backups'[n].status = backups[n].status
                                        /\ backups'[n].paths = backups[n].paths
  <1>1. \/ UNCHANGED backups
        \/ \E status : backups' = WithUpload(backups, rid[r], status)
    BY DEF NoteStep, UpdateS3UploadStatus
  <1>2. CASE UNCHANGED backups
    BY <1>2
  <1>3. ASSUME NEW status, backups' = WithUpload(backups, rid[r], status)
        PROVE  /\ DOMAIN backups' = DOMAIN backups
               /\ \A n \in DOMAIN backups : /\ backups'[n].status = backups[n].status
                                            /\ backups'[n].paths = backups[n].paths
    <2>1. DOMAIN backups' = DOMAIN backups
      BY <1>3, EditDomains
    <2>2. \A n \in DOMAIN backups : backups[n] \in Record
      BY DEF BaseInv, RecordsInv, IsLog
    <2>3. \A n \in DOMAIN backups :
             backups'[n] = backups[n] \/ backups'[n] = Uploaded(backups[n], status)
      BY <1>3 DEF WithUpload, EditFirst
    <2> QED BY <2>1, <2>2, <2>3 DEF Uploaded, Record
  <1> QED BY <1>1, <1>2, <1>3

(* ... and deletions and purges only take success away.                     *)
LEMMA CleanupEdits ==
    ASSUME BaseInv, \/ \E id : DeleteBackup(id)
                    \/ backups' = Purged(backups, clock)
    PROVE  /\ DOMAIN backups' \subseteq DOMAIN backups
           /\ \A n \in DOMAIN backups' : /\ backups'[n].s3 = backups[n].s3
                                         /\ backups'[n].status = "success" =>
                                               backups[n].status = "success"
  <1>1. \A n \in DOMAIN backups : backups[n] \in Record
    BY DEF BaseInv, RecordsInv, IsLog
  <1>2. ASSUME NEW id, backups' = WithDeletion(backups, id)
        PROVE  /\ DOMAIN backups' \subseteq DOMAIN backups
               /\ \A n \in DOMAIN backups' : backups'[n] = backups[n] \/ backups'[n] = Deleted(backups[n])
    BY <1>2 DEF WithDeletion, EditFirst
  <1>3. ASSUME backups' = Purged(backups, clock)
        PROVE  DOMAIN backups' \subseteq DOMAIN backups /\ \A n \in DOMAIN backups' : backups'[n] = backups[n]
    BY <1>3 DEF Purged
  <1>4. /\ DOMAIN backups' \subseteq DOMAIN backups
        /\ \A n \in DOMAIN backups' : backups'[n] = backups[n] \/ backups'[n] = Deleted(backups[n])
    BY <1>2, <1>3 DEF DeleteBackup
  <1> QED BY <1>1, <1>4 DEF Deleted, Record

(* Recording an outcome: what it does to the record of the run, unless it   *)
(* is refused, and to the others.                                           *)
LEMMA StatusEdits ==
    ASSUME BaseInv, NoTwins, NEW r \in Runs, FailStep(r) \/ RecordSuccess(r)
    PROVE  \E own \in DOMAIN origin :
              /\ Own(r, own)
              /\ DOMAIN backups' = DOMAIN backups
              /\ \A n \in DOMAIN backups :
                    /\ backups'[n].s3 = backups[n].s3
                    /\ n # own => backups'[n] = backups[n]
                    /\ n = own => \/ FailStep(r) /\ backups'[n].status = "error"
                                  \/ RecordSuccess(r) /\ backups'[n].status = "success"
                                  \/ backups'[n] = backups[n] /\ n \in refused'
  <1>1. pc[r] \in Working
    BY DEF FailStep, RecordSuccess, At, Working, Writing
  <1>2. PICK own \in DOMAIN origin : Own(r, own)
    BY <1>1, BusyIsOwn
  <1>3. ASSUME NEW status, NEW paths, NEW size,
               backups' = WithStatus(backups, rid[r], status, paths, size, clock),
               \/ FailStep(r) /\ status = "error"
               \/ RecordSuccess(r) /\ status = "success"
        PROVE  /\ DOMAIN backups' = DOMAIN backups
               /\ \A n \in DOMAIN backups :
                    /\ backups'[n].s3 = backups[n].s3
                    /\ n # own => backups'[n] = backups[n]
                    /\ n = own => \/ FailStep(r) /\ backups'[n].status = "error"
                                  \/ RecordSuccess(r) /\ backups'[n].status = "success"
    <2>1. DOMAIN backups' = DOMAIN backups
      BY <1>3, EditDomains
    <2>2. \A n \in DOMAIN backups : backups[n] \in Record
      BY DEF BaseInv, RecordsInv, IsLog
    <2>3. \A n \in DOMAIN backups :
             backups'[n] = IF n = own THEN Settled(backups[n], status, paths, size, clock)
                                      ELSE backups[n]
      BY <1>2, <1>3, EditsItsOwn
    <2> QED BY <1>3, <2>1, <2>2, <2>3, SettledFields
  <1>4. ASSUME UNCHANGED backups, refused' = refused \cup Matches(backups, rid[r])
        PROVE  own \in DOMAIN backups => own \in refused'
    BY <1>2, <1>4 DEF Matches, Own, BaseInv, RecordsInv
  <1>5. \/ UNCHANGED backups /\ refused' = refused \cup Matches(backups, rid[r])
        \/ \E status, paths, size :
              /\ backups' = WithStatus(backups, rid[r], status, paths, size, clock)
              /\ \/ FailStep(r) /\ status = "error"
                 \/ RecordSuccess(r) /\ status = "success"
    <2>1. CASE FailStep(r)
      BY <2>1 DEF FailStep, Fail, UpdateBackupStatus
    <2>2. CASE RecordSuccess(r)
      BY <2>2 DEF RecordSuccess, UpdateBackupStatus
    <2> QED BY <2>1, <2>2
  <1>6. CASE UNCHANGED backups /\ refused' = refused \cup Matches(backups, rid[r])
    BY <1>2, <1>4, <1>6
  <1> QED BY <1>2, <1>3, <1>5, <1>6

(* Every step keeps a pending record with a run that will settle it, with   *)
(* one that was cut short, or among those the store refused to settle.      *)
LEMMA PendingStep ==
    BaseInv /\ NoTwins /\ PendingMeansInProgress /\ [Next]_vars => PendingMeansInProgress'
  <1> SUFFICES ASSUME BaseInv, NoTwins, PendingMeansInProgress, [Next]_vars,
                      NEW n \in DOMAIN backups', n \notin interrupted' \cup refused',
                      backups'[n].status = "pending"
               PROVE  Undecided(n)'
    BY DEF PendingMeansInProgress
  <1>0. n \notin interrupted \cup refused
    BY GhostsGrow DEF BaseInv
  <1>1. ASSUME n \in DOMAIN backups, backups[n].status = "pending"
        PROVE  n \in DOMAIN origin /\ Undecided(n) /\ origin[n].run \in Runs /\ origin'[n] = origin[n]
    BY <1>0, <1>1, OriginGrows DEF PendingMeansInProgress, BaseInv, RecordsInv, OriginInv, OriginRecord
  <1>2. ASSUME NEW r \in Runs, CreateMeta(r) PROVE Undecided(n)'
    <2>0. PICK new \in Numbers : new = NextNumber /\ new \notin DOMAIN origin
      BY NextIsNew DEF BaseInv
    <2>1. /\ UNCHANGED backups \/ backups' = WithNew(backups, new, Target(r), clock)
          /\ origin'[new].run = r /\ origin'[new].left = Len(todo[r])
          /\ pc[r] = "create" /\ pc'[r] = "prepare" /\ UNCHANGED todo
      BY <1>2, <2>0, PutFacts DEF CreateMeta, At, Goto, BaseInv, ControlInv
    <2>2. CASE n = new
      BY <2>1, <2>2 DEF Undecided, Busy
    <2>3. CASE n # new
      <3>1. n \in DOMAIN backups /\ backups'[n] = backups[n]
        BY <2>1, <2>3 DEF WithNew
      <3>2. n \in DOMAIN origin /\ Undecided(n) /\ origin[n].run \in Runs
        BY <1>1, <3>1
      <3>3. origin[n].run # r
        BY <2>1, <3>2 DEF Undecided, Busy
      <3> QED BY <1>2, <3>2, <3>3, OthersBusy DEF Undecided, Step
    <2> QED BY <2>2, <2>3
  <1>3. ASSUME NEW r \in Runs, Step(r), FailStep(r) \/ RecordSuccess(r) PROVE Undecided(n)'
    <2>1. pc[r] \in Working
      BY <1>3 DEF FailStep, RecordSuccess, At, Working, Writing
    <2>2. PICK own \in DOMAIN origin :
              /\ Own(r, own)
              /\ \A m \in DOMAIN origin : \A labels :
                    (origin[m].run = r /\ Busy(m, labels)) => m = own
      BY <2>1, BusyIsOwn
    <2>3. n \in DOMAIN backups /\ n # own /\ backups'[n] = backups[n]
      <3>1. PICK own2 \in DOMAIN origin :
                /\ Own(r, own2)
                /\ DOMAIN backups' = DOMAIN backups
                /\ \A m \in DOMAIN backups :
                      /\ m # own2 => backups'[m] = backups[m]
                      /\ m = own2 => \/ backups'[m].status \in {"error", "success"}
                                     \/ m \in refused'
        BY <1>3, StatusEdits
      <3>2. own2 = own
        BY <2>2, <3>1 DEF Own, NoTwins
      <3> QED BY <3>1, <3>2
    <2>6. n \in DOMAIN origin /\ Undecided(n)
      BY <1>1, <2>3
    <2>7. origin[n].run # r
      BY <2>2, <2>3, <2>6 DEF Undecided
    <2> QED BY <1>3, <2>6, <2>7, OthersBusy DEF Undecided
  <1>4. ASSUME NEW r \in Runs, Fire(r) \/ Step(r), ~CreateMeta(r), ~FailStep(r), ~RecordSuccess(r)
        PROVE  Undecided(n)'
    <2>1. n \in DOMAIN backups /\ backups[n].status = "pending"
      <3>1. CASE UNCHANGED backups
        BY <3>1
      <3>2. CASE NoteStep(r)
        BY <3>2, UploadEdits
      <3> QED BY <1>4, <3>1, <3>2, RunLogSteps DEF BaseInv
    <2>3. n \in DOMAIN origin /\ Undecided(n) /\ origin[n].run \in Runs /\ origin'[n] = origin[n]
      BY <1>1, <2>1
    <2>4. CASE origin[n].run # r
      BY <1>4, <2>3, <2>4, OthersBusy DEF Undecided
    <2>5. CASE origin[n].run = r
      <3>1. pc[r] \in Deciding /\ ~Fire(r)
        BY <2>3, <2>5 DEF Undecided, Busy, Deciding, Fire, At
      <3>2. pc'[r] \in Deciding /\ UNCHANGED todo
        BY <1>4, <3>1, DecidingSteps DEF BaseInv
      <3> QED BY <2>3, <2>5, <3>2 DEF Undecided, Busy, Deciding
    <2> QED BY <2>4, <2>5
  <1>5. CASE Crash
    <2>1. UNCHANGED <<backups, origin>> /\ interrupted' = interrupted \cup {m \in DOMAIN origin : Unfinished(m)}
      BY <1>5 DEF Crash
    <2> QED BY <1>1, <2>1 DEF Unfinished
  <1>6. CASE Environment
    <2>1. UNCHANGED <<pc, todo, origin>>
      BY <1>6, EnvironmentSteps
    <2>2. \/ UNCHANGED backups \/ backups' = Purged(backups, clock)
          \/ \E id : backups' = WithDeletion(backups, id)
      BY <1>6, EnvironmentLog DEF DeleteBackup
    <2>3. n \in DOMAIN backups /\ (backups'[n] = backups[n] \/ backups'[n] = Deleted(backups[n]))
      BY <2>2 DEF Purged, WithDeletion, EditFirst
    <2>4. backups[n].status = "pending"
      BY <2>3 DEF Deleted, BaseInv, RecordsInv, IsLog, Record
    <2> QED BY <1>1, <2>1, <2>3, <2>4 DEF Undecided, Busy
  <1>7. CASE \E r \in Runs : Fire(r) \/ Step(r)
    BY <1>2, <1>3, <1>4, <1>7 DEF FailStep, Step
  <1> QED BY <1>5, <1>6, <1>7, KindsOfSteps

(* Objects are never taken away.                                            *)
LEMMA ObjectsGrow ==
    ASSUME [Next]_vars
    PROVE  DOMAIN objects \subseteq DOMAIN objects'
  <1>1. ASSUME NEW r \in Runs, NEW org \in Organisations, UploadKey(r, org)
        PROVE  DOMAIN objects \subseteq DOMAIN objects'
    <2>1. UNCHANGED objects \/ \E key, value : objects' = Put(objects, key, value)
      BY <1>1 DEF UploadKey
    <2> QED BY <2>1 DEF Put
  <1>2. ASSUME NEW r \in Runs,
               \/ Fire(r) \/ SkipServer(r) \/ Begin(r) \/ CreateMeta(r) \/ Prepare(r) \/ OpenOutput(r)
               \/ Dump(r) \/ Copy(r) \/ RecordSuccess(r) \/ CheckS3(r) \/ RecordUpload(r) \/ Close(r)
               \/ Return(r) \/ End(r)
        PROVE  UNCHANGED objects
    BY <1>2 DEF Fire, SkipServer, Begin, CreateMeta, Prepare, OpenOutput, Dump, Copy, RecordSuccess,
                CheckS3, RecordUpload, Close, Return, End
  <1>3. CASE Crash
    BY <1>3 DEF Crash
  <1>4. CASE \E r \in Runs : Fire(r) \/ Step(r)
    BY <1>1, <1>2, <1>4 DEF Step
  <1>5. CASE Environment
    BY <1>5, EnvironmentSteps
  <1> QED BY <1>3, <1>4, <1>5, KindsOfSteps

(* Every step keeps in `sent' objects that are there.                       *)
LEMMA SentStep == BaseInv /\ SentInv /\ [Next]_vars => SentInv'
  <1> SUFFICES ASSUME BaseInv, SentInv, [Next]_vars, NEW q \in Runs
               PROVE  /\ pc'[q] \in Unsent => sent'[q] = {}
                      /\ pc'[q] = "upload" => \A org \in sent'[q] :
                            InABucket(objects', Place(Target(q), stamp[q], org)')
    BY DEF SentInv, InABucket
  <1> USE DEF At, Goto
  <1>0. /\ pc[q] \in Unsent => sent[q] = {}
        /\ pc[q] = "upload"
             => \A org \in sent[q] : InABucket(objects, Place(Target(q), stamp[q], org))
        /\ \A place : InABucket(objects, place) => InABucket(objects', place)
    BY ObjectsGrow DEF SentInv, InABucket
  <1>1. ASSUME pc'[q] = pc[q], todo'[q] = todo[q], stamp'[q] = stamp[q], sent'[q] = sent[q]
        PROVE  /\ pc'[q] \in Unsent => sent'[q] = {}
               /\ pc'[q] = "upload" => \A org \in sent'[q] :
                     InABucket(objects', Place(Target(q), stamp[q], org)')
    <2>1. \A org : Place(Target(q), stamp[q], org)' = Place(Target(q), stamp[q], org)
      BY <1>1 DEF Target, Place
    <2> QED BY <1>0, <1>1, <2>1
  <1>2. CASE \E r \in Runs \ {q} : Fire(r) \/ Step(r)
    BY <1>1, <1>2, OthersWait DEF BaseInv
  <1>3. CASE \/ Fire(q) \/ SkipServer(q) \/ Begin(q) \/ CreateMeta(q)
    BY <1>0, <1>3 DEF Fire, SkipServer, Begin, CreateMeta, BaseInv, ControlInv, Unsent
  <1>4. CASE Prepare(q) \/ OpenOutput(q) \/ Dump(q) \/ Copy(q)
    BY <1>0, <1>4 DEF Prepare, OpenOutput, Dump, Copy, Fail, BaseInv, ControlInv, Unsent
  <1>5. CASE RecordSuccess(q) \/ CheckS3(q)
    BY <1>0, <1>5 DEF RecordSuccess, CheckS3, BaseInv, ControlInv, Unsent
  <1>6. CASE \E org \in Organisations : UploadKey(q, org)
    <2>1. PICK org \in Organisations : UploadKey(q, org)
      BY <1>6
    <2>2. pc[q] = "upload" /\ UNCHANGED <<pc, todo, stamp>>
      BY <2>1 DEF UploadKey
    <2>3. CASE UNCHANGED sent
      BY <1>1, <2>2, <2>3
    <2>4. CASE /\ sent' = [sent EXCEPT ![q] = @ \cup {org}]
               /\ objects' = Put(objects, ObjectAt(s3.bucket, Place(Target(q), stamp[q], org)),
                                 AsRead(files[Primary(q)]))
      <3>1. sent'[q] = sent[q] \cup {org}
        BY <2>4 DEF BaseInv, ControlInv
      <3>2. InABucket(objects', Place(Target(q), stamp[q], org))
        BY <2>4 DEF Put, InABucket, BaseInv, ControlInv
      <3>3. \A o : Place(Target(q), stamp[q], o)' = Place(Target(q), stamp[q], o)
        BY <2>2 DEF Target, Place
      <3>4. \A o \in sent[q] : InABucket(objects', Place(Target(q), stamp[q], o))
        BY <1>0, <2>2
      <3> QED BY <2>2, <3>1, <3>2, <3>3, <3>4 DEF Unsent
    <2> QED BY <2>1, <2>3, <2>4 DEF UploadKey
  <1>7. CASE RecordUpload(q) \/ Close(q) \/ End(q)
    BY <1>7 DEF RecordUpload, Close, End, BaseInv, ControlInv, Unsent
  <1>8. CASE Return(q)
    BY <1>8 DEF Return, BaseInv, ControlInv, Unsent
  <1>9. CASE Crash
    BY <1>0, <1>9 DEF Crash, Unsent
  <1>10. CASE Environment
    <2>1. UNCHANGED <<pc, todo, stamp, sent>>
      BY <1>10, EnvironmentSteps
    <2> QED BY <1>1, <2>1
  <1>11. CASE Step(q)
    BY <1>3, <1>4, <1>5, <1>6, <1>7, <1>8, <1>11 DEF Step
  <1>12. CASE \E r \in Runs : Fire(r) \/ Step(r)
    BY <1>2, <1>3, <1>11, <1>12
  <1> QED BY <1>9, <1>10, <1>12, KindsOfSteps

(* What noting an upload does to the record of the run and to its keys,     *)
(* unless it is refused, and to the others.                                 *)
LEMMA NoteEdits ==
    ASSUME BaseInv, NoTwins, NEW r \in Runs, NoteStep(r), NEW n \in DOMAIN backups
    PROVE  \/ backups'[n] = backups[n] /\ keys'[n] = keys[n]
           \/ backups'[n].s3 # "success"
           \/ /\ Own(r, n) /\ keys'[n] = named[r] /\ sent[r] = named[r] /\ pc[r] = "upload"
              /\ backups'[n].s3 = "success"
  <1>1. PICK own \in DOMAIN origin : Own(r, own)
    BY BusyIsOwn DEF NoteStep, Working, Writing
  <1>2. PICK status \in {"success", "error"}, given \in SUBSET Organisations :
            /\ UpdateS3UploadStatus(r, status, given)
            /\ status = "success" => given = named[r] /\ sent[r] = named[r] /\ pc[r] = "upload"
    BY DEF NoteStep
  <1>3. CASE UNCHANGED store
    BY <1>3
  <1>4. CASE /\ backups' = WithUpload(backups, rid[r], status)
             /\ keys' = [m \in DOMAIN keys |->
                           IF IsFirst(backups, rid[r], m) THEN given ELSE keys[m]]
    <2>1. n \in DOMAIN keys
      BY DEF BaseInv, RecordsInv, KeysInv
    <2>2. IsFirst(backups, rid[r], n) <=> n = own
      <3>1. IsFirst(backups, rid[r], n) <=> backups[n].id = rid[r]
        BY NoTwinRecords, FirstIsTheOne DEF BaseInv, RecordsInv
      <3>2. backups[n].id = rid[r] <=> n = own
        BY <1>1 DEF BaseInv, RecordsInv, NoTwins, Own
      <3> QED BY <3>1, <3>2
    <2>3. backups'[n] = IF n = own THEN Uploaded(backups[n], status) ELSE backups[n]
      BY <1>1, <1>4, EditsItsOwn
    <2>4. Uploaded(backups[n], status).s3 = status
      BY DEF Uploaded, BaseInv, RecordsInv, IsLog, Record
    <2>5. keys'[n] = IF n = own THEN given ELSE keys[n]
      BY <1>4, <2>1, <2>2
    <2> QED BY <1>1, <1>2, <2>3, <2>4, <2>5
  <1> QED BY <1>2, <1>3, <1>4 DEF UpdateS3UploadStatus

(* Every step keeps an uploaded record with the objects it stands for.      *)
LEMMA UploadedStep ==
    BaseInv /\ SentInv /\ NoTwins /\ UploadedInv /\ [Next]_vars => UploadedInv'
  <1> SUFFICES ASSUME BaseInv, SentInv, NoTwins, UploadedInv, [Next]_vars,
                      NEW n \in DOMAIN backups', backups'[n].s3 = "success"
               PROVE  /\ keys'[n] = origin'[n].named
                      /\ \A org \in keys'[n] : InABucket(objects', FileOf(n, org)')
    BY DEF UploadedInv, InABucket
  <1>0. \A place : InABucket(objects, place) => InABucket(objects', place)
    BY ObjectsGrow DEF InABucket
  <1>1. ASSUME n \in DOMAIN backups, backups[n].s3 = "success", keys'[n] = keys[n]
        PROVE  /\ keys'[n] = origin'[n].named
               /\ \A org \in keys'[n] : InABucket(objects', FileOf(n, org)')
    <2>1. n \in DOMAIN origin
      BY <1>1 DEF BaseInv, RecordsInv
    <2>2. \A org : FileOf(n, org)' = FileOf(n, org)
      BY <2>1, OriginGrows DEF FileOf
    <2>3. /\ keys[n] = origin[n].named
          /\ \A org \in keys[n] : InABucket(objects, FileOf(n, org))
      BY <1>1 DEF UploadedInv
    <2> QED BY <1>0, <1>1, <2>1, <2>2, <2>3, OriginGrows
  <1>2. CASE UNCHANGED <<store, origin>>
    BY <1>1, <1>2
  <1>3. ASSUME NEW r \in Runs, CreateMeta(r)
        PROVE  n \in DOMAIN backups /\ backups[n].s3 = "success" /\ keys'[n] = keys[n]
    <2>1. /\ UNCHANGED backups \/ backups' = WithNew(backups, NextNumber, Target(r), clock)
          /\ keys' = Put(keys, NextNumber, {})
      BY <1>3 DEF CreateMeta
    <2>2. NewRecord(Target(r), clock).s3 = "pending"
      BY DEF NewRecord
    <2>3. n \in DOMAIN backups /\ backups[n].s3 = "success"
      BY <2>1, <2>2 DEF WithNew
    <2>4. n # NextNumber /\ n \in DOMAIN keys
      BY <2>3, NextIsNew DEF BaseInv, RecordsInv, KeysInv
    <2> QED BY <2>1, <2>3, <2>4 DEF Put
  <1>4. ASSUME NEW r \in Runs, NoteStep(r)
        PROVE  /\ keys'[n] = origin'[n].named
               /\ \A org \in keys'[n] : InABucket(objects', FileOf(n, org)')
    <2>1. n \in DOMAIN backups
      BY <1>4, UploadEdits
    <2>2. CASE backups'[n] = backups[n] /\ keys'[n] = keys[n]
      BY <1>1, <2>1, <2>2
    <2>3. CASE Own(r, n) /\ keys'[n] = named[r] /\ sent[r] = named[r] /\ pc[r] = "upload"
      <3>1. \A org \in named[r] : InABucket(objects, Place(Target(r), stamp[r], org))
        BY <2>3 DEF SentInv
      <3>2. /\ origin'[n].named = named[r]
            /\ \A org : FileOf(n, org)' = Place(Target(r), stamp[r], org)
        BY <2>3, OriginGrows DEF FileOf, Own
      <3> QED BY <1>0, <2>3, <3>1, <3>2
    <2> QED BY <1>4, <2>1, <2>2, <2>3, NoteEdits
  <1>5. ASSUME NEW r \in Runs, FailStep(r) \/ RecordSuccess(r)
        PROVE  n \in DOMAIN backups /\ backups[n].s3 = "success" /\ keys'[n] = keys[n]
    BY <1>5, StatusEdits, OutcomeKeepsKeys
  <1>6. ASSUME \/ \E id : DeleteBackup(id)
               \/ backups' = Purged(backups, clock) /\ UNCHANGED keys
        PROVE  n \in DOMAIN backups /\ backups[n].s3 = "success" /\ keys'[n] = keys[n]
    BY <1>6, CleanupEdits DEF DeleteBackup
  <1> QED BY <1>1, <1>2, <1>3, <1>4, <1>5, <1>6, LogSteps DEF BaseInv

(* No run changes the configuration; it makes its keys and comes to the     *)
(* upload as the configuration says.                                        *)
LEMMA RunsObey ==
    ASSUME ControlInv, NEW r \in Runs, Fire(r) \/ Step(r)
    PROVE  /\ UNCHANGED <<s3, changes>>
           /\ pc'[r] = "create" => named'[r] = S3Keys
           /\ pc'[r] = "upload" => pc[r] = "upload" \/ s3.enabled
  <1> USE DEF At, Goto, ControlInv
  <1>1. CASE Fire(r) \/ SkipServer(r)
    BY <1>1 DEF Fire, SkipServer, ghosts
  <1>2. CASE Begin(r)
    BY <1>2 DEF Begin, ghosts
  <1>3. CASE CreateMeta(r)
    BY <1>3 DEF CreateMeta
  <1>4. CASE Prepare(r) \/ OpenOutput(r) \/ Dump(r)
    BY <1>4 DEF Prepare, OpenOutput, Dump, Fail
  <1>5. CASE Copy(r) \/ RecordSuccess(r)
    BY <1>5 DEF Copy, RecordSuccess, ghosts
  <1>6. CASE CheckS3(r)
    BY <1>6 DEF CheckS3, S3On, ghosts
  <1>7. CASE RecordUpload(r) \/ Close(r)
    BY <1>7 DEF RecordUpload, Close, ghosts
  <1>8. CASE Return(r) \/ End(r)
    BY <1>8 DEF Return, End, ghosts
  <1>9. CASE \E org \in Organisations : UploadKey(r, org)
    BY <1>9 DEF UploadKey, ghosts
  <1> QED BY <1>1, <1>2, <1>3, <1>4, <1>5, <1>6, <1>7, <1>8, <1>9 DEF Step

(* Only an upload moves objects.                                            *)
LEMMA ObjectWrites ==
    ASSUME [Next]_vars
    PROVE  \/ UNCHANGED objects
           \/ \E r \in Runs, org \in Organisations : \E value :
                 /\ pc[r] = "upload"
                 /\ objects' = Put(objects, ObjectAt(s3.bucket, Place(Target(r), stamp[r], org)), value)
  <1>1. ASSUME NEW r \in Runs, NEW org \in Organisations, UploadKey(r, org)
        PROVE  \/ UNCHANGED objects
               \/ /\ pc[r] = "upload"
                  /\ \E value : objects' = Put(objects,
                        ObjectAt(s3.bucket, Place(Target(r), stamp[r], org)), value)
    BY <1>1 DEF UploadKey, At
  <1>2. ASSUME NEW r \in Runs,
               \/ Fire(r) \/ SkipServer(r) \/ Begin(r) \/ CreateMeta(r) \/ Prepare(r) \/ OpenOutput(r)
               \/ Dump(r) \/ Copy(r) \/ RecordSuccess(r) \/ CheckS3(r) \/ RecordUpload(r) \/ Close(r)
               \/ Return(r) \/ End(r)
        PROVE  UNCHANGED objects
    BY <1>2 DEF Fire, SkipServer, Begin, CreateMeta, Prepare, OpenOutput, Dump, Copy, RecordSuccess,
                CheckS3, RecordUpload, Close, Return, End
  <1>3. CASE Crash
    BY <1>3 DEF Crash
  <1>4. CASE \E r \in Runs : Fire(r) \/ Step(r)
    BY <1>1, <1>2, <1>4 DEF Step
  <1>5. CASE Environment
    BY <1>5, EnvironmentSteps
  <1> QED BY <1>3, <1>4, <1>5, KindsOfSteps

(* No step but a successful upload makes an upload a successful one.        *)
LEMMA UploadsNoted ==
    ASSUME BaseInv, [Next]_vars, NEW n \in DOMAIN backups', backups'[n].s3 = "success"
    PROVE  \/ n \in DOMAIN backups /\ backups[n].s3 = "success"
           \/ \E r \in Runs : pc[r] = "upload"
  <1>0. \A m \in DOMAIN backups : backups[m] \in Record
    BY DEF BaseInv, RecordsInv, IsLog
  <1>1. ASSUME NEW r \in Runs, CreateMeta(r) PROVE n \in DOMAIN backups /\ backups[n].s3 = "success"
    <2>1. UNCHANGED backups \/ backups' = WithNew(backups, NextNumber, Target(r), clock)
      BY <1>1 DEF CreateMeta
    <2>2. NewRecord(Target(r), clock).s3 = "pending"
      BY DEF NewRecord
    <2> QED BY <2>1, <2>2 DEF WithNew
  <1>2. ASSUME NEW id, NEW status, NEW paths, NEW size,
               backups' = WithStatus(backups, id, status, paths, size, clock)
        PROVE  n \in DOMAIN backups /\ backups[n].s3 = "success"
    <2>1. /\ n \in DOMAIN backups
          /\ \/ backups'[n] = backups[n]
             \/ backups'[n] = Settled(backups[n], status, paths, size, clock)
      BY <1>2 DEF WithStatus, EditFirst
    <2> QED BY <1>0, <2>1, SettledFields
  <1>3. ASSUME NEW r \in Runs, FailStep(r) \/ RecordSuccess(r)
        PROVE  n \in DOMAIN backups /\ backups[n].s3 = "success"
    <2>1. \/ UNCHANGED backups
          \/ \E status, paths, size :
                backups' = WithStatus(backups, rid[r], status, paths, size, clock)
      BY <1>3 DEF FailStep, Fail, RecordSuccess, UpdateBackupStatus
    <2> QED BY <1>2, <2>1
  <1>4. ASSUME NEW r \in Runs, NoteStep(r)
        PROVE  \/ n \in DOMAIN backups /\ backups[n].s3 = "success"
               \/ pc[r] = "upload"
    <2>1. \/ UNCHANGED backups
          \/ \E status \in {"success", "error"} :
                /\ backups' = WithUpload(backups, rid[r], status)
                /\ status = "success" => pc[r] = "upload"
      BY <1>4 DEF NoteStep, UpdateS3UploadStatus
    <2>2. ASSUME NEW status \in {"success", "error"}, backups' = WithUpload(backups, rid[r], status)
          PROVE  /\ n \in DOMAIN backups
                 /\ backups[n].s3 = "success" \/ status = "success"
      <3>1. /\ n \in DOMAIN backups
            /\ backups'[n] = backups[n] \/ backups'[n] = Uploaded(backups[n], status)
        BY <2>2 DEF WithUpload, EditFirst
      <3> QED BY <1>0, <3>1 DEF Uploaded, Record
    <2> QED BY <2>1, <2>2
  <1>5. CASE (\E id : DeleteBackup(id)) \/ backups' = Purged(backups, clock)
    BY <1>5, CleanupEdits
  <1> QED BY <1>1, <1>3, <1>4, <1>5, LogSteps DEF BaseInv

(* Every step of an undisturbed run keeps to the configuration.             *)
LEMMA QuietStep == BaseInv /\ QuietInv /\ [Next]_vars => QuietInv'
  <1> SUFFICES ASSUME BaseInv, QuietInv, [Next]_vars PROVE QuietInv'
    OBVIOUS
  <1>1. CASE updateS3Config
    BY <1>1 DEF updateS3Config, QuietInv
  <1>2. ASSUME UNCHANGED changes PROVE QuietInv'
    <2> SUFFICES ASSUME changes = 0
                 PROVE  /\ s3' = AtStart(CfgS3, CfgBucket)
                        /\ DOMAIN objects' \subseteq {CfgBucket} \X Places
                        /\ \A r \in Runs : /\ pc'[r] = "create" => named'[r] = CfgKeys
                                           /\ pc'[r] = "upload" => CfgS3
                        /\ \A n \in DOMAIN origin' : origin'[n].named = CfgKeys
                        /\ \A n \in DOMAIN backups' : backups'[n].s3 = "success" => CfgS3
      BY <1>2 DEF QuietInv
    <2>1. /\ s3 = AtStart(CfgS3, CfgBucket) /\ s3.enabled = CfgS3 /\ s3.bucket = CfgBucket
          /\ DOMAIN objects \subseteq {CfgBucket} \X Places
          /\ \A r \in Runs : /\ pc[r] = "create" => named[r] = CfgKeys
                             /\ pc[r] = "upload" => CfgS3
          /\ \A n \in DOMAIN origin : origin[n].named = CfgKeys
          /\ \A n \in DOMAIN backups : backups[n].s3 = "success" => CfgS3
      BY DEF QuietInv, AtStart
    <2>2. s3' = AtStart(CfgS3, CfgBucket)
      <3>1. CASE Crash
        BY <2>1, <3>1 DEF Crash
      <3>2. CASE \E r \in Runs : Fire(r) \/ Step(r)
        BY <2>1, <3>2, RunsObey DEF BaseInv
      <3>3. CASE Environment
        <4>1. ~updateS3Config
          BY <1>2 DEF updateS3Config, QuietInv
        <4> QED BY <2>1, <3>3, <4>1, EnvironmentSteps
      <3> QED BY <3>1, <3>2, <3>3, KindsOfSteps
    <2>3. DOMAIN objects' \subseteq {CfgBucket} \X Places
      <3>1. CASE UNCHANGED objects
        BY <2>1, <3>1
      <3>2. ASSUME NEW r \in Runs, NEW org \in Organisations, NEW value, pc[r] = "upload",
                   objects' = Put(objects, ObjectAt(s3.bucket, Place(Target(r), stamp[r], org)), value)
            PROVE  DOMAIN objects' \subseteq {CfgBucket} \X Places
        <4>1. Place(Target(r), stamp[r], org) \in Places
          BY <3>2, PlaceTypes DEF BaseInv, InHand, Working, Writing
        <4>2. ObjectAt(s3.bucket, Place(Target(r), stamp[r], org)) \in {CfgBucket} \X Places
          BY <2>1, <4>1 DEF ObjectAt
        <4>3. DOMAIN objects' = DOMAIN objects \cup
                                  {ObjectAt(s3.bucket, Place(Target(r), stamp[r], org))}
          BY <3>2, PutFacts
        <4> QED BY <2>1, <4>2, <4>3
      <3> QED BY <3>1, <3>2, ObjectWrites
    <2>4. ASSUME NEW q \in Runs
          PROVE  /\ pc'[q] = "create" => named'[q] = CfgKeys
                 /\ pc'[q] = "upload" => CfgS3
      <3>1. CASE \E r \in Runs \ {q} : Fire(r) \/ Step(r)
        BY <2>1, <3>1, OthersWait DEF BaseInv
      <3>2. CASE Fire(q) \/ Step(q)
        <4>1. S3Keys = CfgKeys
          BY <2>1 DEF S3Keys, CfgKeys
        <4> QED BY <2>1, <3>2, <4>1, RunsObey DEF BaseInv
      <3>3. CASE Crash
        BY <3>3 DEF Crash
      <3>4. CASE Environment
        BY <2>1, <3>4, EnvironmentSteps
      <3> QED BY <3>1, <3>2, <3>3, <3>4, KindsOfSteps
    <2>5. ASSUME NEW n \in DOMAIN origin' PROVE origin'[n].named = CfgKeys
      <3>1. CASE UNCHANGED origin
        BY <2>1, <2>5, <3>1
      <3>2. ASSUME NEW r \in Runs, CreateMeta(r) PROVE origin'[n].named = CfgKeys
        <4>1. PICK made : origin' = Put(origin, NextNumber, made) /\ made.named = named[r]
          BY <3>2 DEF CreateMeta
        <4>2. pc[r] = "create"
          BY <3>2 DEF CreateMeta, At
        <4> QED BY <2>1, <2>5, <4>1, <4>2 DEF Put
      <3>3. UNCHANGED origin \/ \E r \in Runs : CreateMeta(r)
        BY LogSteps DEF BaseInv, FailStep, RecordSuccess, NoteStep, DeleteBackup, ghosts
      <3> QED BY <3>1, <3>2, <3>3
    <2>6. \A n \in DOMAIN backups' : backups'[n].s3 = "success" => CfgS3
      BY <2>1, UploadsNoted
    <2> QED BY <2>2, <2>3, <2>4, <2>5, <2>6
  <1>3. updateS3Config \/ UNCHANGED changes
    <2>1. CASE \E r \in Runs : Fire(r) \/ Step(r)
      BY <2>1, RunsObey DEF BaseInv
    <2>2. CASE Crash
      BY <2>2 DEF Crash
    <2>3. CASE Environment
      BY <2>3, EnvironmentSteps
    <2> QED BY <2>1, <2>2, <2>3, KindsOfSteps
  <1> QED BY <1>1, <1>2, <1>3

(* The way to an outcome starts with a record, and nowhere else.            *)
LEMMA IntoDeciding ==
    ASSUME ControlInv, NEW r \in Runs, Fire(r) \/ Step(r), ~CreateMeta(r), pc'[r] \in Deciding
    PROVE  pc[r] \in Deciding /\ todo'[r] = todo[r]
  <1> USE DEF At, Goto, Deciding, ControlInv
  <1>1. CASE Fire(r) \/ SkipServer(r) \/ Begin(r) \/ Return(r) \/ End(r) \/ Close(r)
    BY <1>1 DEF Fire, SkipServer, Begin, Return, End, Close
  <1>2. CASE Prepare(r) \/ OpenOutput(r) \/ Dump(r) \/ Copy(r)
    BY <1>2 DEF Prepare, OpenOutput, Dump, Copy
  <1>3. CASE \/ RecordSuccess(r) \/ CheckS3(r) \/ RecordUpload(r)
             \/ \E org \in Organisations : UploadKey(r, org)
    BY <1>3 DEF RecordSuccess, CheckS3, RecordUpload, UploadKey
  <1> QED BY <1>1, <1>2, <1>3 DEF Step

(* Every step keeps the record of a run that has decided as it decided.     *)
LEMMA DecidedStep ==
    BaseInv /\ NoTwins /\ DecidedInv /\ [Next]_vars => DecidedInv'
  <1> SUFFICES ASSUME BaseInv, NoTwins, DecidedInv, [Next]_vars,
                      NEW n \in DOMAIN backups', backups'[n].status = "success", Undecided(n)'
               PROVE  FALSE
    BY DEF DecidedInv
  <1>1. ASSUME n \in DOMAIN backups
        PROVE  /\ n \in DOMAIN origin /\ origin[n].run \in Runs /\ origin'[n] = origin[n]
               /\ backups[n].status = "success" => ~Undecided(n)
    BY <1>1, OriginGrows DEF DecidedInv, BaseInv, RecordsInv, OriginInv, OriginRecord
  <1>2. ASSUME NEW r \in Runs, CreateMeta(r) PROVE FALSE
    <2>1. UNCHANGED backups \/ backups' = WithNew(backups, NextNumber, Target(r), clock)
      BY <1>2 DEF CreateMeta
    <2>2. NewRecord(Target(r), clock).status = "pending"
      BY DEF NewRecord
    <2>3. n \in DOMAIN backups /\ backups'[n] = backups[n]
      BY <2>1, <2>2 DEF WithNew
    <2>4. ~Undecided(n)
      BY <1>1, <2>3
    <2>5. CASE origin[n].run = r
      <3>1. pc[r] = "create" /\ todo'[r] = todo[r]
        BY <1>2 DEF CreateMeta, At
      <3>2. Len(todo[r]) < origin[n].left
        BY <1>1, <2>3, <2>5, <3>1 DEF BaseInv, OriginInv
      <3>3. Len(todo[r]) \in Nat /\ origin[n].left \in Nat
        BY <1>1, <2>3 DEF BaseInv, ControlInv, OriginInv, OriginRecord
      <3> QED BY <1>1, <2>3, <2>5, <3>1, <3>2, <3>3 DEF Undecided, Busy
    <2>6. CASE origin[n].run # r
      BY <1>1, <1>2, <2>3, <2>4, <2>6, OthersBusy DEF Undecided, Step
    <2> QED BY <2>5, <2>6
  <1>3. ASSUME NEW r \in Runs, Step(r), FailStep(r) \/ RecordSuccess(r) PROVE FALSE
    <2>1. PICK own \in DOMAIN origin :
              /\ Own(r, own)
              /\ DOMAIN backups' = DOMAIN backups
              /\ \A m \in DOMAIN backups :
                    m # own => backups'[m] = backups[m]
      BY <1>3, StatusEdits
    <2>2. pc'[r] \in {"return", "check"}
      BY <1>3 DEF FailStep, Fail, RecordSuccess, Goto, BaseInv, ControlInv
    <2>3. origin[n].run # r
      BY <1>1, <2>1, <2>2 DEF Undecided, Busy
    <2>4. n # own
      BY <2>1, <2>3 DEF Own
    <2>5. ~Undecided(n)
      BY <1>1, <2>1, <2>4
    <2> QED BY <1>1, <1>3, <2>1, <2>3, <2>5, OthersBusy DEF Undecided
  <1>4. ASSUME NEW r \in Runs, Fire(r) \/ Step(r), ~CreateMeta(r), ~FailStep(r), ~RecordSuccess(r)
        PROVE  FALSE
    <2>1. n \in DOMAIN backups /\ backups[n].status = "success"
      BY <1>4, RunLogSteps, UploadEdits DEF BaseInv
    <2>2. CASE origin[n].run # r
      BY <1>1, <1>4, <2>1, <2>2, OthersBusy DEF Undecided
    <2>3. CASE origin[n].run = r
      <3>1. pc'[r] \in Deciding
        BY <1>1, <2>1, <2>3 DEF Undecided, Busy, Deciding
      <3>2. pc[r] \in Deciding /\ todo'[r] = todo[r]
        BY <1>4, <3>1, IntoDeciding DEF BaseInv
      <3> QED BY <1>1, <2>1, <2>3, <3>2 DEF Undecided, Busy, Deciding
    <2> QED BY <2>2, <2>3
  <1>5. CASE Crash
    <2>1. \A r \in Runs : pc'[r] \in {"idle", "done"}
      BY <1>5 DEF Crash
    <2>2. n \in DOMAIN backups
      BY <1>5 DEF Crash
    <2> QED BY <1>1, <2>1, <2>2 DEF Undecided, Busy
  <1>6. CASE Environment
    <2>1. UNCHANGED <<pc, todo, origin>>
      BY <1>6, EnvironmentSteps
    <2>2. \/ UNCHANGED backups \/ backups' = Purged(backups, clock)
          \/ \E id : DeleteBackup(id)
      BY <1>6, EnvironmentLog
    <2>3. n \in DOMAIN backups /\ backups[n].status = "success"
      BY <2>2, CleanupEdits
    <2> QED BY <1>1, <2>1, <2>3 DEF Undecided, Busy
  <1>7. CASE \E r \in Runs : Fire(r) \/ Step(r)
    BY <1>2, <1>3, <1>4, <1>7 DEF FailStep, Step
  <1> QED BY <1>5, <1>6, <1>7, KindsOfSteps

-------------------------------------------------------------------------------
(* What a step of a run does to the files, when backups are kept on disk.   *)
LEMMA FileWrites ==
    ASSUME LocalOn, NEW r \in Runs, Fire(r) \/ Step(r)
    PROVE  \/ UNCHANGED files
           \/ \E value : files' = Put(files, ByType(r), value)
           \/ pc[r] \in Working /\ \E value : files' = Put(files, Primary(r), value)
  <1>1. CASE \/ Fire(r) \/ SkipServer(r) \/ Begin(r) \/ CreateMeta(r) \/ Prepare(r)
             \/ RecordSuccess(r) \/ CheckS3(r) \/ RecordUpload(r) \/ Return(r) \/ End(r)
             \/ \E org \in Organisations : UploadKey(r, org)
    BY <1>1 DEF Fire, SkipServer, Begin, CreateMeta, Prepare, RecordSuccess, CheckS3, RecordUpload,
                Return, End, UploadKey
  <1>2. CASE OpenOutput(r) \/ Dump(r) \/ Close(r)
    BY <1>2 DEF OpenOutput, Dump, Close, At, Working, Writing
  <1>3. CASE Copy(r)
    BY <1>3 DEF Copy
  <1> QED BY <1>1, <1>2, <1>3 DEF Step

(* The file at another place than those is left as it is.                   *)
LEMMA OtherFilesKept ==
    ASSUME LocalOn, NEW r \in Runs, Fire(r) \/ Step(r), NEW place \in DOMAIN files,
           place # ByType(r), pc[r] \in Working => place # Primary(r)
    PROVE  place \in DOMAIN files' /\ files'[place] = files[place]
  <1>1. CASE UNCHANGED files
    BY <1>1
  <1>2. ASSUME NEW key, NEW value, key # place, files' = Put(files, key, value)
        PROVE  place \in DOMAIN files' /\ files'[place] = files[place]
    BY <1>2 DEF Put
  <1> QED BY <1>1, <1>2, FileWrites

(* Every step keeps a file that is open with the run that opened it.        *)
LEMMA OpenStep == BaseInv /\ NoTwins /\ OpenInv /\ [Next]_vars => OpenInv'
  <1> SUFFICES ASSUME BaseInv, NoTwins, OpenInv, [Next]_vars, LocalOn,
                      NEW q \in Runs, pc'[q] \in Writing
               PROVE  files'[Primary(q)'] = "open"
    BY DEF OpenInv, LocalOn
  <1> USE DEF At, Goto
  <1>0. ASSUME pc[q] \in Writing
        PROVE  /\ Primary(q) \in DOMAIN files /\ files[Primary(q)] = "open"
               /\ \A r \in Runs : Primary(q) # ByType(r)
    BY <1>0 DEF OpenInv, BaseInv, FilesInv, Primary, ByType, Place
  <1>1. ASSUME todo'[q] = todo[q], stamp'[q] = stamp[q]
        PROVE  Primary(q)' = Primary(q)
    BY <1>1 DEF Primary, Target, LocalOn
  <1>2. ASSUME NEW r \in Runs, Fire(r) \/ Step(r), r # q PROVE files'[Primary(q)'] = "open"
    <2>1. pc[q] \in Writing /\ Primary(q)' = Primary(q)
      BY <1>1, <1>2, OthersWait DEF BaseInv
    <2>2. pc[r] \in Working => Primary(q) # Primary(r)
      BY <1>2, <2>1, FilesApart DEF Working
    <2> QED BY <1>0, <1>2, <2>1, <2>2, OtherFilesKept
  <1>3. CASE OpenOutput(q)
    <2>1. ASSUME NEW w \in Writers(Primary(q)) PROVE FALSE
      <3>1. w \in Runs /\ pc[w] \in Writing /\ Primary(w) = Primary(q) /\ pc[q] = "open"
        BY <1>3, <2>1 DEF OpenOutput, Writers, Writing
      <3>2. w # q
        BY <3>1 DEF Writing
      <3> QED BY <3>1, <3>2, FilesApart DEF Working
    <2>2. UNCHANGED <<todo, stamp>>
      BY <1>3 DEF OpenOutput
    <2>3. files' = Put(files, Primary(q), "open")
      <3>1. ~Fail(q)
        BY DEF Fail, BaseInv, ControlInv, Writing
      <3> QED BY <1>3, <2>1, <3>1 DEF OpenOutput
    <2> QED BY <1>1, <2>2, <2>3 DEF Put
  <1>4. CASE \/ Dump(q) \/ Copy(q) \/ RecordSuccess(q) \/ CheckS3(q) \/ RecordUpload(q)
             \/ \E org \in Organisations : UploadKey(q, org)
    <2>1. pc[q] \in Writing /\ UNCHANGED <<todo, stamp>>
      BY <1>4 DEF Dump, Copy, RecordSuccess, CheckS3, RecordUpload, UploadKey, Writing
    <2>2. UNCHANGED files \/ \E value : files' = Put(files, ByType(q), value)
      <3>1. CASE Dump(q)
        <4>1. ~Fail(q)
          BY DEF Fail, BaseInv, ControlInv, Writing
        <4> QED BY <3>1, <4>1 DEF Dump
      <3>2. CASE \/ Copy(q) \/ RecordSuccess(q) \/ CheckS3(q) \/ RecordUpload(q)
                 \/ \E org \in Organisations : UploadKey(q, org)
        BY <3>2 DEF Copy, RecordSuccess, CheckS3, RecordUpload, UploadKey
      <3> QED BY <1>4, <3>1, <3>2
    <2> QED BY <1>0, <1>1, <2>1, <2>2 DEF Put
  <1>5. CASE \/ Fire(q) \/ SkipServer(q) \/ Begin(q) \/ CreateMeta(q) \/ Prepare(q) \/ Close(q)
             \/ Return(q) \/ End(q)
    BY <1>5 DEF Fire, SkipServer, Begin, CreateMeta, Prepare, Fail, Close, Return, End, Writing,
                BaseInv, ControlInv
  <1>6. CASE Crash
    BY <1>6 DEF Crash, Writing
  <1>7. CASE Environment
    <2>1. UNCHANGED <<pc, todo, stamp, files>>
      BY <1>7, EnvironmentSteps
    <2> QED BY <1>0, <1>1, <2>1
  <1>8. CASE \E r \in Runs : Fire(r) \/ Step(r)
    BY <1>2, <1>3, <1>4, <1>5, <1>8 DEF Step
  <1> QED BY <1>6, <1>7, <1>8, KindsOfSteps

(* A run that is done with its record stays on its way to closing the file, *)
(* until it does.                                                           *)
LEMMA ClosingSteps ==
    ASSUME ControlInv, NEW r \in Runs, Step(r), pc[r] \in {"check", "upload", "close"}
    PROVE  \/ pc'[r] \in {"check", "upload", "close"} /\ UNCHANGED todo
           \/ Close(r)
  <1> USE DEF At, Goto, ControlInv
  <1>1. CASE \/ SkipServer(r) \/ Begin(r) \/ CreateMeta(r) \/ Prepare(r) \/ OpenOutput(r) \/ Dump(r)
             \/ Copy(r) \/ RecordSuccess(r) \/ Return(r) \/ End(r)
    BY <1>1 DEF SkipServer, Begin, CreateMeta, Prepare, OpenOutput, Dump, Copy, RecordSuccess,
                Return, End
  <1>2. CASE CheckS3(r) \/ RecordUpload(r) \/ \E org \in Organisations : UploadKey(r, org)
    BY <1>2 DEF CheckS3, RecordUpload, UploadKey
  <1> QED BY <1>1, <1>2 DEF Step

(* The file of a decided backup, once whole, is left alone: only the run    *)
(* that made it writes to it, and that run has closed it.                   *)
LEMMA WholeKept ==
    ASSUME BaseInv, NoTwins, DecidedInv, OpenInv, LocalOn, [Next]_vars,
           NEW n \in DOMAIN backups, backups[n].status = "success",
           Holds(files, FileOf(n, "by-server"), "whole")
    PROVE  Holds(files, FileOf(n, "by-server"), "whole")'
  <1>1. n \in DOMAIN origin /\ FileOf(n, "by-server")' = FileOf(n, "by-server")
    BY OriginGrows DEF BaseInv, RecordsInv, FileOf
  <1>2. ASSUME NEW r \in Runs, Fire(r) \/ Step(r)
        PROVE  Holds(files, FileOf(n, "by-server"), "whole")'
    <2>1. FileOf(n, "by-server") # ByType(r)
      BY DEF FileOf, ByType, Place
    <2>2. ASSUME pc[r] \in Working, FileOf(n, "by-server") = Primary(r) PROVE FALSE
      <3>1. PICK own \in DOMAIN origin : Own(r, own)
        BY <2>2, BusyIsOwn
      <3>2. n = own
        BY <1>1, <2>2, <3>1 DEF NoTwins, Own, FileOf, Primary, Place
      <3>3. CASE pc[r] \in Writing
        BY <2>2, <3>3 DEF OpenInv, Holds
      <3>4. CASE pc[r] \in {"prepare", "open"}
        BY <3>1, <3>2, <3>4 DEF DecidedInv, Undecided, Busy, Own
      <3> QED BY <2>2, <3>3, <3>4 DEF Working
    <2> QED BY <1>1, <1>2, <2>1, <2>2, OtherFilesKept DEF Holds
  <1>3. CASE Crash
    BY <1>1, <1>3 DEF Crash, Holds, AsRead
  <1>4. CASE Environment
    <2>1. UNCHANGED files
      BY <1>4, EnvironmentSteps
    <2> QED BY <1>1, <2>1 DEF Holds
  <1> QED BY <1>2, <1>3, <1>4, KindsOfSteps

(* The run of a decided backup goes on to close the file, unless it dies,   *)
(* and leaves it whole or torn.                                             *)
LEMMA ClosingKept ==
    ASSUME BaseInv, NoTwins, OpenInv, LocalOn, [Next]_vars, ~Crash,
           NEW n \in DOMAIN backups, Busy(n, {"check", "upload", "close"})
    PROVE  \/ Busy(n, {"check", "upload", "close"})'
           \/ Holds(files, FileOf(n, "by-server"), "whole")'
           \/ n \in torn'
  <1>1. /\ n \in DOMAIN origin /\ origin[n].run \in Runs /\ origin'[n] = origin[n]
        /\ FileOf(n, "by-server")' = FileOf(n, "by-server")
    BY OriginGrows DEF BaseInv, RecordsInv, OriginInv, OriginRecord, FileOf
  <1>2. ASSUME NEW r \in Runs, Fire(r) \/ Step(r), r # origin[n].run
        PROVE  Busy(n, {"check", "upload", "close"})'
    BY <1>1, <1>2, OthersBusy
  <1>3. ASSUME NEW r \in Runs, Fire(r) \/ Step(r), r = origin[n].run
        PROVE  \/ Busy(n, {"check", "upload", "close"})'
               \/ Holds(files, FileOf(n, "by-server"), "whole")'
               \/ n \in torn'
    <2>1. pc[r] \in {"check", "upload", "close"} /\ Step(r)
      BY <1>3 DEF Busy, Fire, At
    <2>2. CASE pc'[r] \in {"check", "upload", "close"} /\ UNCHANGED todo
      BY <1>1, <1>3, <2>2 DEF Busy
    <2>3. CASE Close(r)
      <3>1. PICK own \in DOMAIN origin :
                /\ Own(r, own)
                /\ \A m \in DOMAIN origin : \A labels :
                      (origin[m].run = r /\ Busy(m, labels)) => m = own
        BY <2>1, BusyIsOwn DEF Working, Writing
      <3>2. n = own
        BY <1>1, <1>3, <3>1
      <3>3. FileOf(n, "by-server") = Primary(r)
        BY <3>1, <3>2 DEF Own, FileOf, Primary
      <3>4. files[Primary(r)] = "open"
        BY <2>1 DEF OpenInv, Writing
      <3>5. files' = Put(files, Primary(r), "whole") \/ torn' = torn \cup OwnRecords(r)
        BY <2>3, <3>4 DEF Close, Closed
      <3>6. n \in OwnRecords(r)
        BY <1>1, <3>1, <3>2 DEF Own, OwnRecords
      <3> QED BY <1>1, <3>3, <3>5, <3>6 DEF Holds, Put
    <2> QED BY <2>1, <2>2, <2>3, ClosingSteps DEF BaseInv
  <1>4. CASE Environment
    <2>1. UNCHANGED <<pc, todo, origin>>
      BY <1>4, EnvironmentSteps
    <2> QED BY <2>1 DEF Busy
  <1> QED BY <1>2, <1>3, <1>4, KindsOfSteps

(* Every step keeps the file of a successful record whole, or open.         *)
LEMMA WholeStep ==
    BaseInv /\ NoTwins /\ DecidedInv /\ OpenInv /\ WholeInv /\ [Next]_vars => WholeInv'
  <1> SUFFICES ASSUME BaseInv, NoTwins, DecidedInv, OpenInv, WholeInv, [Next]_vars, LocalOn,
                      NEW n \in DOMAIN backups', n \notin interrupted' \cup torn',
                      backups'[n].status = "success"
               PROVE  \/ Busy(n, {"check", "upload", "close"})'
                      \/ Holds(files, FileOf(n, "by-server"), "whole")'
    BY DEF WholeInv, LocalOn
  <1>1. ASSUME n \in DOMAIN backups, backups[n].status = "success", ~Crash
        PROVE  \/ Busy(n, {"check", "upload", "close"})'
               \/ Holds(files, FileOf(n, "by-server"), "whole")'
    <2>1. n \notin interrupted \cup torn
      BY GhostsGrow DEF BaseInv
    <2>2. CASE Busy(n, {"check", "upload", "close"})
      BY <1>1, <2>2, ClosingKept
    <2>3. CASE Holds(files, FileOf(n, "by-server"), "whole")
      BY <1>1, <2>3, WholeKept
    <2> QED BY <1>1, <2>1, <2>2, <2>3 DEF WholeInv
  <1>2. CASE Crash
    <2>1. /\ UNCHANGED <<backups, origin, torn>>
          /\ interrupted' = interrupted \cup {m \in DOMAIN origin : Unfinished(m)}
      BY <1>2 DEF Crash
    <2>2. n \in DOMAIN backups /\ n \in DOMAIN origin /\ n \notin interrupted \cup torn
          /\ ~Unfinished(n)
      BY <2>1 DEF BaseInv, RecordsInv
    <2>3. Holds(files, FileOf(n, "by-server"), "whole")
      BY <2>1, <2>2 DEF WholeInv, Unfinished
    <2> QED BY <2>1, <2>2, <2>3, WholeKept
  <1>3. ASSUME NEW r \in Runs, CreateMeta(r) PROVE n \in DOMAIN backups /\ backups[n].status = "success"
    <2>1. UNCHANGED backups \/ backups' = WithNew(backups, NextNumber, Target(r), clock)
      BY <1>3 DEF CreateMeta
    <2>2. NewRecord(Target(r), clock).status = "pending"
      BY DEF NewRecord
    <2> QED BY <2>1, <2>2 DEF WithNew
  <1>4. ASSUME NEW r \in Runs, FailStep(r)
        PROVE  n \in DOMAIN backups /\ backups[n].status = "success"
    BY <1>4, StatusEdits DEF FailStep, RecordSuccess, At
  <1>5. ASSUME NEW r \in Runs, RecordSuccess(r)
        PROVE  \/ Busy(n, {"check", "upload", "close"})'
               \/ n \in DOMAIN backups /\ backups[n].status = "success"
    <2>1. PICK own \in DOMAIN origin :
              /\ Own(r, own)
              /\ DOMAIN backups' = DOMAIN backups
              /\ \A m \in DOMAIN backups : m # own => backups'[m] = backups[m]
      BY <1>5, StatusEdits
    <2>2. pc'[r] = "check" /\ UNCHANGED <<todo, origin>>
      BY <1>5 DEF RecordSuccess, Goto, ghosts, BaseInv, ControlInv
    <2>3. CASE n = own
      BY <2>1, <2>2, <2>3 DEF Busy, Own
    <2> QED BY <2>1, <2>3
  <1>6. ASSUME NEW r \in Runs, NoteStep(r)
        PROVE  n \in DOMAIN backups /\ backups[n].status = "success"
    BY <1>6, UploadEdits
  <1>7. ASSUME (\E id : DeleteBackup(id)) \/ backups' = Purged(backups, clock)
        PROVE  n \in DOMAIN backups /\ backups[n].status = "success"
    BY <1>7, CleanupEdits
  <1>8. \/ n \in DOMAIN backups /\ backups[n].status = "success"
        \/ Busy(n, {"check", "upload", "close"})'
    <2>1. CASE UNCHANGED <<backups, origin>>
      BY <2>1
    <2> QED BY <1>3, <1>4, <1>5, <1>6, <1>7, <2>1, LogSteps DEF BaseInv
  <1> QED BY <1>1, <1>2, <1>8

-------------------------------------------------------------------------------
(* The parts about the outcomes hold as long as there are no twins.         *)
LEMMA OutcomeInvariant == Spec => [](BaseInv /\ OutcomeInv)
<1>1. Init => OutcomeInv
  <2> SUFFICES ASSUME Init PROVE OutcomeInv
    OBVIOUS
  <2>1. /\ DOMAIN backups = {} /\ DOMAIN objects = {} /\ DOMAIN origin = {}
        /\ \A r \in Runs : pc[r] = "idle" /\ sent[r] = {}
        /\ changes = 0 /\ s3 = AtStart(CfgS3, CfgBucket)
    BY DEF Init, EmptyLog, AtStart
  <2>4. QuietInv
    BY <2>1 DEF QuietInv
  <2>2. SentInv
    BY <2>1 DEF SentInv
  <2>3. PendingMeansInProgress /\ UploadedInv /\ DecidedInv /\ OpenInv /\ WholeInv
    BY <2>1 DEF PendingMeansInProgress, UploadedInv, DecidedInv, OpenInv, WholeInv, Writing
  <2> QED BY <2>2, <2>3, <2>4 DEF OutcomeInv, OutcomeParts
<1>2. BaseInv /\ OutcomeInv /\ [Next]_vars => OutcomeInv'
  <2> SUFFICES ASSUME BaseInv, OutcomeInv, [Next]_vars PROVE OutcomeInv'
    OBVIOUS
  <2>1. SentInv' /\ QuietInv'
    BY SentStep, QuietStep DEF OutcomeInv
  <2>2. ASSUME NoTwins' PROVE OutcomeParts'
    <3>1. NoTwins /\ OutcomeParts /\ SentInv
      BY <2>2, OriginGrows DEF OutcomeInv
    <3> QED BY <3>1, PendingStep, UploadedStep, DecidedStep, OpenStep, WholeStep DEF OutcomeParts
  <2> QED BY <2>1, <2>2 DEF OutcomeInv
<1> QED BY <1>1, <1>2, BaseInvariant, PTL DEF Spec

(* As long as there are no twins, a record is pending only while its run is *)
(* on its way to an outcome: every way out of backupDatabase records one    *)
(* unless the store refuses it, and no other run, deletion or purge gets in *)
(* between.                                                                 *)
THEOREM EveryWayOutIsRecorded == Spec => [](NoTwins => PendingMeansInProgress)
<1>1. OutcomeInv => (NoTwins => PendingMeansInProgress)
  BY DEF OutcomeInv, OutcomeParts
<1> QED BY <1>1, OutcomeInvariant, PTL

(* The record a download finds by its identifier is the record itself.      *)
LEMMA FoundByID ==
    ASSUME BaseInv, NoTwins, NEW n \in DOMAIN backups
    PROVE  GetBackupByID(backups[n].id) = n /\ Known(backups, backups[n].id)
  <1>1. IsLog(backups) /\ OneRecordEach(backups)
    BY NoTwinRecords DEF BaseInv, RecordsInv
  <1>2. \A m \in DOMAIN backups : IsFirst(backups, backups[n].id, m) <=> m = n
    BY <1>1, FirstIsTheOne DEF OneRecordEach
  <1> QED BY <1>2 DEF GetBackupByID, Known, Matches

(* As long as there are no twins, an upload recorded as successful left an  *)
(* object under every key its run had made; if nobody changed the S3        *)
(* configuration meanwhile, the link offered leads to one of them.          *)
THEOREM RecordedUploadsExist == Spec => [](NoTwins => S3SuccessMeansUploaded)
<1>1. ASSUME BaseInv, OutcomeInv, NoTwins PROVE S3SuccessMeansUploaded
  <2> SUFFICES ASSUME NEW n \in DOMAIN backups, backups[n].s3 = "success"
               PROVE  /\ keys[n] = origin[n].named
                      /\ \A org \in keys[n] : \E bucket \in Buckets :
                            ObjectAt(bucket, FileOf(n, org)) \in DOMAIN objects
                      /\ changes = 0 => \E object \in downloadS3BackupHandler(backups[n].id) :
                                            object \in DOMAIN objects
    BY DEF S3SuccessMeansUploaded
  <2>1. /\ keys[n] = origin[n].named
        /\ \A org \in keys[n] : \E bucket \in Buckets :
              ObjectAt(bucket, FileOf(n, org)) \in DOMAIN objects
    BY <1>1 DEF OutcomeInv, OutcomeParts, UploadedInv, InABucket
  <2>2. ASSUME changes = 0
        PROVE  \E object \in downloadS3BackupHandler(backups[n].id) : object \in DOMAIN objects
    <3>1. /\ s3.enabled = TRUE /\ s3.bucket = CfgBucket
          /\ DOMAIN objects \subseteq {CfgBucket} \X Places
          /\ origin[n].named = Organisations
      <4>1. n \in DOMAIN origin
        BY <1>1 DEF BaseInv, RecordsInv
      <4>2. CfgS3 = TRUE
        BY <1>1, <2>2, PipelineAssumption DEF OutcomeInv, QuietInv
      <4>3. /\ s3 = AtStart(CfgS3, CfgBucket)
            /\ DOMAIN objects \subseteq {CfgBucket} \X Places
            /\ origin[n].named = CfgKeys
        BY <1>1, <2>2, <4>1 DEF OutcomeInv, QuietInv
      <4>4. s3 = AtStart(TRUE, CfgBucket) /\ CfgKeys = Organisations
        BY <4>2, <4>3, Zenon DEF CfgKeys
      <4>5. AtStart(TRUE, CfgBucket).enabled = TRUE /\ AtStart(TRUE, CfgBucket).bucket = CfgBucket
        BY DEF AtStart
      <4> QED BY ONLY <4>3, <4>4, <4>5
    <3>2. "by-server" \in Organisations
      BY DEF Organisations
    <3>3. "by-server" \in keys[n]
      BY <2>1, <3>1, <3>2
    <3>4. PICK bucket \in Buckets : ObjectAt(bucket, FileOf(n, "by-server")) \in DOMAIN objects
      BY <2>1, <3>3
    <3>5. bucket = s3.bucket
      BY <3>1, <3>4 DEF ObjectAt
    <3>6. downloadS3BackupHandler(backups[n].id) = {ObjectAt(s3.bucket, FileOf(n, "by-server"))}
      BY <1>1, <3>1, <3>3, FoundByID DEF downloadS3BackupHandler
    <3> QED BY <3>4, <3>5, <3>6
  <2> QED BY <2>1, <2>2
<1> QED BY <1>1, OutcomeInvariant, PTL

(* As long as there are no twins, a backup recorded as successful whose run *)
(* has let go of its file downloads whole, unless a crash cut the run short *)
(* or the end of the file could not be written.                             *)
THEOREM SuccessDownloadsWhole == Spec => [](NoTwins => SuccessIsRestorable)
<1>1. ASSUME BaseInv, OutcomeInv, NoTwins PROVE SuccessIsRestorable
  <2> SUFFICES ASSUME NEW n \in DOMAIN backups \ (interrupted \cup torn), LocalOn,
                      backups[n].status = "success", ~Unfinished(n)
               PROVE  /\ downloadLocalBackupHandler(backups[n].id) = "whole"
                      /\ Holds(files, FileOf(n, "by-server"), "whole")
    BY DEF SuccessIsRestorable
  <2>1. Holds(files, FileOf(n, "by-server"), "whole")
    BY <1>1 DEF OutcomeInv, OutcomeParts, WholeInv, Unfinished
  <2>2. backups[n].paths # {}
    BY <1>1 DEF BaseInv, RecordsInv, LocalPaths, LocalOn, Organisations
  <2>3. GetBackupByID(backups[n].id) = n /\ Known(backups, backups[n].id)
    BY <1>1, FoundByID
  <2> QED BY <2>1, <2>2, <2>3 DEF downloadLocalBackupHandler, Holds, AsRead
<1> QED BY <1>1, OutcomeInvariant, PTL

(* As long as there are no twins, no step makes a deleted record live again *)
(* but the outcome of the very backup that was running when it was deleted. *)
THEOREM OnlyItsBackupRevives == Spec /\ []NoTwins => OnlyItsRunRevives
<1>1. ASSUME BaseInv, NoTwins, [Next]_vars, NEW n \in DOMAIN backups \cap DOMAIN backups',
             backups[n].status = "deleted", backups'[n].status # "deleted"
      PROVE  Undecided(n)
  <2>0. backups[n] \in Record
    BY <1>1 DEF BaseInv, RecordsInv, IsLog
  <2>1. CASE UNCHANGED <<backups, origin>>
    BY <1>1, <2>1
  <2>2. ASSUME NEW r \in Runs, CreateMeta(r) PROVE FALSE
    <3>1. UNCHANGED backups \/ backups' = WithNew(backups, NextNumber, Target(r), clock)
      BY <2>2 DEF CreateMeta
    <3>2. n # NextNumber
      BY <1>1, NextIsNew DEF BaseInv, RecordsInv
    <3> QED BY <1>1, <3>1, <3>2 DEF WithNew
  <2>3. ASSUME NEW r \in Runs, FailStep(r) \/ RecordSuccess(r) PROVE Undecided(n)
    <3>1. PICK own \in DOMAIN origin :
              Own(r, own) /\ \A m \in DOMAIN backups : m # own => backups'[m] = backups[m]
      BY <1>1, <2>3, StatusEdits
    <3>2. n = own
      BY <1>1, <3>1
    <3>3. pc[r] \in Deciding
      BY <2>3 DEF FailStep, RecordSuccess, At, Deciding
    <3> QED BY <3>1, <3>2, <3>3 DEF Own, Undecided, Busy, Deciding
  <2>4. ASSUME NEW r \in Runs, NoteStep(r) PROVE FALSE
    BY <1>1, <2>4, UploadEdits
  <2>5. ASSUME NEW id, DeleteBackup(id) PROVE FALSE
    <3>1. backups'[n] = backups[n] \/ backups'[n] = Deleted(backups[n])
      BY <1>1, <2>5 DEF DeleteBackup, WithDeletion, EditFirst
    <3> QED BY <1>1, <2>0, <3>1 DEF Deleted, Record
  <2>6. CASE backups' = Purged(backups, clock)
    BY <1>1, <2>6 DEF Purged
  <2> QED BY <1>1, <2>1, <2>2, <2>3, <2>4, <2>5, <2>6, LogSteps DEF BaseInv
<1>2. BaseInv /\ NoTwins /\ [Next]_vars =>
         [\A n \in DOMAIN backups \cap DOMAIN backups' :
             (backups[n].status = "deleted" /\ backups'[n].status # "deleted") => Undecided(n)]_vars
  BY <1>1
<1> QED BY <1>2, BaseInvariant, PTL DEF Spec, OnlyItsRunRevives

-------------------------------------------------------------------------------
(* When are there no twins?  Certainly when every printed name is on one    *)
(* list only, and there once.                                               *)
NamesOnce ==
    \A q, r \in Runs : \A i \in 1..Len(Work[q]), j \in 1..Len(Work[r]) :
        NameOf[Work[q][i]] = NameOf[Work[r][j]] => q = r /\ i = j

(* What a run has left is the end of its list, and a record stands for the  *)
(* target its run had in hand.                                              *)
IsEnd(s, t) ==
    /\ Len(s) <= Len(t)
    /\ \A i \in 1..Len(s) : s[i] = t[Len(t) - Len(s) + i]

PlaceInWork(n) ==
    LET list == Work[origin[n].run]
    IN  /\ origin[n].left \in 1..Len(list)
        /\ origin[n].target = list[Len(list) - origin[n].left + 1]

PositionInv ==
    /\ \A r \in Runs : IsEnd(todo[r], Work[r])
    /\ \A n \in DOMAIN origin : PlaceInWork(n)

(* Cutting the front off an end leaves an end.                              *)
LEMMA EndOfEnd ==
    ASSUME NEW s \in Seq(Targets), NEW t \in Seq(Targets), IsEnd(s, t), NEW k \in 1..Len(s)
    PROVE  IsEnd(SubSeq(s, k + 1, Len(s)), t)
  <1>1. /\ Len(SubSeq(s, k + 1, Len(s))) = Len(s) - k
        /\ \A i \in 1..(Len(s) - k) : SubSeq(s, k + 1, Len(s))[i] = s[i + k]
    OBVIOUS
  <1>2. Len(s) \in Nat /\ Len(t) \in Nat
    OBVIOUS
  <1>3. ASSUME NEW i \in 1..(Len(s) - k) PROVE s[i + k] = t[Len(t) - (Len(s) - k) + i]
    <2>1. i + k \in 1..Len(s) /\ Len(t) - Len(s) + (i + k) = Len(t) - (Len(s) - k) + i
      BY <1>2
    <2> QED BY <2>1 DEF IsEnd
  <1> DEFINE rest == SubSeq(s, k + 1, Len(s))
  <1>4. Len(rest) = Len(s) - k /\ \A i \in 1..(Len(s) - k) : rest[i] = t[Len(t) - (Len(s) - k) + i]
    BY <1>1, <1>3
  <1>5. Len(s) - k <= Len(t)
    BY <1>2 DEF IsEnd
  <1> HIDE DEF rest
  <1>6. IsEnd(rest, t)
    BY <1>4, <1>5 DEF IsEnd
  <1> QED BY <1>6 DEF rest

(* What is left of a list after one more of its elements is still an end of *)
(* it.                                                                      *)
LEMMA TailOfEnd ==
    ASSUME NEW s \in Seq(Targets), NEW t \in Seq(Targets), IsEnd(s, t), s # <<>>
    PROVE  IsEnd(Tail(s), t)
  <1>1. /\ Len(Tail(s)) = Len(s) - 1
        /\ \A i \in 1..Len(Tail(s)) : Tail(s)[i] = s[i + 1]
    BY TailFacts
  <1>2. Len(s) \in Nat /\ Len(t) \in Nat
    OBVIOUS
  <1>3. ASSUME NEW i \in 1..(Len(s) - 1) PROVE s[i + 1] = t[Len(t) - (Len(s) - 1) + i]
    <2>1. i + 1 \in 1..Len(s) /\ Len(t) - Len(s) + (i + 1) = Len(t) - (Len(s) - 1) + i
      BY <1>2
    <2> QED BY <2>1 DEF IsEnd
  <1> QED BY <1>1, <1>2, <1>3 DEF IsEnd

(* A run's work in hand is always an end of the work it was given.          *)
LEMMA PositionInvariant == Spec => []PositionInv
<1>1. Init => PositionInv
  <2> SUFFICES ASSUME Init PROVE PositionInv
    OBVIOUS
  <2>1. todo = Work /\ DOMAIN origin = {}
    BY DEF Init, EmptyLog
  <2>2. ASSUME NEW r \in Runs PROVE IsEnd(Work[r], Work[r])
    <3>1. Len(Work[r]) \in Nat
      BY PipelineAssumption
    <3>2. \A i \in 1..Len(Work[r]) : Len(Work[r]) - Len(Work[r]) + i = i
      BY <3>1
    <3> QED BY <3>1, <3>2 DEF IsEnd
  <2> QED BY <2>1, <2>2 DEF PositionInv
<1>2. BaseInv /\ PositionInv /\ [Next]_vars => PositionInv'
  <2> SUFFICES ASSUME BaseInv, PositionInv, [Next]_vars PROVE PositionInv'
    OBVIOUS
  <2>1. \A r \in Runs : todo[r] \in Seq(Targets) /\ Work[r] \in Seq(Targets)
    BY PipelineAssumption DEF BaseInv, ControlInv
  <2>2. ASSUME NEW r \in Runs, CreateMeta(r) PROVE PositionInv'
    <3>1. PICK new : /\ DOMAIN origin' = DOMAIN origin \cup {new}
                     /\ origin'[new].run = r /\ origin'[new].left = Len(todo[r])
                     /\ origin'[new].target = Target(r)
                     /\ \A n \in DOMAIN origin : origin'[n] = origin[n]
      <4>1. NextNumber \notin DOMAIN origin
        BY NextIsNew DEF BaseInv
      <4> QED BY <2>2, <4>1 DEF CreateMeta, Put
    <3>2. UNCHANGED todo /\ pc[r] \in InHand
      BY <2>2 DEF CreateMeta, At, InHand
    <3>3. Target(r) = todo[r][1] /\ Len(todo[r]) \in Nat \ {0}
      BY <3>2, TargetType, TailFacts DEF Target, BaseInv
    <3>4. PlaceInWork(new)'
      <4>1. Len(Work[r]) \in Nat
        BY <2>1
      <4>2. IsEnd(todo[r], Work[r])
        BY DEF PositionInv
      <4>3. /\ Len(todo[r]) \in 1..Len(Work[r])
            /\ Target(r) = Work[r][Len(Work[r]) - Len(todo[r]) + 1]
        <5>1. Len(todo[r]) <= Len(Work[r]) /\ 1 \in 1..Len(todo[r])
          BY <3>3, <4>2 DEF IsEnd
        <5>2. todo[r][1] = Work[r][Len(Work[r]) - Len(todo[r]) + 1]
          BY <4>2, <5>1 DEF IsEnd
        <5> QED BY <3>3, <4>1, <5>1, <5>2
      <4> QED BY <3>1, <4>3 DEF PlaceInWork
    <3>5. \A n \in DOMAIN origin : PlaceInWork(n)'
      BY <3>1 DEF PositionInv, PlaceInWork
    <3> QED BY <3>1, <3>2, <3>4, <3>5 DEF PositionInv
  <2>9. ASSUME NEW r \in Runs, NEW end, IsEnd(end, Work[r]), todo' = [todo EXCEPT ![r] = end],
               UNCHANGED origin
        PROVE  PositionInv'
    <3>1. ASSUME NEW q \in Runs PROVE IsEnd(todo'[q], Work[q])
      <4>1. CASE q = r
        <5>1. todo'[q] = end
          BY <2>9, <4>1 DEF BaseInv, ControlInv
        <5> QED BY <2>9, <4>1, <5>1
      <4>2. CASE q # r
        <5>1. todo'[q] = todo[q]
          BY <2>9, <4>2 DEF BaseInv, ControlInv
        <5> QED BY <5>1 DEF PositionInv
      <4> QED BY <4>1, <4>2
    <3>2. \A n \in DOMAIN origin' : PlaceInWork(n)'
      BY <2>9 DEF PositionInv, PlaceInWork
    <3> QED BY <3>1, <3>2 DEF PositionInv
  <2>3. ASSUME NEW r \in Runs, SkipServer(r) PROVE PositionInv'
    <3>1. UNCHANGED origin
      BY <2>3 DEF SkipServer, ghosts
    <3>2. PICK k \in 1..Len(todo[r]) :
              todo' = [todo EXCEPT ![r] = SubSeq(todo[r], k + 1, Len(todo[r]))]
      BY <2>3 DEF SkipServer
    <3>3. IsEnd(SubSeq(todo[r], k + 1, Len(todo[r])), Work[r])
      BY <2>1, EndOfEnd DEF PositionInv
    <3> QED BY <2>9, <3>1, <3>2, <3>3
  <2>4. ASSUME NEW r \in Runs, Return(r) PROVE PositionInv'
    <3>1. UNCHANGED origin /\ todo' = [todo EXCEPT ![r] = Tail(todo[r])]
      BY <2>4 DEF Return, ghosts
    <3>2. todo[r] # <<>>
      BY <2>4, TargetType DEF Return, At, InHand, BaseInv
    <3>3. IsEnd(Tail(todo[r]), Work[r])
      BY <2>1, <3>2, TailOfEnd DEF PositionInv
    <3> QED BY <2>9, <3>1, <3>3
  <2>5. ASSUME UNCHANGED <<todo, origin>> PROVE PositionInv'
    BY <2>5 DEF PositionInv, PlaceInWork
  <2>6. ASSUME NEW r \in Runs, Fire(r) \/ Step(r), ~CreateMeta(r), ~SkipServer(r), ~Return(r)
        PROVE  UNCHANGED <<todo, origin>>
    BY <2>6 DEF Fire, Step, Begin, Prepare, OpenOutput, Dump, Copy, RecordSuccess, CheckS3,
                UploadKey, RecordUpload, Close, End, ghosts
  <2>7. CASE Crash \/ Environment
    <3>1. UNCHANGED <<todo, origin>>
      BY <2>7, EnvironmentSteps DEF Crash
    <3> QED BY <2>5, <3>1
  <2>8. CASE \E r \in Runs : Fire(r) \/ Step(r)
    BY <2>2, <2>3, <2>4, <2>5, <2>6, <2>8
  <2> QED BY <2>7, <2>8, KindsOfSteps
<1> QED BY <1>1, <1>2, BaseInvariant, PTL DEF Spec

(* If no name is on two lists, or on one twice, there are never any twins,  *)
(* whatever the clock does: every theorem above then holds of every state.  *)
THEOREM NamesOnceMeansNoTwins == NamesOnce => (Spec => []NoTwins)
<1> SUFFICES ASSUME NamesOnce PROVE Spec => []NoTwins
  OBVIOUS
<1>1. ASSUME BaseInv, PositionInv PROVE NoTwins
  <2> SUFFICES ASSUME NEW m \in DOMAIN origin, NEW n \in DOMAIN origin, m # n
               PROVE  NameOf[origin[m].target] # NameOf[origin[n].target]
    BY DEF NoTwins, MadeAs, IdAt
  <2>1. origin[m] \in OriginRecord /\ origin[n] \in OriginRecord
    BY <1>1 DEF BaseInv, OriginInv
  <2>2. PlaceInWork(m) /\ PlaceInWork(n)
    BY <1>1 DEF PositionInv
  <2> DEFINE lm == Len(Work[origin[m].run])
             ln == Len(Work[origin[n].run])
  <2>3. lm \in Nat /\ ln \in Nat /\ origin[m].run \in Runs /\ origin[n].run \in Runs
    BY <2>1, PipelineAssumption DEF OriginRecord
  <2>4. /\ origin[m].left \in 1..lm /\ origin[n].left \in 1..ln
        /\ lm - origin[m].left + 1 \in 1..lm /\ ln - origin[n].left + 1 \in 1..ln
    <3>1. origin[m].left \in 1..lm /\ origin[n].left \in 1..ln
      BY <2>2 DEF PlaceInWork
    <3> HIDE DEF lm, ln
    <3> QED BY <2>3, <3>1
  <2>5. ASSUME origin[m].run = origin[n].run, lm - origin[m].left + 1 = ln - origin[n].left + 1
        PROVE  FALSE
    <3>1. origin[m].left = origin[n].left
      <4>1. lm = ln
        BY <2>5
      <4> HIDE DEF lm, ln
      <4> QED BY <2>3, <2>4, <2>5, <4>1
    <3> QED BY <1>1, <2>5, <3>1 DEF BaseInv, OriginInv
  <2>6. /\ origin[m].target = Work[origin[m].run][lm - origin[m].left + 1]
        /\ origin[n].target = Work[origin[n].run][ln - origin[n].left + 1]
    BY <2>2 DEF PlaceInWork
  <2>7. ASSUME NEW q \in Runs, NEW r \in Runs, NEW i \in 1..Len(Work[q]), NEW j \in 1..Len(Work[r]),
               NameOf[Work[q][i]] = NameOf[Work[r][j]]
        PROVE  q = r /\ i = j
    BY <2>7 DEF NamesOnce
  <2> SUFFICES ASSUME NameOf[origin[m].target] = NameOf[origin[n].target] PROVE FALSE
    OBVIOUS
  <2>8. /\ origin[m].run = origin[n].run
        /\ lm - origin[m].left + 1 = ln - origin[n].left + 1
    <3> DEFINE i == lm - origin[m].left + 1
               j == ln - origin[n].left + 1
    <3>1. i \in 1..Len(Work[origin[m].run]) /\ j \in 1..Len(Work[origin[n].run])
      BY <2>4
    <3>2. NameOf[Work[origin[m].run][i]] = NameOf[Work[origin[n].run][j]]
      BY <2>6
    <3> HIDE DEF i, j
    <3>3. origin[m].run = origin[n].run /\ i = j
      BY <2>3, <2>7, <3>1, <3>2
    <3> QED BY <3>3 DEF i, j
  <2> QED BY <2>5, <2>8
<1> QED BY <1>1, BaseInvariant, PositionInvariant, PTL
===============================================================================
