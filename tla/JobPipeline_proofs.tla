-------------------------- MODULE JobPipeline_proofs --------------------------
(***************************************************************************)
(* Theorems about JobPipeline, for every number of jobs, workers and       *)
(* requests and every bound on faults.                                     *)
(***************************************************************************)
EXTENDS JobPipeline, FiniteSetTheorems, TLAPS

\* The initial state is well typed.
LEMMA TypeInit == Init => TypeOK
  BY NoneAssumption DEF Init, TypeOK, WorkerPC, RequestPC, Holding, InTry, Owning, Auditing, Deciding

\* Starting an attempt leaves an entity an entity.
LEMMA RowStart ==
    ASSUME NEW row \in Row
    PROVE  [row EXCEPT !.status = "processing", !.attemptCount = @ + 1] \in Row
<1>1. [row EXCEPT !.status = "processing", !.attemptCount = @ + 1]
         = [[row EXCEPT !.status = "processing"] EXCEPT !.attemptCount = @ + 1]
  OBVIOUS
<1> DEFINE started == [row EXCEPT !.status = "processing"]
<1>2. started \in Row
  BY DEF Row, Status
<1> HIDE DEF started
<1>3. [started EXCEPT !.attemptCount = @ + 1] \in Row
  BY <1>2 DEF Row
<1> QED
  BY <1>1, <1>3 DEF started

\* An UPDATE leaves a row a row, and changes the columns it names.
LEMMA UpdatedRow ==
    ASSUME NEW row \in Row, NEW entity \in Row, NEW columns \in SUBSET Columns
    PROVE  LET new == Updated(row, entity, columns) IN
           /\ new \in Row
           /\ new.status = IF "status" \in columns THEN entity.status ELSE row.status
           /\ new.attemptCount
                = IF "attemptCount" \in columns THEN entity.attemptCount ELSE row.attemptCount
           /\ new.maxAttempts = row.maxAttempts
           /\ new.payload = row.payload
  BY DEF Updated, Row, Columns

\* A SELECT finds the columns in which the entity differs from the row.
LEMMA DiffColumns ==
    ASSUME NEW row \in Row, NEW entity \in Row
    PROVE  /\ Diff(entity, row) \in SUBSET Columns
           /\ "status" \in Diff(entity, row) <=> entity.status # row.status
           /\ "attemptCount" \in Diff(entity, row) <=> entity.attemptCount # row.attemptCount
  BY DEF Diff, Row, Columns

\* What the SELECT of a handler's save does: the entity gets its new status, and
\* the attempt is counted when the job is claimed.
LEMMA Selects ==
    ASSUME TypeOK, NEW w \in Workers,
           SelectProcessing(w) \/ SelectCompleted(w) \/ SelectFailed(w)
    PROVE  \E entity \in Row :
              /\ wjob[w] \in Jobs /\ went[w] \in Row /\ jobs[wjob[w]] \in Row
              /\ went' = [went EXCEPT ![w] = entity] /\ went'[w] = entity
              /\ wdiff' = [wdiff EXCEPT ![w] = Diff(entity, jobs[wjob[w]])]
              /\ Diff(entity, jobs[wjob[w]]) \in SUBSET Columns
              /\ entity.maxAttempts = went[w].maxAttempts /\ entity.payload = went[w].payload
              /\ SelectProcessing(w) => /\ entity.status = "processing"
                                        /\ entity.attemptCount = went[w].attemptCount + 1
              /\ ~SelectProcessing(w) => entity.attemptCount = went[w].attemptCount
              /\ SelectCompleted(w) => entity.status = "completed"
              /\ SelectFailed(w) => entity.status = "failed"
<1> USE NoneAssumption DEF TypeOK, WorkerPC, Holding, InTry, Owning
<1>1. wjob[w] \in Jobs /\ went[w] \in Row /\ jobs[wjob[w]] \in Row
  BY DEF SelectProcessing, SelectCompleted, SelectFailed
<1>2. CASE SelectProcessing(w)
  <2> DEFINE entity == [went[w] EXCEPT !.status = "processing", !.attemptCount = @ + 1]
  <2>1. /\ entity \in Row /\ entity.status = "processing"
        /\ entity.attemptCount = went[w].attemptCount + 1
        /\ entity.maxAttempts = went[w].maxAttempts /\ entity.payload = went[w].payload
    BY ONLY <1>1, RowStart DEF Row
  <2>2. /\ went' = [went EXCEPT ![w] = entity]
        /\ wdiff' = [wdiff EXCEPT ![w] = Diff(entity, jobs[wjob[w]])]
        /\ wpc[w] = "start"
    BY <1>2 DEF SelectProcessing, SelectEntity
  <2> HIDE DEF entity
  <2>3. Diff(entity, jobs[wjob[w]]) \in SUBSET Columns
    BY <1>1, <2>1, DiffColumns
  <2>4. went'[w] = entity /\ ~SelectCompleted(w) /\ ~SelectFailed(w)
    BY <2>2 DEF SelectCompleted, SelectFailed
  <2> QED
    BY <1>1, <1>2, <2>1, <2>2, <2>3, <2>4
<1>3. CASE SelectCompleted(w) \/ SelectFailed(w)
  <2> DEFINE status == IF SelectCompleted(w) THEN "completed" ELSE "failed"
             entity == [went[w] EXCEPT !.status = status]
  <2>1. /\ entity \in Row /\ entity.status = status
        /\ entity.attemptCount = went[w].attemptCount
        /\ entity.maxAttempts = went[w].maxAttempts /\ entity.payload = went[w].payload
    BY ONLY <1>1 DEF Row, Status
  <2>2. /\ ~SelectProcessing(w)
        /\ SelectFailed(w) => ~SelectCompleted(w)
    BY <1>3 DEF SelectProcessing, SelectCompleted, SelectFailed
  <2>3. /\ went' = [went EXCEPT ![w] = entity]
        /\ wdiff' = [wdiff EXCEPT ![w] = Diff(entity, jobs[wjob[w]])]
    <3>1. CASE SelectCompleted(w)
      BY <3>1 DEF SelectCompleted, SelectEntity
    <3>2. CASE ~SelectCompleted(w)
      BY <1>3, <3>2 DEF SelectFailed, SelectEntity
    <3> QED
      BY <3>1, <3>2
  <2> HIDE DEF entity
  <2>4. Diff(entity, jobs[wjob[w]]) \in SUBSET Columns
    BY <1>1, <2>1, DiffColumns
  <2>5. went'[w] = entity
    BY <2>3
  <2> QED
    BY <1>1, <2>1, <2>2, <2>3, <2>4, <2>5
<1> QED
  BY <1>2, <1>3

\* What its UPDATE does.
LEMMA Saves ==
    ASSUME TypeOK, NEW w \in Workers, SaveProcessing(w) \/ SaveCompleted(w) \/ SaveFailed(w)
    PROVE  \E row \in Row :
              /\ wjob[w] \in Jobs /\ went[w] \in Row /\ jobs[wjob[w]] \in Row
              /\ row = Updated(jobs[wjob[w]], went[w], wdiff[w])
              /\ jobs' = [jobs EXCEPT ![wjob[w]] = row] /\ jobs'[wjob[w]] = row
              /\ wdiff' = [wdiff EXCEPT ![w] = {}]
              /\ row.status = IF "status" \in wdiff[w] THEN went[w].status
                              ELSE jobs[wjob[w]].status
              /\ row.attemptCount = IF "attemptCount" \in wdiff[w] THEN went[w].attemptCount
                                    ELSE jobs[wjob[w]].attemptCount
              /\ row.maxAttempts = jobs[wjob[w]].maxAttempts
              /\ row.payload = jobs[wjob[w]].payload
<1> DEFINE row == Updated(jobs[wjob[w]], went[w], wdiff[w])
<1>1. /\ wjob[w] \in Jobs /\ went[w] \in Row /\ jobs[wjob[w]] \in Row
      /\ wdiff[w] \in SUBSET Columns
  BY NoneAssumption DEF TypeOK, WorkerPC, Holding, InTry, Owning, SaveProcessing, SaveCompleted,
                        SaveFailed
<1>2. jobs' = [jobs EXCEPT ![wjob[w]] = row] /\ wdiff' = [wdiff EXCEPT ![w] = {}]
  BY DEF SaveProcessing, SaveCompleted, SaveFailed, SaveEntity
<1>3. jobs'[wjob[w]] = row
  BY <1>1, <1>2 DEF TypeOK
<1>4. /\ row \in Row
      /\ row.status = IF "status" \in wdiff[w] THEN went[w].status ELSE jobs[wjob[w]].status
      /\ row.attemptCount = IF "attemptCount" \in wdiff[w] THEN went[w].attemptCount
                            ELSE jobs[wjob[w]].attemptCount
      /\ row.maxAttempts = jobs[wjob[w]].maxAttempts
      /\ row.payload = jobs[wjob[w]].payload
  BY <1>1, UpdatedRow
<1> HIDE DEF row
<1> QED
  BY <1>1, <1>2, <1>3, <1>4 DEF row

\* The same of the UPDATE of a retry.
LEMMA RetrySaves ==
    ASSUME TypeOK, NEW r \in Requests, RetrySave(r)
    PROVE  \E row \in Row :
              /\ rjob[r] \in Jobs /\ rent[r] \in Row /\ jobs[rjob[r]] \in Row
              /\ row = Updated(jobs[rjob[r]], rent[r], rdiff[r])
              /\ jobs' = [jobs EXCEPT ![rjob[r]] = row] /\ jobs'[rjob[r]] = row
              /\ row.status = IF "status" \in rdiff[r] THEN rent[r].status
                              ELSE jobs[rjob[r]].status
              /\ row.attemptCount = IF "attemptCount" \in rdiff[r] THEN rent[r].attemptCount
                                    ELSE jobs[rjob[r]].attemptCount
              /\ row.maxAttempts = jobs[rjob[r]].maxAttempts
              /\ row.payload = jobs[rjob[r]].payload
<1> DEFINE row == Updated(jobs[rjob[r]], rent[r], rdiff[r])
<1>1. /\ rjob[r] \in Jobs /\ rent[r] \in Row /\ jobs[rjob[r]] \in Row
      /\ rdiff[r] \in SUBSET Columns
  BY NoneAssumption DEF TypeOK, RequestPC, RetrySave
<1>2. jobs' = [jobs EXCEPT ![rjob[r]] = row]
  BY DEF RetrySave
<1>3. jobs'[rjob[r]] = row
  BY <1>1, <1>2 DEF TypeOK
<1>4. /\ row \in Row
      /\ row.status = IF "status" \in rdiff[r] THEN rent[r].status ELSE jobs[rjob[r]].status
      /\ row.attemptCount = IF "attemptCount" \in rdiff[r] THEN rent[r].attemptCount
                            ELSE jobs[rjob[r]].attemptCount
      /\ row.maxAttempts = jobs[rjob[r]].maxAttempts
      /\ row.payload = jobs[rjob[r]].payload
  BY <1>1, UpdatedRow
<1> HIDE DEF row
<1> QED
  BY <1>1, <1>2, <1>3, <1>4 DEF row

\* Giving up an execution that owns an attempt notes that attempt.
LEMMA TypeBreakOff ==
    ASSUME TypeOK, NEW w \in Workers, wpc[w] # "idle", BreakOff(w)
    PROVE  cut' \subseteq [job : Jobs, number : Nat]
<1>1. CASE wpc[w] \in Owning
  <2>1. wjob[w] \in Jobs /\ went[w] \in Row
    BY <1>1 DEF TypeOK, InTry, Owning, Auditing
  <2> QED
    BY <1>1, <2>1 DEF BreakOff, TypeOK, Row
<1>2. CASE wpc[w] \notin Owning
  BY <1>2 DEF BreakOff, TypeOK
<1> QED
  BY <1>1, <1>2

\* Every step of a handler keeps the types.
LEMMA TypeWorkerStep ==
    ASSUME TypeOK, NEW w \in Workers, WorkerStep(w) PROVE TypeOK'
<1> USE NoneAssumption DEF TypeOK, Goto, handling, storeVars, requestVars, history, WorkerPC,
                           Holding, InTry, Owning, Auditing, Deciding
<1>1. CASE AcquireLock(w)
  BY <1>1 DEF AcquireLock
<1>2. CASE LockBusy(w)
  BY <1>2 DEF LockBusy
<1>3. CASE LoadJob(w)
  BY <1>3 DEF LoadJob
<1>4. CASE SelectProcessing(w) \/ SelectCompleted(w) \/ SelectFailed(w)
  <2>1. PICK entity \in Row :
          /\ went' = [went EXCEPT ![w] = entity]
          /\ wdiff' = [wdiff EXCEPT ![w] = Diff(entity, jobs[wjob[w]])]
          /\ Diff(entity, jobs[wjob[w]]) \in SUBSET Columns
          /\ SelectCompleted(w) => entity.status = "completed"
          /\ SelectFailed(w) => entity.status = "failed"
    BY <1>4, Selects
  <2>2. \E pc \in {"claim", "savecompleted", "savefailed"} :
          /\ wpc' = [wpc EXCEPT ![w] = pc]
          /\ pc # "claim" => entity.status \in {"completed", "failed"}
    BY <1>4, <2>1 DEF SelectProcessing, SelectCompleted, SelectFailed
  <2>3. UNCHANGED <<storeVars, events, handling>> /\ wpc[w] \in InTry \ {"load"}
    BY <1>4 DEF SelectProcessing, SelectCompleted, SelectFailed
  <2>4. /\ wdiff' \in [Workers -> SUBSET Columns] /\ went' \in [Workers -> Row \cup {None}]
        /\ went'[w] = entity /\ \A v \in Workers \ {w} : went'[v] = went[v]
    BY <2>1
  <2>5. \A v \in Workers :
          /\ wpc'[v] # "idle" => wjob'[v] # None
          /\ wpc'[v] \in InTry \ {"load"} => went'[v] # None /\ jobs'[wjob'[v]] # None
          /\ wpc'[v] \in Deciding \cup {"savecompleted", "savefailed"} =>
                went'[v].status \in {"completed", "failed"}
    BY <2>2, <2>3, <2>4
  <2>6. wpc' \in [Workers -> WorkerPC]
    BY <2>2
  <2> QED
    BY <2>3, <2>4, <2>5, <2>6
<1>5. CASE AnnounceProcessing(w) \/ AuditProcessing(w)
  <2>1. wjob[w] \in Jobs /\ went[w].attemptCount \in Nat
    BY <1>5 DEF AnnounceProcessing, AuditProcessing, Row
  <2>2. CASE AnnounceProcessing(w)
    <3>1. events' \subseteq [topic : Topics, job : Jobs, number : Nat]
      BY <2>1, <2>2 DEF AnnounceProcessing, Event, Topics
    <3> QED
      BY <2>2, <3>1 DEF AnnounceProcessing
  <2>3. CASE AuditProcessing(w)
    <3>1. audit' \subseteq [action : Actions, job : Jobs, number : Nat]
      BY <2>1, <2>3 DEF AuditProcessing, Entry, Actions
    <3> QED
      BY <2>3, <3>1 DEF AuditProcessing
  <2> QED
    BY <1>5, <2>2, <2>3
<1>6. CASE InsertAttempt(w)
  BY <1>6 DEF InsertAttempt, Row, Attempt
<1>7. CASE AttemptConflict(w)
  BY <1>7 DEF AttemptConflict
<1>8. ASSUME NEW failed \in BOOLEAN, FinishAttempt(w, failed) PROVE TypeOK'
  BY <1>8 DEF FinishAttempt, Row, Attempt, AttemptRows
<1>9. CASE SaveProcessing(w) \/ SaveCompleted(w) \/ SaveFailed(w)
  <2>1. PICK row \in Row : /\ jobs' = [jobs EXCEPT ![wjob[w]] = row] /\ wjob[w] \in Jobs
                            /\ wdiff' = [wdiff EXCEPT ![w] = {}]
    BY <1>9, Saves
  <2>2. /\ jobs' \in [Jobs -> Row \cup {None}] /\ wdiff' \in [Workers -> SUBSET Columns]
        /\ \A j \in Jobs : jobs[j] # None => jobs'[j] # None
    BY <2>1
  <2>3. \E pc \in {"announce", "notify", "alert"} :
          /\ wpc' = [wpc EXCEPT ![w] = pc]
          /\ pc # "announce" => wpc[w] \in {"savecompleted", "savefailed"}
    BY <1>9 DEF SaveProcessing, SaveCompleted, SaveFailed
  <2>4. /\ UNCHANGED <<attempts, alerts, incidents, audit, notifications, events, went, handling>>
        /\ wpc[w] \in InTry \ {"load"}
    BY <1>9 DEF SaveProcessing, SaveCompleted, SaveFailed
  <2> QED
    BY <2>2, <2>3, <2>4
<1>10. CASE RaiseAlert(w)
  BY <1>10 DEF RaiseAlert, Row, Severity
<1>11. CASE OpenIncident(w)
  BY <1>11 DEF OpenIncident, Row
<1>12. CASE NotifyOutcome(w)
  BY <1>12 DEF NotifyOutcome, Row, Entry, Notices
<1>13. CASE AuditOutcome(w) \/ AuditAlert(w) \/ AuditIncident(w)
  BY <1>13 DEF AuditOutcome, AuditAlert, AuditIncident, Row, Entry, Actions, OutcomeName
<1>14. CASE PublishOutcome(w)
  <2>1. wjob[w] \in Jobs /\ went[w] \in Row /\ OutcomeTopics(went[w]) \subseteq Topics
    BY <1>14 DEF PublishOutcome, OutcomeTopics, OutcomeName, Topics
  <2>2. events' \subseteq [topic : Topics, job : Jobs, number : Nat]
    BY <1>14, <2>1 DEF PublishOutcome, Event, Row
  <2> QED
    BY <1>14, <2>2 DEF PublishOutcome
<1>15. CASE PublishRefused(w)
  <2>1. cut' \subseteq [job : Jobs, number : Nat]
    BY <1>15, TypeBreakOff DEF PublishRefused, Throw, Publishing
  <2> QED
    BY <1>15, <2>1 DEF PublishRefused, Throw, Publishing
<1>16. CASE Release(w)
  BY <1>16 DEF Release
<1>17. CASE Settle(w)
  BY <1>17 DEF Settle, Vacate
<1> QED
  BY <1>1, <1>2, <1>3, <1>4, <1>5, <1>6, <1>7, <1>8, <1>9, <1>10, <1>11, <1>12, <1>13, <1>14,
     <1>15, <1>16, <1>17 DEF WorkerStep

\* What a request may do.
LEMMA TypeRequestStep ==
    ASSUME TypeOK, NEW r \in Requests,
           \/ \E j \in Jobs : Create(r, j) \/ RetryLoad(r, j) \/ RetryReject(r, j)
           \/ RequestStep(r)
           \/ RequestAborts(r) \/ EnqueueLost(r)
    PROVE  TypeOK'
<1> USE NoneAssumption DEF TypeOK, history, workerVars, storeVars, serving, RequestPC, BeforeEnqueue
<1>1. ASSUME NEW j \in Jobs, Create(r, j) PROVE TypeOK'
  <2> PICK p \in Payloads, m \in AttemptLimits :
        LET row == [status |-> "queued", attemptCount |-> 0, maxAttempts |-> m, payload |-> p]
        IN jobs' = [jobs EXCEPT ![j] = row] /\ rent' = [rent EXCEPT ![r] = row]
    BY <1>1 DEF Create
  <2> DEFINE row == [status |-> "queued", attemptCount |-> 0, maxAttempts |-> m, payload |-> p]
  <2>1. row \in Row
    BY DEF Row, Status
  <2>2. jobs' = [jobs EXCEPT ![j] = row] /\ rent' = [rent EXCEPT ![r] = row]
    OBVIOUS
  <2> HIDE DEF row
  <2> QED
    BY <1>1, <2>1, <2>2 DEF Create
<1>2. ASSUME NEW j \in Jobs, RetryLoad(r, j) PROVE TypeOK'
  <2> DEFINE row == [jobs[j] EXCEPT !.status = "queued"]
  <2>1. row \in Row
    BY <1>2 DEF RetryLoad, Row, Status
  <2>2. rent' = [rent EXCEPT ![r] = row]
    BY <1>2 DEF RetryLoad
  <2> HIDE DEF row
  <2> QED
    BY <1>2, <2>1, <2>2 DEF RetryLoad
<1>3. ASSUME NEW j \in Jobs, RetryReject(r, j) PROVE TypeOK'
  BY <1>3 DEF RetryReject
<1>4. CASE RetrySelect(r)
  <2>1. rjob[r] \in Jobs /\ rent[r] \in Row /\ jobs[rjob[r]] \in Row
    BY <1>4 DEF RetrySelect
  <2>2. Diff(rent[r], jobs[rjob[r]]) \in SUBSET Columns
    BY <2>1, DiffColumns
  <2> QED
    BY <1>4, <2>2 DEF RetrySelect
<1>9. CASE RetrySave(r)
  <2>1. PICK row \in Row : jobs' = [jobs EXCEPT ![rjob[r]] = row] /\ rjob[r] \in Jobs
    BY <1>9, RetrySaves
  <2>2. /\ jobs' \in [Jobs -> Row \cup {None}]
        /\ \A j \in Jobs : jobs[j] # None => jobs'[j] # None
    BY <2>1
  <2> QED
    BY <1>9, <2>2 DEF RetrySave
<1>5. CASE RecordCommand(r) \/ NotifyQueued(r)
  <2>1. rjob[r] \in Jobs /\ rent[r] \in Row /\ rkind[r] \in Actions
    BY <1>5 DEF RecordCommand, NotifyQueued, Actions
  <2>2. CASE RecordCommand(r)
    BY <2>1, <2>2 DEF RecordCommand, Entry, Row
  <2>3. CASE NotifyQueued(r)
    BY <2>1, <2>3 DEF NotifyQueued, Entry, Notices, Row
  <2> QED
    BY <1>5, <2>2, <2>3
<1>6. CASE Enqueue(r)
  BY <1>6 DEF Enqueue
<1>7. CASE Emit(r)
  BY <1>7 DEF Emit, Event, Topics, Row
<1>8. CASE SendRefused(r) \/ EnqueueLost(r)
  BY <1>8 DEF SendRefused, EnqueueLost, Fault
<1>10. CASE RequestAborts(r)
  BY <1>10 DEF RequestAborts, Fault
<1> QED
  BY <1>1, <1>2, <1>3, <1>4, <1>5, <1>6, <1>7, <1>8, <1>9, <1>10
     DEF RequestStep

\* What the shutdown of the broker adds to the queue: something for every job
\* with an unacknowledged message, nothing for the others.
LEMMA Requeued ==
    ASSUME NEW j \in Jobs
    PROVE  /\ Cardinality(Unacknowledged(j)) \in Nat
           /\ Unacknowledged(j) # {} => Cardinality(Unacknowledged(j)) > 0
<1>1. IsFiniteSet(Unacknowledged(j))
  BY WorkersAssumption, FS_Subset DEF Unacknowledged
<1> QED
  BY <1>1, FS_CardinalityType, FS_EmptySet

\* So does every fault.
LEMMA TypeFaultStep ==
    ASSUME TypeOK,
           \/ \E w \in Workers : \/ HandlerThrows(w) \/ RedisThrows(w) \/ Crash(w)
                                 \/ EndsWith(w) \/ SetResent(w) \/ DelResent(w) \/ ConsumerCancelled(w)
           \/ BrokerShutsDown
    PROVE  TypeOK'
<1> USE NoneAssumption DEF TypeOK, Goto, Fault, storeVars, requestVars, workerVars, history,
                           WorkerPC, Holding, InTry, Owning, Auditing, Deciding
<1>1. ASSUME NEW w \in Workers, HandlerThrows(w) PROVE TypeOK'
  <2>1. cut' \subseteq [job : Jobs, number : Nat]
    BY <1>1, TypeBreakOff DEF HandlerThrows, Throw
  <2> QED
    BY <1>1, <2>1 DEF HandlerThrows, Throw
<1>2. ASSUME NEW w \in Workers, RedisThrows(w) PROVE TypeOK'
  <2>1. lock' \in [Jobs -> BOOLEAN]
    <3>1. PICK free \in BOOLEAN :
            lock' = lock \/ lock' = [lock EXCEPT ![wjob[w]] = free]
      <4> PICK executed \in BOOLEAN :
            lock' = [lock EXCEPT ![wjob[w]] = IF executed THEN wpc[w] = "lock" ELSE @]
        BY <1>2 DEF RedisThrows
      <4>1. CASE executed
        BY <4>1, Zenon
      <4>2. CASE ~executed
        <5>1. lock' = [lock EXCEPT ![wjob[w]] = lock[wjob[w]]]
          BY <4>2
        <5> QED
          BY <5>1
      <4> QED
        BY <4>1, <4>2
    <3> QED
      BY <3>1
  <2> QED
    BY <1>2, <2>1 DEF RedisThrows
<1>3. ASSUME NEW w \in Workers, Crash(w) PROVE TypeOK'
  <2>1. cut' \subseteq [job : Jobs, number : Nat]
    BY <1>3, TypeBreakOff DEF Crash
  <2>2. wjob[w] \in Jobs
    BY <1>3 DEF Crash
  <2>3. queue' \in [Jobs -> Nat] /\ dropped' \subseteq Jobs /\ disturbed' \subseteq Jobs
    BY <1>3, <2>2 DEF Crash, Redeliver
  <2> QED
    BY <1>3, <2>1, <2>3 DEF Crash, Vacate
<1>7. ASSUME NEW w \in Workers, EndsWith(w) PROVE TypeOK'
  <2>1. cut' \subseteq [job : Jobs, number : Nat]
    <3>1. CASE wpc[w] = "idle"
      BY <1>7, <3>1 DEF EndsWith, BreakOff
    <3>2. CASE wpc[w] # "idle"
      BY <1>7, <3>2, TypeBreakOff DEF EndsWith
    <3> QED
      BY <3>1, <3>2
  <2>2. dropped' \subseteq Jobs
    BY <1>7 DEF EndsWith
  <2> QED
    BY <1>7, <2>1, <2>2 DEF EndsWith, Vacate
<1>4. ASSUME NEW w \in Workers, SetResent(w) PROVE TypeOK'
  BY <1>4 DEF SetResent
<1>5. ASSUME NEW w \in Workers, DelResent(w) \/ ConsumerCancelled(w) PROVE TypeOK'
  <2>1. CASE DelResent(w)
    BY <2>1 DEF DelResent
  <2>2. CASE ConsumerCancelled(w)
    BY <2>2 DEF ConsumerCancelled
  <2> QED
    BY <1>5, <2>1, <2>2
<1>6. CASE BrokerShutsDown
  <2>1. queue' \in [Jobs -> Nat]
    BY <1>6, Requeued DEF BrokerShutsDown
  <2>2. /\ disturbed' \subseteq Jobs /\ alink' \in BOOLEAN
        /\ wlink' \in [Workers -> {"open", "closed", "cancelled"}]
    BY <1>6 DEF BrokerShutsDown
  <2>3. UNCHANGED <<storeVars, events, lock, wpc, wjob, went, wdiff, wack, rpc, rjob, rent, rdiff,
                    rkind, dropped, cut>> /\ faults' \in Nat
    BY <1>6 DEF BrokerShutsDown
  <2> QED
    BY <2>1, <2>2, <2>3
<1> QED
  BY <1>1, <1>2, <1>3, <1>4, <1>5, <1>6, <1>7

\* The type invariant is inductive.
LEMMA TypeStep == TypeOK /\ [Next]_vars => TypeOK'
<1> SUFFICES ASSUME TypeOK, [Next]_vars PROVE TypeOK'
  OBVIOUS
<1>1. ASSUME NEW w \in Workers, NEW j \in Jobs, Deliver(w, j) PROVE TypeOK'
  BY <1>1, NoneAssumption
  DEF TypeOK, Deliver, Goto, storeVars, requestVars, history, WorkerPC, Holding, InTry, Owning,
      Auditing, Deciding
<1>2. ASSUME NEW w \in Workers, WorkerStep(w) PROVE TypeOK'
  BY <1>2, TypeWorkerStep
<1>3. CASE \/ \E w \in Workers : \/ HandlerThrows(w) \/ RedisThrows(w) \/ Crash(w)
                                 \/ EndsWith(w) \/ SetResent(w) \/ DelResent(w) \/ ConsumerCancelled(w)
           \/ BrokerShutsDown
  BY <1>3, TypeFaultStep
<1>4. ASSUME NEW r \in Requests,
             \/ \E j \in Jobs : Create(r, j) \/ RetryLoad(r, j) \/ RetryReject(r, j)
             \/ RequestStep(r)
             \/ RequestAborts(r) \/ EnqueueLost(r)
      PROVE TypeOK'
  BY <1>4, TypeRequestStep
<1>5. ASSUME NEW j \in Jobs, LockExpires(j) PROVE TypeOK'
  BY <1>5 DEF TypeOK, LockExpires, storeVars, workerVars, requestVars, history
<1>6. CASE Finished \/ UNCHANGED vars
  BY <1>6 DEF TypeOK, Finished, vars, storeVars, workerVars, requestVars, history
<1> QED
  BY <1>1, <1>2, <1>3, <1>4, <1>5, <1>6 DEF Next

\* Whatever fails and however handlers and requests interleave, every table,
\* key, message count and in-memory entity stays in its domain.
THEOREM TypeCorrect == Spec => []TypeOK
<1>1. Init => TypeOK
  BY TypeInit
<1>2. TypeOK /\ [Next]_vars => TypeOK'
  BY TypeStep
<1> QED
  BY <1>1, <1>2, PTL DEF Spec

-----------------------------------------------------------------------------

\* While locks outlive their holders, a handler that executes a job has its
\* lock, and it is alone: the two halves need each other.
LockInv == TypeOK /\ HolderKeepsLock /\ MutualExclusion

\* A step of handler w keeps LockInv: only taking the lock adds a holder, and
\* only the holder's own finally block frees it.
LEMMA LockWorkerStep ==
    ASSUME LockInv, NEW w \in Workers, WorkerStep(w)
    PROVE  HolderKeepsLock' /\ MutualExclusion'
<1> USE DEF LockInv, HolderKeepsLock, MutualExclusion, HeldBy, Owning, Auditing
<1>1. CASE AcquireLock(w)
  <2>1. wjob[w] \in Jobs /\ ~lock[wjob[w]]
    BY <1>1 DEF AcquireLock, TypeOK
  <2>2. \A v \in Workers : ~HeldBy(v, wjob[w])
    BY <2>1
  <2> QED
    BY <1>1, <2>1, <2>2 DEF AcquireLock, Goto, TypeOK, Holding, InTry
<1>2. CASE LockBusy(w)
  BY <1>2 DEF LockBusy, Goto, TypeOK, Holding, InTry
<1>3. CASE Release(w)
  <2>1. wjob[w] \in Jobs /\ HeldBy(w, wjob[w])
    BY <1>3 DEF Release, TypeOK, Holding
  <2> QED
    BY <1>3, <2>1 DEF Release, Goto, TypeOK, Holding, InTry
<1>4. CASE Settle(w)
  BY <1>4 DEF Settle, Vacate, Goto, TypeOK, Holding, InTry
<1>5. CASE ~(AcquireLock(w) \/ LockBusy(w) \/ Release(w) \/ Settle(w))
  <2>1. /\ UNCHANGED <<lock, wjob>>
        /\ wpc[w] \in InTry
        /\ \E pc \in Holding : wpc' = [wpc EXCEPT ![w] = pc]
    BY <1>5 DEF WorkerStep, LoadJob, SelectProcessing, SaveProcessing, AnnounceProcessing,
       AuditProcessing, InsertAttempt, AttemptConflict, FinishAttempt, SelectCompleted,
       SaveCompleted, SelectFailed, SaveFailed, RaiseAlert, OpenIncident, NotifyOutcome,
       AuditOutcome, AuditAlert, AuditIncident, PublishOutcome, PublishRefused, Publishing, Throw,
       Goto, handling, Holding, InTry, Owning, Auditing
  <2> QED
    BY <2>1 DEF TypeOK, Holding
<1> QED
  BY <1>1, <1>2, <1>3, <1>4, <1>5

\* The lock invariant is inductive as long as no holder is slow and no Redis
\* command is sent twice.
LEMMA LockStep ==
    ASSUME ~SlowHolders, "resend" \notin FaultKinds
    PROVE  LockInv /\ [Next]_vars => LockInv'
<1> SUFFICES ASSUME LockInv, [Next]_vars PROVE LockInv'
  OBVIOUS
<1>0. TypeOK'
  BY TypeStep DEF LockInv
<1> SUFFICES HolderKeepsLock' /\ MutualExclusion'
  BY <1>0 DEF LockInv
<1>1. ASSUME NEW w \in Workers, NEW j \in Jobs, Deliver(w, j)
      PROVE  HolderKeepsLock' /\ MutualExclusion'
  BY <1>1 DEF LockInv, HolderKeepsLock, MutualExclusion, HeldBy, TypeOK, Deliver, Goto,
              Holding, InTry, Owning, Auditing
<1>2. ASSUME NEW w \in Workers, WorkerStep(w) PROVE HolderKeepsLock' /\ MutualExclusion'
  BY <1>2, LockWorkerStep
<1>3. ASSUME NEW w \in Workers, HandlerThrows(w) PROVE HolderKeepsLock' /\ MutualExclusion'
  BY <1>3 DEF LockInv, HolderKeepsLock, MutualExclusion, HeldBy, TypeOK, HandlerThrows, Throw,
              Goto, Holding
<1>4. ASSUME NEW w \in Workers, RedisThrows(w) PROVE HolderKeepsLock' /\ MutualExclusion'
  <2>1. wjob[w] \in Jobs
    BY <1>4 DEF LockInv, TypeOK, RedisThrows
  <2>2. \A v \in Workers \ {w} : \A j \in Jobs : HeldBy(v, j) => lock'[j]
    BY <1>4, <2>1 DEF LockInv, HolderKeepsLock, MutualExclusion, HeldBy, TypeOK, RedisThrows,
                      Holding
  <2> QED
    BY <1>4, <2>1, <2>2 DEF LockInv, HolderKeepsLock, MutualExclusion, HeldBy, TypeOK,
                      RedisThrows, Goto, Holding, InTry, Owning, Auditing
<1>5. ASSUME NEW w \in Workers, Crash(w) \/ EndsWith(w)
      PROVE  HolderKeepsLock' /\ MutualExclusion'
  BY <1>5 DEF LockInv, HolderKeepsLock, MutualExclusion, HeldBy, TypeOK, Crash, EndsWith, Vacate,
              Goto, Holding, InTry, Owning, Auditing
<1>6. ASSUME NEW r \in Requests,
             \/ \E j \in Jobs : Create(r, j) \/ RetryLoad(r, j) \/ RetryReject(r, j)
             \/ RequestStep(r)
             \/ RequestAborts(r) \/ EnqueueLost(r)
      PROVE  HolderKeepsLock' /\ MutualExclusion'
  <2>1. UNCHANGED <<lock, wpc, wjob>>
    BY <1>6 DEF Create, RetryLoad, RetryReject, RequestStep, RetrySelect, RetrySave,
                RecordCommand, NotifyQueued, Enqueue, Emit, SendRefused, RequestAborts,
                EnqueueLost, serving, workerVars
  <2> QED
    BY <2>1 DEF LockInv, HolderKeepsLock, MutualExclusion, HeldBy
<1>7. ASSUME NEW j \in Jobs, LockExpires(j) PROVE HolderKeepsLock' /\ MutualExclusion'
  BY <1>7 DEF LockInv, HolderKeepsLock, MutualExclusion, HeldBy, TypeOK, LockExpires, workerVars
<1>8. \A w \in Workers : ~(SetResent(w) \/ DelResent(w))
  BY DEF SetResent, DelResent, Fault
<1>9. CASE \/ BrokerShutsDown \/ \E w \in Workers : ConsumerCancelled(w)
           \/ Finished \/ UNCHANGED vars
  BY <1>9 DEF LockInv, HolderKeepsLock, MutualExclusion, HeldBy, BrokerShutsDown,
              ConsumerCancelled, Finished, vars, workerVars
<1> QED
  BY <1>1, <1>2, <1>3, <1>4, <1>5, <1>6, <1>7, <1>8, <1>9 DEF Next

\* Nobody holds a lock at first.
LEMMA LockInit == Init => LockInv
<1>1. Init => HolderKeepsLock /\ MutualExclusion
  BY DEF Init, HolderKeepsLock, MutualExclusion, HeldBy, Holding, InTry, Owning, Auditing
<1> QED
  BY <1>1, TypeInit DEF LockInv

\* As long as no handler outlives the 60 s of its lock and the Redis client sends
\* no command twice, no two handlers execute the same job at once, for any number
\* of workers, requests, crashes, exceptions and aborted requests.
THEOREM LockSafe ==
    ASSUME ~SlowHolders, "resend" \notin FaultKinds
    PROVE  Spec => []MutualExclusion
<1>1. LockInv => MutualExclusion
  BY DEF LockInv
<1> QED
  BY <1>1, LockInit, LockStep, PTL DEF Spec

\* The other half: the lock of a running handler is neither freed by another
\* delivery nor by a Redis call that fails.
THEOREM LockKept ==
    ASSUME ~SlowHolders, "resend" \notin FaultKinds
    PROVE  Spec => []HolderKeepsLock
<1>1. LockInv => HolderKeepsLock
  BY DEF LockInv
<1> QED
  BY <1>1, LockInit, LockStep, PTL DEF Spec

\* A process that died or was ended, or a Redis call that failed or was sent
\* twice, may have left a lock behind that nobody holds.
MayOrphan == faults > 0 /\ FaultKinds \cap {"crash", "detach", "error", "resend"} # {}

\* A lock that is set has a handler that works on its job, also when handlers
\* outlive their locks and free each other's: a message that is given up because
\* the lock is busy is given up in favour of somebody, unless one of those faults
\* left the lock behind (job-processor.service.ts:49-53, 112-114).
LocksHaveHolders ==
    \A j \in Jobs : lock[j] => MayOrphan \/ \E w \in Workers : HeldBy(w, j)

\* Only a shutdown of the broker closes a channel.
Closings == \A w \in Workers : wlink[w] = "closed" => faults > 0 /\ "detach" \in FaultKinds

\* Faults are only ever counted.
LEMMA OrphansStay == TypeOK /\ [Next]_vars /\ MayOrphan => MayOrphan'
<1> SUFFICES ASSUME TypeOK, [Next]_vars, faults > 0 PROVE faults' > 0
  BY DEF MayOrphan
<1> USE DEF TypeOK
<1>1. ASSUME NEW kind, Fault(kind) PROVE faults' > 0
  BY <1>1 DEF Fault
<1>2. ASSUME UNCHANGED faults PROVE faults' > 0
  BY <1>2
<1>3. ASSUME NEW w \in Workers, WorkerStep(w) PROVE faults' = faults
  BY <1>3 DEF WorkerStep, AcquireLock, LockBusy, LoadJob, SelectProcessing, SaveProcessing,
     AnnounceProcessing, AuditProcessing, InsertAttempt, AttemptConflict, FinishAttempt,
     SelectCompleted, SaveCompleted, SelectFailed, SaveFailed, RaiseAlert, OpenIncident,
     NotifyOutcome, AuditOutcome, AuditAlert, AuditIncident, PublishOutcome, PublishRefused,
     Release, Settle, handling, history
<1>4. ASSUME NEW r \in Requests, RequestStep(r) PROVE faults' = faults
  BY <1>4 DEF RequestStep, RetrySelect, RetrySave, RecordCommand, NotifyQueued, Enqueue, Emit,
     SendRefused, serving, history
<1>5. ASSUME NEW w \in Workers, NEW j \in Jobs, Deliver(w, j) PROVE faults' = faults
  BY <1>5 DEF Deliver, history
<1>6. ASSUME NEW r \in Requests, NEW j \in Jobs,
             Create(r, j) \/ RetryLoad(r, j) \/ RetryReject(r, j)
      PROVE  faults' = faults
  BY <1>6 DEF Create, RetryLoad, RetryReject, serving, history
<1>7. ASSUME NEW w \in Workers,
             HandlerThrows(w) \/ RedisThrows(w) \/ Crash(w) \/ SetResent(w) \/ DelResent(w)
             \/ ConsumerCancelled(w)
      PROVE  \E kind : Fault(kind)
  BY <1>7 DEF HandlerThrows, RedisThrows, Crash, SetResent, DelResent, ConsumerCancelled
<1>12. ASSUME NEW w \in Workers, EndsWith(w) PROVE faults' = faults
  BY <1>12 DEF EndsWith
<1>8. ASSUME NEW r \in Requests, RequestAborts(r) \/ EnqueueLost(r)
      PROVE  \E kind : Fault(kind)
  BY <1>8 DEF RequestAborts, EnqueueLost
<1>9. BrokerShutsDown => \E kind : Fault(kind)
  BY DEF BrokerShutsDown
<1>10. ASSUME NEW j \in Jobs, LockExpires(j) PROVE faults' = faults
  BY <1>10 DEF LockExpires, history
<1>11. CASE Finished \/ UNCHANGED vars
  BY <1>11 DEF Finished, vars, history
<1> QED
  BY <1>1, <1>2, <1>3, <1>4, <1>5, <1>6, <1>7, <1>8, <1>9, <1>10, <1>11, <1>12 DEF Next

\* Closings is inductive.
LEMMA ClosingStep == TypeOK /\ Closings /\ [Next]_vars => Closings'
<1> SUFFICES ASSUME TypeOK, Closings, [Next]_vars, NEW w \in Workers, wlink'[w] = "closed"
             PROVE  faults' > 0 /\ "detach" \in FaultKinds
  BY DEF Closings
<1>1. CASE BrokerShutsDown
  BY <1>1 DEF BrokerShutsDown, Fault, TypeOK
<1>2. CASE wlink[w] = "closed"
  <2>1. faults > 0 /\ "detach" \in FaultKinds
    BY <1>2 DEF Closings
  <2>2. faults' = faults \/ \E kind : Fault(kind)
    BY ZenonT(30) DEF Next, WorkerStep, Deliver, AcquireLock, LockBusy, LoadJob, SelectProcessing,
       SaveProcessing, AnnounceProcessing, AuditProcessing, InsertAttempt, AttemptConflict,
       FinishAttempt, SelectCompleted, SelectFailed, SaveCompleted, SaveFailed, RaiseAlert,
       OpenIncident, NotifyOutcome, AuditOutcome, AuditAlert, AuditIncident, PublishOutcome,
       PublishRefused, Release, Settle, HandlerThrows, RedisThrows, Crash, EndsWith, SetResent,
       DelResent, ConsumerCancelled, BrokerShutsDown, Create, RetryLoad, RetryReject, RequestStep,
       RetrySelect, RetrySave, RecordCommand, NotifyQueued, Enqueue, Emit, SendRefused,
       RequestAborts, EnqueueLost, LockExpires, Finished, serving, handling, history, vars
  <2> QED
    BY <2>1, <2>2 DEF Fault, TypeOK
<1>3. CASE ~BrokerShutsDown /\ wlink[w] # "closed"
  <2>1. \/ UNCHANGED wlink
        \/ \E v \in Workers : Settle(v) \/ Crash(v) \/ EndsWith(v) \/ ConsumerCancelled(v)
    BY <1>3, ZenonT(30) DEF Next, WorkerStep, Deliver, AcquireLock, LockBusy, LoadJob,
       SelectProcessing, SaveProcessing, AnnounceProcessing, AuditProcessing, InsertAttempt,
       AttemptConflict, FinishAttempt, SelectCompleted, SelectFailed, SaveCompleted, SaveFailed,
       RaiseAlert, OpenIncident, NotifyOutcome, AuditOutcome, AuditAlert, AuditIncident,
       PublishOutcome, PublishRefused, Release, HandlerThrows, RedisThrows, SetResent, DelResent,
       Create, RetryLoad, RetryReject, RequestStep, RetrySelect, RetrySave, RecordCommand,
       NotifyQueued, Enqueue, Emit, SendRefused, RequestAborts, EnqueueLost, LockExpires, Finished,
       serving, handling, workerVars, vars
  <2>2. wlink'[w] # "closed"
    BY <1>3, <2>1 DEF Settle, Crash, EndsWith, ConsumerCancelled, TypeOK
  <2> QED
    BY <2>2
<1> QED
  BY <1>1, <1>2, <1>3

\* LocksHaveHolders is inductive: a holder leaves by freeing the lock, and takes
\* it by setting it.
LEMMA HolderStep == TypeOK /\ Closings /\ LocksHaveHolders /\ [Next]_vars => LocksHaveHolders'
<1> SUFFICES ASSUME TypeOK, Closings, LocksHaveHolders, [Next]_vars, NEW j \in Jobs, lock'[j],
                    ~MayOrphan'
             PROVE  \E w \in Workers : HeldBy(w, j)'
  BY DEF LocksHaveHolders
<1>0. lock[j] => \E w \in Workers : HeldBy(w, j)
  BY OrphansStay DEF LocksHaveHolders
<1> USE DEF TypeOK, HeldBy
<1>a. ASSUME NEW kind \in {"crash", "error", "resend"}, Fault(kind) PROVE FALSE
  BY <1>a DEF Fault, MayOrphan
<1>b. ASSUME UNCHANGED <<lock, wpc, wjob>> PROVE \E w \in Workers : HeldBy(w, j)'
  BY <1>0, <1>b
<1>1. ASSUME NEW w \in Workers, NEW i \in Jobs, Deliver(w, i)
      PROVE  \E v \in Workers : HeldBy(v, j)'
  BY <1>0, <1>1 DEF Deliver, Goto, Holding, InTry, Owning, Auditing
<1>2. ASSUME NEW w \in Workers, WorkerStep(w) PROVE \E v \in Workers : HeldBy(v, j)'
  <2>1. CASE AcquireLock(w)
    <3>1. wjob' = wjob /\ wpc' = [wpc EXCEPT ![w] = "load"]
          /\ lock' = [lock EXCEPT ![wjob[w]] = TRUE] /\ wjob[w] \in Jobs /\ wpc[w] = "lock"
      BY <2>1 DEF AcquireLock, Goto
    <3>2. CASE wjob[w] = j
      BY <3>1, <3>2 DEF Holding, InTry
    <3>3. CASE wjob[w] # j
      BY <1>0, <3>1, <3>3 DEF Holding, InTry, Owning, Auditing
    <3> QED
      BY <3>2, <3>3
  <2>2. CASE LockBusy(w)
    BY <1>0, <2>2 DEF LockBusy, Goto, Holding, InTry, Owning, Auditing
  <2>3. CASE Release(w)
    <3>1. /\ UNCHANGED wjob /\ wpc' = [wpc EXCEPT ![w] = "settle"]
          /\ lock' = [lock EXCEPT ![wjob[w]] = FALSE] /\ wjob[w] \in Jobs
      BY <2>3 DEF Release, Goto
    <3>2. wjob[w] # j /\ lock[j]
      BY <3>1
    <3> QED
      BY <1>0, <3>1, <3>2
  <2>4. CASE Settle(w)
    <3>1. lock' = lock /\ wpc[w] \notin Holding
          /\ \A v \in Workers \ {w} : wpc'[v] = wpc[v] /\ wjob'[v] = wjob[v]
      BY <2>4 DEF Settle, Vacate, Goto, Holding, InTry, Owning, Auditing
    <3> QED
      BY <1>0, <3>1
  <2>5. CASE ~(AcquireLock(w) \/ LockBusy(w) \/ Release(w) \/ Settle(w))
    <3>1. /\ UNCHANGED <<lock, wjob>>
          /\ \E pc \in Holding : wpc' = [wpc EXCEPT ![w] = pc]
      BY <1>2, <2>5 DEF WorkerStep, LoadJob, SelectProcessing, SaveProcessing, AnnounceProcessing,
         AuditProcessing, InsertAttempt, AttemptConflict, FinishAttempt, SelectCompleted,
         SaveCompleted, SelectFailed, SaveFailed, RaiseAlert, OpenIncident, NotifyOutcome,
         AuditOutcome, AuditAlert, AuditIncident, PublishOutcome, PublishRefused, Publishing,
         Throw, Goto, handling, Holding, InTry, Owning, Auditing
    <3> QED
      BY <1>0, <3>1
  <2> QED
    BY <2>1, <2>2, <2>3, <2>4, <2>5
<1>3. ASSUME NEW w \in Workers,
             HandlerThrows(w) \/ RedisThrows(w) \/ Crash(w) \/ SetResent(w) \/ DelResent(w)
      PROVE  FALSE
  BY <1>a, <1>3 DEF HandlerThrows, RedisThrows, Crash, SetResent, DelResent
<1>7. ASSUME NEW w \in Workers, EndsWith(w) PROVE FALSE
  BY <1>7, OrphansStay DEF EndsWith, Closings, MayOrphan
<1>4. ASSUME NEW r \in Requests,
             \/ \E i \in Jobs : Create(r, i) \/ RetryLoad(r, i) \/ RetryReject(r, i)
             \/ RequestStep(r)
             \/ RequestAborts(r) \/ EnqueueLost(r)
      PROVE  UNCHANGED <<lock, wpc, wjob>>
  BY <1>4 DEF Create, RetryLoad, RetryReject, RequestStep, RetrySelect, RetrySave, RecordCommand,
              NotifyQueued, Enqueue, Emit, SendRefused, RequestAborts, EnqueueLost, serving,
              workerVars
<1>5. ASSUME NEW i \in Jobs, LockExpires(i) PROVE \E v \in Workers : HeldBy(v, j)'
  BY <1>0, <1>5 DEF LockExpires, workerVars
<1>6. CASE \/ BrokerShutsDown \/ \E w \in Workers : ConsumerCancelled(w)
           \/ Finished \/ UNCHANGED vars
  BY <1>b, <1>6 DEF BrokerShutsDown, ConsumerCancelled, Finished, vars, workerVars
<1> QED
  BY <1>b, <1>1, <1>2, <1>3, <1>4, <1>5, <1>6, <1>7 DEF Next

\* No lock is left behind but by a fault, for any number of workers and with
\* slow handlers as well: the safety half of LockFreed.
THEOREM LocksAreHeld == Spec => []LocksHaveHolders
<1>1. Init => LocksHaveHolders /\ Closings
  BY DEF Init, LocksHaveHolders, Closings
<1> QED
  BY <1>1, TypeInit, TypeStep, ClosingStep, HolderStep, PTL DEF Spec

-----------------------------------------------------------------------------

\* Somebody is bound to take job j out of queued and processing: as Backed(j), but
\* a handler at its final UPDATE counts only if that is going to write the status.
Bound(j) ==
    \/ queue[j] > 0
    \/ \E w \in Workers :
          /\ wjob[w] = j
          /\ \/ wpc[w] \in Undecided \ {"savecompleted", "savefailed"}
             \/ wpc[w] \in {"savecompleted", "savefailed"} /\ "status" \in wdiff[w]
             \/ wpc[w] \in {"release", "settle"} /\ ~wack[w]
    \/ \E r \in Requests : rjob[r] = j /\ rpc[r] \in BeforeEnqueue

WorkBound == \A j \in Jobs : jobs[j] # None /\ Pending(jobs[j]) => Bound(j) \/ j \in dropped

\* Who is bound to decide a job backs it.
LEMMA BoundBacks == WorkBound => WorkConserved
  BY DEF WorkBound, WorkConserved, Bound, Backed, Undecided

\* A step of handler w conserves the work: it stays bound to its job until it
\* has saved a decision, thrown, or given the message up.
LEMMA WorkWorkerStep ==
    ASSUME TypeOK, WorkBound, NEW w \in Workers, WorkerStep(w)
    PROVE  WorkBound'
<1> USE DEF WorkBound, Bound, Pending, Undecided, WorkerPC, Holding, InTry, Owning, Auditing
<1>1. CASE LockBusy(w)
  BY <1>1 DEF LockBusy, Goto, storeVars, requestVars, TypeOK
<1>2. CASE SelectCompleted(w) \/ SelectFailed(w)
  <2>1. PICK entity \in Row :
          /\ wjob[w] \in Jobs /\ jobs[wjob[w]] \in Row
          /\ wdiff' = [wdiff EXCEPT ![w] = Diff(entity, jobs[wjob[w]])]
          /\ entity.status \in {"completed", "failed"}
    BY <1>2, Selects DEF SelectCompleted, SelectFailed
  <2>2. wdiff'[w] = Diff(entity, jobs[wjob[w]]) /\ \A v \in Workers \ {w} : wdiff'[v] = wdiff[v]
    BY <2>1 DEF TypeOK
  <2>3. /\ UNCHANGED <<jobs, queue, wjob, wack, requestVars, dropped>>
        /\ \E pc \in {"savecompleted", "savefailed"} : wpc' = [wpc EXCEPT ![w] = pc]
    BY <1>2 DEF SelectCompleted, SelectFailed, Goto, storeVars, handling, history
  <2>4. wpc'[w] \in {"savecompleted", "savefailed"} /\ \A v \in Workers \ {w} : wpc'[v] = wpc[v]
    BY <2>3 DEF TypeOK
  <2>5. ASSUME Pending(jobs[wjob[w]]) PROVE Bound(wjob[w])'
    <3>1. "status" \in wdiff'[w]
      BY <2>1, <2>2, <2>5, DiffColumns
    <3> QED
      BY <2>3, <2>4, <3>1
  <2>6. \A j \in Jobs \ {wjob[w]} : Bound(j) => Bound(j)'
    BY <2>2, <2>3, <2>4 DEF requestVars
  <2> QED
    BY <2>3, <2>5, <2>6
<1>8. CASE SaveProcessing(w)
  <2>1. /\ wjob[w] \in Jobs /\ \A j \in Jobs \ {wjob[w]} : jobs'[j] = jobs[j]
        /\ \A v \in Workers \ {w} : wdiff'[v] = wdiff[v]
    BY <1>8, Saves DEF TypeOK
  <2>2. /\ UNCHANGED <<queue, wjob, wack, requestVars, dropped>>
        /\ wpc' = [wpc EXCEPT ![w] = "announce"] /\ wpc[w] = "claim"
    BY <1>8 DEF SaveProcessing, Goto, handling, history
  <2>3. wpc'[w] = "announce" /\ \A v \in Workers \ {w} : wpc'[v] = wpc[v]
    BY <2>2 DEF TypeOK
  <2>4. Bound(wjob[w])'
    BY <2>2, <2>3
  <2>5. \A j \in Jobs \ {wjob[w]} : Bound(j) => Bound(j)'
    BY <2>1, <2>2, <2>3 DEF requestVars
  <2> QED
    BY <2>1, <2>2, <2>4, <2>5
<1>3. CASE SaveCompleted(w) \/ SaveFailed(w)
  <2> DEFINE j == wjob[w]
  <2>1. PICK row \in Row :
          /\ j \in Jobs /\ jobs[j] \in Row
          /\ jobs'[j] = row /\ \A i \in Jobs \ {j} : jobs'[i] = jobs[i]
          /\ row.status = IF "status" \in wdiff[w] THEN went[w].status ELSE jobs[j].status
          /\ \A v \in Workers \ {w} : wdiff'[v] = wdiff[v]
    BY <1>3, Saves DEF TypeOK
  <2>2. /\ UNCHANGED <<queue, wjob, wack, requestVars, dropped>>
        /\ \E pc \in {"notify", "alert"} : wpc' = [wpc EXCEPT ![w] = pc]
        /\ wpc[w] \in {"savecompleted", "savefailed"}
    BY <1>3 DEF SaveCompleted, SaveFailed, Goto, handling, history
  <2>3. wpc'[w] \in {"notify", "alert"} /\ \A v \in Workers \ {w} : wpc'[v] = wpc[v]
    BY <2>2 DEF TypeOK
  <2>4. went[w].status \in {"completed", "failed"}
    BY <2>2 DEF TypeOK
  <2>5. \A i \in Jobs \ {j} : Bound(i) => Bound(i)'
    BY <2>1, <2>2, <2>3 DEF requestVars
  <2>6. CASE "status" \in wdiff[w]
    <3>1. ~Pending(jobs'[j])
      BY <2>1, <2>4, <2>6
    <3> QED
      BY <2>1, <2>2, <2>5, <3>1
  <2>7. CASE "status" \notin wdiff[w]
    <3>1. Bound(j) => Bound(j)'
      BY <2>1, <2>2, <2>3, <2>7 DEF requestVars
    <3>2. jobs'[j].status = jobs[j].status /\ jobs[j] # None
      BY <2>1, <2>7, NoneAssumption
    <3> QED
      BY <2>1, <2>2, <2>5, <3>1, <3>2
  <2> QED
    BY <2>6, <2>7
<1>4. CASE AttemptConflict(w) \/ PublishRefused(w)
  <2>1. /\ UNCHANGED <<jobs, queue, wjob, wdiff, requestVars, dropped>>
        /\ wack' = [wack EXCEPT ![w] = FALSE]
        /\ wpc' = [wpc EXCEPT ![w] = "release"]
    BY <1>4 DEF AttemptConflict, PublishRefused, Throw, Goto, storeVars, history
  <2> QED
    BY <2>1 DEF requestVars, TypeOK
<1>5. CASE Settle(w)
  BY <1>5 DEF Settle, Vacate, Goto, storeVars, requestVars, TypeOK
<1>6. ASSUME \/ AcquireLock(w) \/ LoadJob(w) \/ AnnounceProcessing(w) \/ AuditProcessing(w)
             \/ InsertAttempt(w)
             \/ \E failed \in BOOLEAN : FinishAttempt(w, failed)
      PROVE  WorkBound'
  <2>1. /\ UNCHANGED <<jobs, queue, wjob, wdiff, wack, requestVars, dropped>>
        /\ \E pc \in Undecided \ {"savecompleted", "savefailed"} : wpc' = [wpc EXCEPT ![w] = pc]
    BY <1>6 DEF AcquireLock, LoadJob, AnnounceProcessing, AuditProcessing, InsertAttempt,
                FinishAttempt, Goto, storeVars, history, handling
  <2> QED
    BY <2>1 DEF requestVars, TypeOK
<1>9. CASE SelectProcessing(w)
  <2>1. /\ UNCHANGED <<jobs, queue, wjob, wack, requestVars, dropped>>
        /\ wpc' = [wpc EXCEPT ![w] = "claim"]
    BY <1>9 DEF SelectProcessing, Goto, storeVars, handling, history
  <2>2. \A v \in Workers \ {w} : wdiff'[v] = wdiff[v]
    BY <1>9, Selects DEF TypeOK
  <2> QED
    BY <2>1, <2>2 DEF requestVars, TypeOK
<1>7. ASSUME \/ RaiseAlert(w) \/ OpenIncident(w) \/ NotifyOutcome(w) \/ AuditOutcome(w)
             \/ AuditAlert(w) \/ AuditIncident(w) \/ PublishOutcome(w) \/ Release(w)
      PROVE  WorkBound'
  <2>1. /\ UNCHANGED <<jobs, queue, wjob, wdiff, wack, requestVars, dropped>>
        /\ \/ wpc[w] \in Deciding
           \/ wpc[w] = "release" /\ wpc' = [wpc EXCEPT ![w] = "settle"]
        /\ \E pc \in WorkerPC : wpc' = [wpc EXCEPT ![w] = pc]
    BY <1>7 DEF RaiseAlert, OpenIncident, NotifyOutcome, AuditOutcome, AuditAlert, AuditIncident,
                PublishOutcome, Release, Goto, storeVars, history, handling, Deciding
  <2> QED
    BY <2>1 DEF requestVars, TypeOK, Deciding
<1> QED
  BY <1>1, <1>2, <1>3, <1>4, <1>5, <1>6, <1>7, <1>8, <1>9 DEF WorkerStep

\* A step of request r conserves the work: it backs its job from the save to
\* the enqueue, and the message does so afterwards.
LEMMA WorkRequestStep ==
    ASSUME TypeOK, WorkBound, NEW r \in Requests,
           \/ \E j \in Jobs : Create(r, j) \/ RetryLoad(r, j) \/ RetryReject(r, j)
           \/ RequestStep(r)
           \/ RequestAborts(r) \/ EnqueueLost(r)
    PROVE  WorkBound'
<1> USE DEF WorkBound, Pending, TypeOK, BeforeEnqueue, history
<1>1. ASSUME NEW j \in Jobs, Create(r, j) PROVE WorkBound'
  <2>1. \A i \in Jobs \ {j} : jobs'[i] = jobs[i] /\ (Bound(i) => Bound(i)')
    BY <1>1 DEF Create, history, workerVars, Bound
  <2>2. Bound(j)' /\ dropped' = dropped
    BY <1>1 DEF Create, history, Bound
  <2> QED
    BY <2>1, <2>2
<1>2. ASSUME NEW j \in Jobs, RetryLoad(r, j) \/ RetryReject(r, j) PROVE WorkBound'
  BY <1>2 DEF RetryLoad, RetryReject, history, storeVars, workerVars, Bound
<1>7. CASE RetrySelect(r)
  BY <1>7 DEF RetrySelect, storeVars, workerVars, Bound
<1>8. CASE EnqueueLost(r)
  BY <1>8 DEF EnqueueLost, storeVars, workerVars, Bound
<1>3. CASE RetrySave(r)
  <2>1. PICK j \in Jobs : j = rjob[r]
    BY <1>3, RetrySaves
  <2>2. \A i \in Jobs \ {j} : jobs'[i] = jobs[i]
    BY <1>3, <2>1, RetrySaves
  <2>3. Bound(j)' /\ dropped' = dropped
    BY <1>3, <2>1 DEF RetrySave, Bound
  <2>4. \A i \in Jobs : Bound(i) => Bound(i)'
    BY <1>3 DEF RetrySave, workerVars, Bound
  <2> QED
    BY <2>2, <2>3, <2>4
<1>4. CASE RecordCommand(r) \/ NotifyQueued(r) \/ Emit(r)
  BY <1>4 DEF RecordCommand, NotifyQueued, Emit, serving, workerVars, Bound
<1>5. CASE Enqueue(r)
  <2>1. PICK j \in Jobs : j = rjob[r]
    BY <1>5 DEF Enqueue, RequestPC
  <2>2. Bound(j)'
    <3>1. queue'[j] = queue[j] + 1 /\ queue[j] \in Nat
      BY <1>5, <2>1 DEF Enqueue
    <3> QED
      BY <3>1 DEF Bound
  <2>3. \A i \in Jobs \ {j} : Bound(i) => Bound(i)'
    BY <1>5, <2>1 DEF Enqueue, serving, workerVars, Bound
  <2>4. UNCHANGED <<jobs, dropped>>
    BY <1>5 DEF Enqueue, serving
  <2> QED
    BY <2>2, <2>3, <2>4
<1>6. CASE RequestAborts(r) \/ SendRefused(r)
  BY <1>6 DEF RequestAborts, SendRefused, storeVars, workerVars, Bound
<1> QED
  BY <1>1, <1>2, <1>3, <1>4, <1>5, <1>6, <1>7, <1>8 DEF RequestStep

\* The work is conserved by every step, faults included.
LEMMA WorkStep == TypeOK /\ WorkBound /\ [Next]_vars => WorkBound'
<1> SUFFICES ASSUME TypeOK, WorkBound, [Next]_vars PROVE WorkBound'
  OBVIOUS
<1>1. ASSUME NEW w \in Workers, NEW j \in Jobs, Deliver(w, j) PROVE WorkBound'
  BY <1>1 DEF Deliver, Goto, storeVars, requestVars, history, WorkBound, Bound, Pending,
              TypeOK, Undecided, WorkerPC
<1>2. ASSUME NEW w \in Workers, WorkerStep(w) PROVE WorkBound'
  BY <1>2, WorkWorkerStep
<1>3. ASSUME NEW w \in Workers, HandlerThrows(w) \/ RedisThrows(w) PROVE WorkBound'
  <2>1. /\ UNCHANGED <<jobs, queue, wjob, wdiff, requestVars, dropped>>
        /\ wack' = [wack EXCEPT ![w] = FALSE]
        /\ \E pc \in {"release", "settle"} : wpc' = [wpc EXCEPT ![w] = pc]
        /\ wpc[w] # "idle"
    BY <1>3 DEF HandlerThrows, RedisThrows, Throw, Goto, storeVars, InTry, Owning, Auditing
  <2> QED
    BY <2>1 DEF requestVars, WorkBound, Bound, Pending, TypeOK
<1>4. ASSUME NEW w \in Workers, Crash(w) PROVE WorkBound'
  <2>1. wjob[w] \in Jobs
    BY <1>4 DEF Crash, TypeOK
  <2>2. CASE wlink[w] = "closed"
    BY <1>4, <2>1, <2>2 DEF Crash, Vacate, Goto, storeVars, requestVars, WorkBound,
                            Bound, Pending, TypeOK
  <2>3. CASE wlink[w] # "closed"
    BY <1>4, <2>1, <2>3 DEF Crash, Redeliver, Vacate, Goto, storeVars, requestVars,
                            WorkBound, Bound, Pending, TypeOK
  <2> QED
    BY <2>2, <2>3
<1>5. ASSUME NEW r \in Requests,
             \/ \E j \in Jobs : Create(r, j) \/ RetryLoad(r, j) \/ RetryReject(r, j)
             \/ RequestStep(r)
             \/ RequestAborts(r) \/ EnqueueLost(r)
      PROVE  WorkBound'
  BY <1>5, WorkRequestStep
<1>6. ASSUME NEW j \in Jobs, LockExpires(j) PROVE WorkBound'
  BY <1>6 DEF LockExpires, storeVars, workerVars, requestVars, history, WorkBound, Bound,
              Pending
<1>7. ASSUME NEW w \in Workers, SetResent(w) PROVE WorkBound'
  <2>1. wjob[w] \in Jobs
    BY <1>7 DEF SetResent, TypeOK
  <2> QED
    BY <1>7, <2>1 DEF SetResent, Goto, storeVars, requestVars, WorkBound, Bound, Pending, TypeOK
<1>8. ASSUME NEW w \in Workers, DelResent(w) PROVE WorkBound'
  BY <1>8 DEF DelResent, storeVars, workerVars, requestVars, WorkBound, Bound, Pending
<1>11. ASSUME NEW w \in Workers, EndsWith(w) PROVE WorkBound'
  BY <1>11 DEF EndsWith, Vacate, Goto, storeVars, requestVars, WorkBound, Bound, Pending, TypeOK,
               Undecided
<1>9. CASE BrokerShutsDown
  <2>1. \A j \in Jobs : queue[j] > 0 => queue'[j] > 0
    BY <1>9, Requeued DEF BrokerShutsDown, TypeOK
  <2> QED
    BY <1>9, <2>1 DEF BrokerShutsDown, storeVars, WorkBound, Bound, Pending
<1>10. CASE (\E w \in Workers : ConsumerCancelled(w)) \/ Finished \/ UNCHANGED vars
  BY <1>10 DEF ConsumerCancelled, Finished, vars, storeVars, workerVars, requestVars, history,
               WorkBound, Bound, Pending
<1> QED
  BY <1>1, <1>2, <1>3, <1>4, <1>5, <1>6, <1>7, <1>8, <1>9, <1>10, <1>11 DEF Next

\* No crash, redelivery, expiry or stale save strands a job: a row that says
\* queued or processing has somebody working on it unless the code gave up a
\* message or an enqueue of that job, or its message never got to the broker.
THEOREM WorkIsConserved == Spec => []WorkConserved
<1>1. Init => TypeOK /\ WorkBound
  <2>1. Init => WorkBound
    BY DEF Init, WorkBound
  <2> QED
    BY <2>1, TypeInit
<1>2. TypeOK /\ WorkBound /\ [Next]_vars => TypeOK' /\ WorkBound'
  BY TypeStep, WorkStep
<1> QED
  BY <1>1, <1>2, BoundBacks, PTL DEF Spec

-----------------------------------------------------------------------------

\* Attempt rows have one owner: nobody else holds the number of a handler that
\* inserted its row, and the row stays there, started, until the handler
\* decides it.
OwnerInv == TypeOK /\ AttemptOwnership /\ OwnAttempt

\* Inserting an attempt makes an owner: the unique index refused everyone who
\* came second.
LEMMA OwnerInsert ==
    ASSUME OwnerInv, NEW w \in Workers, InsertAttempt(w)
    PROVE  AttemptOwnership' /\ OwnAttempt'
<1> DEFINE j == wjob[w]
           n == went[w].attemptCount
<1>1. /\ AttemptRows(j, n) = {}
      /\ attempts' = attempts \cup {Attempt(j, n, "started")}
      /\ wpc' = [wpc EXCEPT ![w] = "run"]
      /\ UNCHANGED <<wjob, went>>
  BY DEF InsertAttempt, Goto, handling
<1>2. AttemptRows(j, n)' = {Attempt(j, n, "started")}
  BY <1>1 DEF AttemptRows, Attempt
<1>3. \A v \in Workers : wpc[v] \in Owning /\ wjob[v] = j => went[v].attemptCount # n
  BY <1>1 DEF OwnerInv, OwnAttempt
<1>4. \A v \in Workers \ {w} : wpc[v] \in Owning =>
         AttemptRows(wjob[v], went[v].attemptCount)' = AttemptRows(wjob[v], went[v].attemptCount)
  BY <1>1, <1>3 DEF AttemptRows, Attempt
<1>5. wpc'[w] = "run" /\ \A v \in Workers \ {w} : wpc'[v] = wpc[v]
  BY <1>1 DEF OwnerInv, TypeOK
<1>6. AttemptOwnership'
  BY <1>1, <1>3, <1>5 DEF OwnerInv, AttemptOwnership
<1>7. OwnAttempt'
  BY <1>1, <1>2, <1>4, <1>5 DEF OwnerInv, OwnAttempt
<1> QED
  BY <1>6, <1>7

\* Deciding an attempt touches the row of its owner and no other.
LEMMA OwnerFinish ==
    ASSUME OwnerInv, NEW w \in Workers, NEW failed \in BOOLEAN, FinishAttempt(w, failed)
    PROVE  AttemptOwnership' /\ OwnAttempt'
<1> DEFINE j == wjob[w]
           n == went[w].attemptCount
<1>1. PICK status \in {"succeeded", "failed"}, pc \in {"selectcompleted", "selectfailed"} :
        /\ attempts' = (attempts \ AttemptRows(j, n)) \cup {Attempt(j, n, status)}
        /\ wpc' = [wpc EXCEPT ![w] = pc]
  BY DEF FinishAttempt, Goto
<1>2. UNCHANGED <<wjob, went>> /\ wpc[w] = "run"
  BY DEF FinishAttempt, handling
<1>3. \A v \in Workers \ {w} : wpc[v] \in Owning /\ wjob[v] = j => went[v].attemptCount # n
  BY <1>2 DEF OwnerInv, AttemptOwnership, Owning
<1>4. \A v \in Workers \ {w} : wpc[v] \in Owning =>
         AttemptRows(wjob[v], went[v].attemptCount)' = AttemptRows(wjob[v], went[v].attemptCount)
  BY <1>1, <1>2, <1>3 DEF AttemptRows, Attempt
<1>5. AttemptRows(j, n)' # {}
  <2>1. Attempt(j, n, status) \in attempts'
    BY <1>1
  <2>2. AttemptRows(j, n)' = {a \in attempts' : a.job = j /\ a.number = n}
    BY <1>2 DEF AttemptRows
  <2> QED
    BY <2>1, <2>2 DEF Attempt
<1>6. wpc'[w] \in Owning \ {"run"} /\ \A v \in Workers \ {w} : wpc'[v] = wpc[v]
  BY <1>1 DEF OwnerInv, TypeOK, Owning
<1>7. AttemptOwnership'
  BY <1>2, <1>6, wpc[w] \in Owning DEF OwnerInv, AttemptOwnership, Owning
<1>8. OwnAttempt'
  BY <1>2, <1>4, <1>5, <1>6 DEF OwnerInv, OwnAttempt
<1> QED
  BY <1>7, <1>8

\* The handler of w moves on among the owners without touching attempts.
LEMMA OwnerMoves ==
    ASSUME OwnerInv, NEW w \in Workers, NEW pc,
           wpc' = [wpc EXCEPT ![w] = pc],
           pc \in Owning => wpc[w] \in Owning /\ went'[w].attemptCount = went[w].attemptCount
                            /\ wjob'[w] = wjob[w] /\ pc # "run",
           \A v \in Workers \ {w} : wjob'[v] = wjob[v] /\ went'[v] = went[v],
           attempts' = attempts
    PROVE  AttemptOwnership' /\ OwnAttempt'
<1>1. wpc'[w] = pc /\ \A v \in Workers \ {w} : wpc'[v] = wpc[v]
  BY DEF OwnerInv, TypeOK
<1>2. \A v \in Workers : wpc'[v] \in Owning =>
        wpc[v] \in Owning /\ went'[v].attemptCount = went[v].attemptCount /\ wjob'[v] = wjob[v]
  BY <1>1
<1>3. AttemptOwnership'
  BY <1>2 DEF OwnerInv, AttemptOwnership
<1>4. OwnAttempt'
  BY <1>1, <1>2 DEF OwnerInv, OwnAttempt, AttemptRows
<1> QED
  BY <1>3, <1>4

\* Ownership is inductive; no assumption about locks is needed.
LEMMA OwnerStep == OwnerInv /\ [Next]_vars => OwnerInv'
<1> SUFFICES ASSUME OwnerInv, [Next]_vars PROVE OwnerInv'
  OBVIOUS
<1>0. TypeOK'
  BY TypeStep DEF OwnerInv
<1> SUFFICES AttemptOwnership' /\ OwnAttempt'
  BY <1>0 DEF OwnerInv
<1>1. ASSUME NEW w \in Workers, NEW j \in Jobs, Deliver(w, j)
      PROVE  AttemptOwnership' /\ OwnAttempt'
  <2>1. wpc' = [wpc EXCEPT ![w] = "lock"] /\ wjob' = [wjob EXCEPT ![w] = j]
        /\ UNCHANGED <<went, attempts>>
    BY <1>1 DEF Deliver, Goto, storeVars
  <2> QED
    BY <2>1, OwnerMoves DEF Owning, Auditing, OwnerInv, TypeOK
<1>2. ASSUME NEW w \in Workers, InsertAttempt(w) PROVE AttemptOwnership' /\ OwnAttempt'
  BY <1>2, OwnerInsert
<1>3. ASSUME NEW w \in Workers, NEW failed \in BOOLEAN, FinishAttempt(w, failed)
      PROVE  AttemptOwnership' /\ OwnAttempt'
  BY <1>3, OwnerFinish
<1>4. ASSUME NEW w \in Workers,
             \/ AcquireLock(w) \/ LockBusy(w) \/ AnnounceProcessing(w) \/ AuditProcessing(w)
             \/ AttemptConflict(w) \/ RaiseAlert(w) \/ OpenIncident(w) \/ NotifyOutcome(w)
             \/ AuditOutcome(w) \/ AuditAlert(w) \/ AuditIncident(w) \/ PublishOutcome(w)
             \/ PublishRefused(w) \/ Release(w)
             \/ HandlerThrows(w) \/ RedisThrows(w) \/ SetResent(w)
      PROVE  AttemptOwnership' /\ OwnAttempt'
  <2>1. UNCHANGED <<wjob, went, attempts>>
    BY <1>4 DEF AcquireLock, LockBusy, AnnounceProcessing, AuditProcessing, AttemptConflict,
                RaiseAlert, OpenIncident, NotifyOutcome, AuditOutcome, AuditAlert, AuditIncident,
                PublishOutcome, PublishRefused, Release, HandlerThrows, RedisThrows,
                SetResent, storeVars, handling
  <2>2. \E pc \in WorkerPC : /\ wpc' = [wpc EXCEPT ![w] = pc]
                             /\ pc \in Owning => wpc[w] \in Owning /\ pc # "run"
    BY <1>4 DEF AcquireLock, LockBusy, AnnounceProcessing, AuditProcessing, AttemptConflict,
                RaiseAlert, OpenIncident, NotifyOutcome, AuditOutcome, AuditAlert, AuditIncident,
                PublishOutcome, PublishRefused, Throw, Release, HandlerThrows, RedisThrows,
                SetResent, Goto, Owning, Auditing, WorkerPC, Holding, InTry
  <2> QED
    BY <2>1, <2>2, OwnerMoves
<1>5. ASSUME NEW w \in Workers,
             \/ LoadJob(w) \/ SelectProcessing(w) \/ SaveProcessing(w) \/ Settle(w)
             \/ Crash(w) \/ EndsWith(w)
      PROVE  AttemptOwnership' /\ OwnAttempt'
  <2>1. \E pc \in {"start", "claim", "announce", "idle"} : wpc' = [wpc EXCEPT ![w] = pc]
    BY <1>5 DEF LoadJob, SelectProcessing, SaveProcessing, Settle, Crash, EndsWith, Vacate, Goto
  <2>2. attempts' = attempts
    BY <1>5 DEF LoadJob, SelectProcessing, SaveProcessing, Settle, Crash, EndsWith, storeVars
  <2>3. \A v \in Workers \ {w} : wjob'[v] = wjob[v] /\ went'[v] = went[v]
    BY <1>5 DEF LoadJob, SelectProcessing, SelectEntity, SaveProcessing, Settle, Crash, EndsWith,
                Vacate, handling, OwnerInv, TypeOK
  <2> QED
    BY <2>1, <2>2, <2>3, OwnerMoves DEF Owning, Auditing
<1>6. ASSUME NEW w \in Workers,
             SelectCompleted(w) \/ SelectFailed(w) \/ SaveCompleted(w) \/ SaveFailed(w)
      PROVE  AttemptOwnership' /\ OwnAttempt'
  <2>1. went'[w].attemptCount = went[w].attemptCount
        /\ \A v \in Workers \ {w} : went'[v] = went[v]
    <3>1. CASE SelectCompleted(w) \/ SelectFailed(w)
      <4>1. ~SelectProcessing(w) /\ TypeOK
        BY <3>1 DEF SelectProcessing, SelectCompleted, SelectFailed, OwnerInv
      <4> QED
        BY <3>1, <4>1, Selects DEF TypeOK
    <3>2. CASE SaveCompleted(w) \/ SaveFailed(w)
      BY <3>2 DEF SaveCompleted, SaveFailed
    <3> QED
      BY <1>6, <3>1, <3>2
  <2>2. UNCHANGED <<wjob, attempts>> /\ wpc[w] \in Owning
    BY <1>6 DEF SelectCompleted, SelectFailed, SaveCompleted, SaveFailed, handling, storeVars,
                Owning
  <2>3. \E pc \in {"savecompleted", "savefailed", "notify", "alert"} : wpc' = [wpc EXCEPT ![w] = pc]
    BY <1>6 DEF SelectCompleted, SelectFailed, SaveCompleted, SaveFailed, Goto
  <2> QED
    BY <2>1, <2>2, <2>3, OwnerMoves
<1>7. ASSUME NEW r \in Requests,
             \/ \E j \in Jobs : Create(r, j) \/ RetryLoad(r, j) \/ RetryReject(r, j)
             \/ RequestStep(r)
             \/ RequestAborts(r) \/ EnqueueLost(r)
      PROVE  AttemptOwnership' /\ OwnAttempt'
  <2>1. UNCHANGED <<attempts, workerVars>>
    BY <1>7 DEF Create, RetryLoad, RetryReject, RequestStep, RetrySelect, RetrySave,
                RecordCommand, NotifyQueued, Enqueue, Emit, SendRefused, RequestAborts,
                EnqueueLost, serving, storeVars
  <2> QED
    BY <2>1 DEF workerVars, OwnerInv, AttemptOwnership, OwnAttempt, AttemptRows
<1>8. CASE \/ \E w \in Workers : DelResent(w) \/ ConsumerCancelled(w)
           \/ \E j \in Jobs : LockExpires(j)
           \/ BrokerShutsDown \/ Finished \/ UNCHANGED vars
  <2>1. UNCHANGED <<attempts, wpc, wjob, went>>
    BY <1>8 DEF DelResent, ConsumerCancelled, LockExpires, BrokerShutsDown, Finished, vars,
                storeVars, workerVars
  <2> QED
    BY <2>1 DEF OwnerInv, AttemptOwnership, OwnAttempt, AttemptRows
<1> QED
  BY <1>1, <1>2, <1>3, <1>4, <1>5, <1>6, <1>7, <1>8 DEF Next, WorkerStep

\* Nobody owns an attempt at first.
LEMMA OwnerInit == Init => OwnerInv
  BY TypeInit DEF Init, OwnerInv, AttemptOwnership, OwnAttempt, Owning, Auditing

\* Even with locks that expire under live handlers, no two handlers own the
\* same attempt of a job.
THEOREM AttemptsOwned == Spec => []AttemptOwnership
<1>1. OwnerInv => AttemptOwnership
  BY DEF OwnerInv
<1> QED
  BY <1>1, OwnerInit, OwnerStep, PTL DEF Spec

\* A handler finds the row of its attempt as it left it, whoever else runs the
\* job.
THEOREM OwnersFindTheirRow == Spec => []OwnAttempt
<1>1. OwnerInv => OwnAttempt
  BY DEF OwnerInv
<1> QED
  BY <1>1, OwnerInit, OwnerStep, PTL DEF Spec

\* One step never changes an attempt that was decided.
LEMMA FinalStep ==
    OwnerInv /\ [Next]_vars => \A a \in attempts : a.status # "started" => a \in attempts'
<1> SUFFICES ASSUME OwnerInv, [Next]_vars, NEW a \in attempts, a.status # "started"
             PROVE  a \in attempts'
  OBVIOUS
<1>1. ASSUME NEW w \in Workers, InsertAttempt(w) PROVE a \in attempts'
  BY <1>1 DEF InsertAttempt
<1>2. ASSUME NEW w \in Workers, NEW failed \in BOOLEAN, FinishAttempt(w, failed)
      PROVE  a \in attempts'
  <2>1. AttemptRows(wjob[w], went[w].attemptCount)
           = {Attempt(wjob[w], went[w].attemptCount, "started")}
    BY <1>2 DEF FinishAttempt, OwnerInv, OwnAttempt, Owning
  <2>2. a \notin AttemptRows(wjob[w], went[w].attemptCount)
    BY <2>1 DEF Attempt
  <2> QED
    BY <1>2, <2>2 DEF FinishAttempt
<1>3. CASE UNCHANGED attempts
  BY <1>3
<1>4. \/ UNCHANGED attempts
      \/ \E w \in Workers : InsertAttempt(w) \/ \E failed \in BOOLEAN : FinishAttempt(w, failed)
  BY ZenonT(30) DEF Next, WorkerStep, Deliver, AcquireLock, LockBusy, LoadJob, SelectProcessing,
         SaveProcessing, AnnounceProcessing, AuditProcessing, AttemptConflict, SelectCompleted,
         SaveCompleted, SelectFailed, SaveFailed, RaiseAlert, OpenIncident, NotifyOutcome,
         AuditOutcome, AuditAlert, AuditIncident, PublishOutcome, PublishRefused, Release, Settle,
         HandlerThrows, RedisThrows, Crash, EndsWith, SetResent, DelResent, ConsumerCancelled,
         BrokerShutsDown, Create, RetryLoad, RetryReject, RequestStep, RetrySelect, RetrySave,
         RecordCommand, NotifyQueued, Enqueue, Emit, SendRefused, RequestAborts, EnqueueLost,
         LockExpires, Finished, serving, handling, storeVars, vars
<1> QED
  BY <1>1, <1>2, <1>3, <1>4

\* The outcome of an attempt is final under every interleaving, redelivery and
\* stale save.
THEOREM AttemptsFinal == Spec => AttemptFinal
<1>1. OwnerInv /\ [Next]_vars => [\A a \in attempts : a.status # "started" => a \in attempts']_vars
  BY FinalStep
<1> QED
  BY <1>1, OwnerInit, OwnerStep, PTL DEF Spec, AttemptFinal
==============================================================================
