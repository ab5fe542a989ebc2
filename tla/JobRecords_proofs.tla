--------------------------- MODULE JobRecords_proofs ---------------------------
(***************************************************************************)
(* What JobPipeline leaves on record -- audit entries, notifications,      *)
(* alerts and incidents -- and in which order its events follow, for every *)
(* number of jobs, workers and requests and every bound on faults.         *)
(***************************************************************************)
EXTENDS JobPipeline_proofs

\* A step of the handler in slot w, or of what happens to it.
Acts(w) == \/ \E j \in Jobs : Deliver(w, j)
           \/ WorkerStep(w)
           \/ HandlerThrows(w) \/ RedisThrows(w) \/ Crash(w)
           \/ SetResent(w) \/ DelResent(w) \/ EndsWith(w) \/ ConsumerCancelled(w)

\* A step of request r.
Serves(r) == \/ \E j \in Jobs : Create(r, j) \/ RetryLoad(r, j) \/ RetryReject(r, j)
             \/ RequestStep(r)
             \/ RequestAborts(r) \/ EnqueueLost(r)

\* A step of nobody in particular.
Passes == BrokerShutsDown \/ (\E j \in Jobs : LockExpires(j)) \/ Finished \/ UNCHANGED vars

\* A step is that of one slot, of one request, or of neither.
LEMMA StepKinds ==
    ASSUME [Next]_vars
    PROVE  (\E w \in Workers : Acts(w)) \/ (\E r \in Requests : Serves(r)) \/ Passes
BY DEF Next, Acts, Serves, Passes

\* The handler of one slot leaves the others and the requests alone.
LEMMA ActsFrame ==
    ASSUME TypeOK, NEW w \in Workers, Acts(w)
    PROVE  /\ \A v \in Workers \ {w} : wpc'[v] = wpc[v] /\ wjob'[v] = wjob[v]
                                       /\ went'[v] = went[v] /\ wdiff'[v] = wdiff[v]
                                       /\ wack'[v] = wack[v]
           /\ UNCHANGED <<rpc, rjob, rent, rdiff, rkind>>
<1> USE DEF TypeOK, Goto, handling, requestVars
<1>1. CASE \E j \in Jobs : Deliver(w, j)
  BY <1>1 DEF Deliver
<1>2. CASE \/ AcquireLock(w) \/ LockBusy(w) \/ LoadJob(w) \/ AnnounceProcessing(w)
           \/ AuditProcessing(w) \/ InsertAttempt(w) \/ AttemptConflict(w) \/ Release(w)
  BY <1>2 DEF AcquireLock, LockBusy, LoadJob, AnnounceProcessing, AuditProcessing, InsertAttempt,
              AttemptConflict, Release
<1>3. CASE \/ SelectProcessing(w) \/ SelectCompleted(w) \/ SelectFailed(w)
           \/ SaveProcessing(w) \/ SaveCompleted(w) \/ SaveFailed(w)
  BY <1>3 DEF SelectProcessing, SelectCompleted, SelectFailed, SelectEntity, SaveProcessing,
              SaveCompleted, SaveFailed, SaveEntity
<1>4. CASE \E failed \in BOOLEAN : FinishAttempt(w, failed)
  BY <1>4 DEF FinishAttempt
<1>5. CASE \/ RaiseAlert(w) \/ OpenIncident(w) \/ NotifyOutcome(w) \/ AuditOutcome(w)
           \/ AuditAlert(w) \/ AuditIncident(w) \/ PublishOutcome(w)
  BY <1>5 DEF RaiseAlert, OpenIncident, NotifyOutcome, AuditOutcome, AuditAlert, AuditIncident,
              PublishOutcome
<1>6. CASE PublishRefused(w) \/ HandlerThrows(w)
  BY <1>6 DEF PublishRefused, HandlerThrows, Throw
<1>7. CASE Settle(w) \/ Crash(w) \/ EndsWith(w)
  BY <1>7 DEF Settle, Crash, EndsWith, Vacate
<1>8. CASE RedisThrows(w) \/ SetResent(w) \/ DelResent(w) \/ ConsumerCancelled(w)
  BY <1>8 DEF RedisThrows, SetResent, DelResent, ConsumerCancelled, workerVars
<1> QED
  BY <1>1, <1>2, <1>3, <1>4, <1>5, <1>6, <1>7, <1>8 DEF Acts, WorkerStep

\* A request leaves the others and the handlers alone, and writes no attempt,
\* alert or incident.
LEMMA ServesFrame ==
    ASSUME TypeOK, NEW r \in Requests, Serves(r)
    PROVE  /\ \A q \in Requests \ {r} : rpc'[q] = rpc[q] /\ rjob'[q] = rjob[q]
                                        /\ rent'[q] = rent[q] /\ rdiff'[q] = rdiff[q]
                                        /\ rkind'[q] = rkind[q]
           /\ UNCHANGED <<wpc, wjob, went, wdiff, wack, attempts, alerts, incidents, cut>>
<1> USE DEF TypeOK, serving, storeVars, workerVars, history
<1>1. CASE \E j \in Jobs : Create(r, j)
  BY <1>1 DEF Create
<1>2. CASE \E j \in Jobs : RetryLoad(r, j) \/ RetryReject(r, j)
  BY <1>2 DEF RetryLoad, RetryReject
<1>3. CASE RetrySelect(r) \/ RetrySave(r) \/ RecordCommand(r) \/ NotifyQueued(r)
  BY <1>3 DEF RetrySelect, RetrySave, RecordCommand, NotifyQueued
<1>4. CASE Enqueue(r) \/ Emit(r) \/ SendRefused(r) \/ RequestAborts(r) \/ EnqueueLost(r)
  BY <1>4 DEF Enqueue, Emit, SendRefused, RequestAborts, EnqueueLost
<1> QED
  BY <1>1, <1>2, <1>3, <1>4 DEF Serves, RequestStep

\* Time and the broker leave records, handlers and requests alone.
LEMMA PassesFrame ==
    ASSUME Passes
    PROVE  UNCHANGED <<storeVars, events, wpc, wjob, went, wdiff, wack, rpc, rjob, rent, rdiff, rkind,
                       cut>>
BY DEF Passes, BrokerShutsDown, LockExpires, Finished, vars, storeVars, workerVars, requestVars,
       history

\* Nothing that was recorded is ever taken back.
LEMMA RecordsGrow ==
    ASSUME TypeOK, [Next]_vars
    PROVE  /\ audit \subseteq audit' /\ notifications \subseteq notifications'
           /\ alerts \subseteq alerts' /\ incidents \subseteq incidents'
           /\ cut \subseteq cut'
<1>1. ASSUME NEW w \in Workers, Acts(w)
      PROVE  /\ audit \subseteq audit' /\ notifications \subseteq notifications'
             /\ alerts \subseteq alerts' /\ incidents \subseteq incidents'
             /\ cut \subseteq cut'
  BY <1>1 DEF Acts, WorkerStep, Deliver, AcquireLock, LockBusy, LoadJob, SelectProcessing,
         SaveProcessing, AnnounceProcessing, AuditProcessing, InsertAttempt, AttemptConflict,
         FinishAttempt, SelectCompleted, SaveCompleted, SelectFailed, SaveFailed, RaiseAlert,
         OpenIncident, NotifyOutcome, AuditOutcome, AuditAlert, AuditIncident, PublishOutcome,
         PublishRefused, Throw, BreakOff, Release, Settle, HandlerThrows, RedisThrows, Crash,
         EndsWith, SetResent, DelResent, ConsumerCancelled, handling, storeVars, history
<1>2. ASSUME NEW r \in Requests, Serves(r)
      PROVE  audit \subseteq audit' /\ notifications \subseteq notifications'
  BY <1>2 DEF Serves, RequestStep, Create, RetryLoad, RetryReject, RetrySelect, RetrySave,
         RecordCommand, NotifyQueued, Enqueue, Emit, SendRefused, RequestAborts, EnqueueLost,
         storeVars
<1>3. CASE Passes
  BY <1>3, PassesFrame DEF storeVars
<1> QED
  BY <1>1, <1>2, <1>3, ServesFrame, StepKinds

-----------------------------------------------------------------------------
(* No execution is silent. *)

\* Jobs whose creation is audited.
Known == {j \in Jobs : \E e \in audit : e.action = "job.created" /\ e.job = j}

\* Once the message of a job may be on its way, its creation is audited; and a
\* retry only ever saves a row that a worker had decided.
KnownInv ==
    /\ \A j \in Jobs : queue[j] > 0 => j \in Known
    /\ \A j \in Jobs : jobs[j] # None /\ jobs[j].status # "queued" => j \in Known
    /\ \A w \in Workers : wjob[w] # None => wjob[w] \in Known
    /\ \A r \in Requests :
          /\ rpc[r] \in BeforeSave => rkind[r] = "job.retried" /\ rent[r].status = "queued"
          /\ rpc[r] \in BeforeSave \cup {"record"} /\ rkind[r] = "job.retried" => rjob[r] \in Known
          /\ rpc[r] \in {"notify", "enqueue"} => rjob[r] \in Known

\* A job that is known stays known.
LEMMA KnownGrows == ASSUME TypeOK, [Next]_vars PROVE Known \subseteq Known'
BY RecordsGrow DEF Known

\* Nobody knows a job before the first message of it.
LEMMA KnownInit == Init => KnownInv
BY DEF Init, KnownInv, BeforeSave

\* A handler works for a job that was queued.
LEMMA KnownActs ==
    ASSUME TypeOK, KnownInv, NEW w \in Workers, Acts(w), Known \subseteq Known'
    PROVE  KnownInv'
<1> USE NoneAssumption DEF TypeOK
<1>1. wjob'[w] # None => wjob'[w] \in Known
  <2>1. CASE \E j \in Jobs : Deliver(w, j)
    BY <2>1 DEF Deliver, KnownInv
  <2>2. CASE Settle(w) \/ Crash(w) \/ EndsWith(w)
    BY <2>2 DEF Settle, Crash, EndsWith, Vacate
  <2>3. CASE UNCHANGED wjob
    BY <2>3 DEF KnownInv
  <2> QED
    BY <2>1, <2>2, <2>3 DEF Acts, WorkerStep, AcquireLock, LockBusy, LoadJob, SelectProcessing,
       SaveProcessing, AnnounceProcessing, AuditProcessing, InsertAttempt, AttemptConflict,
       FinishAttempt, SelectCompleted, SaveCompleted, SelectFailed, SaveFailed, RaiseAlert,
       OpenIncident, NotifyOutcome, AuditOutcome, AuditAlert, AuditIncident, PublishOutcome,
       PublishRefused, Release, HandlerThrows, RedisThrows, SetResent, DelResent,
       ConsumerCancelled, workerVars, handling
<1>2. \A j \in Jobs : queue'[j] > 0 => queue[j] > 0 \/ wjob[w] = j
  <2>1. CASE \E j \in Jobs : Deliver(w, j)
    BY <2>1 DEF Deliver
  <2>2. CASE Crash(w)
    BY <2>2 DEF Crash, Redeliver
  <2>3. CASE UNCHANGED queue
    BY <2>3
  <2> QED
    BY <2>1, <2>2, <2>3 DEF Acts, WorkerStep, AcquireLock, LockBusy, LoadJob, SelectProcessing,
       SaveProcessing, AnnounceProcessing, AuditProcessing, InsertAttempt, AttemptConflict,
       FinishAttempt, SelectCompleted, SaveCompleted, SelectFailed, SaveFailed, RaiseAlert,
       OpenIncident, NotifyOutcome, AuditOutcome, AuditAlert, AuditIncident, PublishOutcome,
       PublishRefused, Release, Settle, EndsWith, HandlerThrows, RedisThrows, SetResent, DelResent,
       ConsumerCancelled, handling
<1>3. \A j \in Jobs : jobs'[j] = jobs[j] \/ wjob[w] = j
  <2>1. CASE SaveProcessing(w) \/ SaveCompleted(w) \/ SaveFailed(w)
    BY <2>1 DEF SaveProcessing, SaveCompleted, SaveFailed, SaveEntity
  <2>2. CASE UNCHANGED jobs
    BY <2>2
  <2> QED
    BY <2>1, <2>2 DEF Acts, WorkerStep, Deliver, AcquireLock, LockBusy, LoadJob,
       SelectProcessing, SelectCompleted, SelectFailed, AnnounceProcessing, AuditProcessing,
       InsertAttempt, AttemptConflict, FinishAttempt,
       RaiseAlert, OpenIncident, NotifyOutcome, AuditOutcome, AuditAlert, AuditIncident,
       PublishOutcome, PublishRefused, Release, Settle, HandlerThrows, RedisThrows, Crash,
       EndsWith, SetResent, DelResent, ConsumerCancelled, handling, storeVars
<1>4. \A j \in Jobs : wjob[w] = j => j \in Known
  BY DEF KnownInv
<1>5. \A j \in Jobs : queue'[j] > 0 => j \in Known'
  BY <1>2, <1>4 DEF KnownInv
<1>6. \A j \in Jobs : jobs'[j] # None /\ jobs'[j].status # "queued" => j \in Known'
  BY <1>3, <1>4 DEF KnownInv
<1>7. \A v \in Workers : wjob'[v] # None => wjob'[v] \in Known'
  BY <1>1, ActsFrame DEF KnownInv
<1>8. UNCHANGED <<rpc, rjob, rent, rkind>>
  BY ActsFrame
<1> QED
  BY <1>5, <1>6, <1>7, <1>8 DEF KnownInv

\* A request audits what it is about before it sends the message.
LEMMA KnownServes ==
    ASSUME TypeOK, KnownInv, NEW r \in Requests, Serves(r), Known \subseteq Known'
    PROVE  KnownInv'
<1> USE NoneAssumption DEF TypeOK
<1> DEFINE Fine(q) == /\ rpc[q] \in BeforeSave =>
                            rkind[q] = "job.retried" /\ rent[q].status = "queued"
                      /\ rpc[q] \in BeforeSave \cup {"record"} /\ rkind[q] = "job.retried" =>
                            rjob[q] \in Known
                      /\ rpc[q] \in {"notify", "enqueue"} => rjob[q] \in Known
<1>1. /\ \A q \in Requests \ {r} : /\ rpc'[q] = rpc[q] /\ rjob'[q] = rjob[q]
                                     /\ rent'[q] = rent[q] /\ rkind'[q] = rkind[q]
      /\ UNCHANGED wjob
  BY ServesFrame
<1>2. \A q \in Requests : Fine(q)
  BY DEF KnownInv
<1>3. SUFFICES ASSUME TRUE
               PROVE  /\ \A j \in Jobs : queue'[j] > 0 => j \in Known'
                      /\ \A j \in Jobs : jobs'[j] # None /\ jobs'[j].status # "queued" =>
                            j \in Known'
                      /\ Fine(r)'
  BY <1>1, <1>2 DEF KnownInv
<1>4. ASSUME NEW j \in Jobs, Create(r, j)
      PROVE  /\ UNCHANGED queue
             /\ \A i \in Jobs : jobs'[i] # None /\ jobs'[i].status # "queued" => jobs'[i] = jobs[i]
             /\ Fine(r)'
  BY <1>4 DEF Create, BeforeSave
<1>5. ASSUME NEW j \in Jobs, RetryLoad(r, j) PROVE UNCHANGED <<queue, jobs>> /\ Fine(r)'
  <2>1. jobs[j] # None /\ jobs[j].status = "failed"
    BY <1>5 DEF RetryLoad, Retryable
  <2>2. j \in Known'
    BY <2>1 DEF KnownInv
  <2>3. rent'[r].status = "queued"
    BY <1>5, <2>1 DEF RetryLoad, Row
  <2> QED
    BY <1>5, <2>2, <2>3 DEF RetryLoad, storeVars, BeforeSave
<1>6. CASE RetrySelect(r) \/ RetrySave(r)
  <2>1. rjob[r] \in Known
    BY <1>2, <1>6 DEF RetrySelect, RetrySave, BeforeSave
  <2>2. UNCHANGED queue /\ \A i \in Jobs : i = rjob[r] \/ jobs'[i] = jobs[i]
    BY <1>6 DEF RetrySelect, RetrySave, storeVars
  <2>3. Fine(r)'
    BY <1>2, <1>6, <2>1 DEF RetrySelect, RetrySave, BeforeSave
  <2> QED
    BY <2>1, <2>2, <2>3 DEF KnownInv
<1>7. CASE RecordCommand(r)
  <2>1. rjob[r] \in Jobs /\ rkind[r] \in {"job.created", "job.retried"}
    BY <1>7 DEF RecordCommand, RequestPC
  <2>2. rjob[r] \in Known'
    <3>1. CASE rkind[r] = "job.retried"
      BY <1>2, <1>7, <3>1 DEF RecordCommand, BeforeSave
    <3>2. CASE rkind[r] = "job.created"
      <4>1. Entry("job.created", rjob[r], rent[r].attemptCount) \in audit'
        BY <1>7, <3>2 DEF RecordCommand
      <4> QED
        BY <2>1, <4>1 DEF Known, Entry
    <3> QED
      BY <2>1, <3>1, <3>2
  <2>3. UNCHANGED <<queue, jobs, rjob>> /\ rpc'[r] = "notify"
    BY <1>7 DEF RecordCommand, serving
  <2> QED
    BY <2>2, <2>3 DEF KnownInv, BeforeSave
<1>8. CASE NotifyQueued(r) \/ Enqueue(r) \/ EnqueueLost(r)
  <2>1. rjob[r] \in Known /\ UNCHANGED <<jobs, rjob>> /\ rpc'[r] \in {"enqueue", "emit"}
    BY <1>2, <1>8 DEF NotifyQueued, Enqueue, EnqueueLost, serving, storeVars
  <2>2. \A i \in Jobs : queue'[i] = queue[i] \/ i = rjob[r]
    BY <1>8 DEF NotifyQueued, Enqueue, EnqueueLost
  <2> QED
    BY <2>1, <2>2 DEF KnownInv, BeforeSave
<1>9. CASE \/ Emit(r) \/ SendRefused(r) \/ RequestAborts(r)
           \/ \E j \in Jobs : RetryReject(r, j)
  <2>1. UNCHANGED <<queue, jobs>> /\ rpc'[r] = "done"
    BY <1>9 DEF Emit, SendRefused, RequestAborts, RetryReject, serving, storeVars
  <2> QED
    BY <2>1 DEF KnownInv, BeforeSave
<1> QED
  BY <1>4, <1>5, <1>6, <1>7, <1>8, <1>9 DEF Serves, RequestStep, KnownInv

\* Nobody has to be asked who knows a job: every step keeps it so.
LEMMA KnownStep == TypeOK /\ KnownInv /\ [Next]_vars => KnownInv'
<1> SUFFICES ASSUME TypeOK, KnownInv, [Next]_vars PROVE KnownInv'
  OBVIOUS
<1>1. ASSUME NEW w \in Workers, Acts(w) PROVE KnownInv'
  BY <1>1, KnownActs, KnownGrows
<1>2. ASSUME NEW r \in Requests, Serves(r) PROVE KnownInv'
  BY <1>2, KnownServes, KnownGrows
<1>3. CASE Passes
  <2>1. /\ UNCHANGED <<storeVars, wjob, rpc, rjob, rent, rkind>>
    BY <1>3, PassesFrame
  <2>2. \A j \in Jobs : queue'[j] > 0 => queue[j] > 0 \/ \E w \in Workers : wjob[w] = j
    <3>1. CASE BrokerShutsDown
      <4> SUFFICES ASSUME NEW j \in Jobs, queue'[j] > 0, Unacknowledged(j) = {}
                   PROVE  queue[j] > 0
        BY DEF Unacknowledged
      <4> DEFINE c == Cardinality(Unacknowledged(j))
      <4>1. c = 0
        BY FS_EmptySet
      <4>2. queue'[j] = queue[j] + c
        BY <3>1 DEF BrokerShutsDown
      <4>3. queue[j] \in Nat
        BY DEF TypeOK
      <4> HIDE DEF c
      <4>4. queue'[j] = queue[j]
        BY <4>1, <4>2, <4>3
      <4> QED
        BY <4>4
    <3>2. CASE UNCHANGED queue
      BY <3>2
    <3> QED
      BY <1>3, <3>1, <3>2 DEF Passes, LockExpires, Finished, vars
  <2> QED
    BY <2>1, <2>2, NoneAssumption, KnownGrows DEF KnownInv, Known, storeVars
<1> QED
  BY <1>1, <1>2, <1>3, StepKinds

\* A handler that is about to insert its attempt has audited the execution, and the
\* rows that are there tell of audited executions of known jobs.
AuditInv ==
    /\ OwnerInv
    /\ KnownInv
    /\ ExecutionAudited
    /\ \A w \in Workers : wpc[w] = "attempt" =>
          Entry("job.processing", wjob[w], went[w].attemptCount) \in audit

\* Nothing is executed at first.
LEMMA AuditInit == Init => AuditInv
BY OwnerInit, KnownInit DEF Init, AuditInv, ExecutionAudited

\* Every attempt row has the name of one that was there, or of the attempt the
\* handler inserts.
LEMMA AttemptNames ==
    ASSUME OwnerInv, [Next]_vars, NEW a \in attempts'
    PROVE  \/ \E b \in attempts : b.job = a.job /\ b.number = a.number
           \/ \E w \in Workers : /\ InsertAttempt(w)
                                 /\ a = Attempt(wjob[w], went[w].attemptCount, "started")
<1>1. ASSUME NEW w \in Workers, InsertAttempt(w), a \notin attempts
      PROVE  a = Attempt(wjob[w], went[w].attemptCount, "started")
  BY <1>1 DEF InsertAttempt
<1>2. ASSUME NEW w \in Workers, NEW failed \in BOOLEAN, FinishAttempt(w, failed), a \notin attempts
      PROVE  \E b \in attempts : b.job = a.job /\ b.number = a.number
  <2>1. AttemptRows(wjob[w], went[w].attemptCount) # {}
    BY <1>2 DEF FinishAttempt, OwnerInv, OwnAttempt, Owning
  <2>2. a.job = wjob[w] /\ a.number = went[w].attemptCount
    BY <1>2 DEF FinishAttempt, Attempt
  <2> QED
    BY <2>1, <2>2 DEF AttemptRows
<1>3. \/ UNCHANGED attempts
      \/ \E w \in Workers : InsertAttempt(w) \/ \E failed \in BOOLEAN : FinishAttempt(w, failed)
  BY ZenonT(30) DEF Next, WorkerStep, Deliver, AcquireLock, LockBusy, LoadJob, SelectProcessing,
         SaveProcessing, AnnounceProcessing, AuditProcessing, AttemptConflict, SelectCompleted,
         SaveCompleted, SelectFailed, SaveFailed, RaiseAlert, OpenIncident, NotifyOutcome,
         AuditOutcome, AuditAlert, AuditIncident, PublishOutcome, PublishRefused, Release, Settle,
         HandlerThrows, RedisThrows, Crash, EndsWith, SetResent, DelResent, ConsumerCancelled,
         BrokerShutsDown, Create, RetryLoad, RetryReject, RequestStep, RetrySelect, RetrySave,
         RecordCommand, NotifyQueued, Enqueue, Emit, SendRefused, RequestAborts, EnqueueLost,
         LockExpires, Finished, serving, handling, storeVars, vars
<1> QED
  BY <1>1, <1>2, <1>3

\* The audit invariant is inductive.
LEMMA AuditStep == AuditInv /\ [Next]_vars => AuditInv'
<1> SUFFICES ASSUME AuditInv, [Next]_vars PROVE AuditInv'
  OBVIOUS
<1>0. OwnerInv /\ OwnerInv' /\ KnownInv /\ KnownInv' /\ TypeOK
  BY OwnerStep, KnownStep DEF AuditInv, OwnerInv
<1>1. audit \subseteq audit' /\ Known \subseteq Known'
  BY <1>0, RecordsGrow, KnownGrows
<1>2. \A w \in Workers : wpc'[w] = "attempt" =>
         Entry("job.processing", wjob'[w], went'[w].attemptCount) \in audit'
  <2> SUFFICES ASSUME NEW w \in Workers, wpc'[w] = "attempt"
               PROVE  Entry("job.processing", wjob'[w], went'[w].attemptCount) \in audit'
    OBVIOUS
  <2>1. CASE AuditProcessing(w)
    BY <2>1 DEF AuditProcessing, handling
  <2>2. CASE wpc[w] = "attempt" /\ wjob'[w] = wjob[w] /\ went'[w] = went[w]
    BY <1>1, <2>2 DEF AuditInv
  <2>3. ASSUME Acts(w), ~AuditProcessing(w) PROVE wpc[w] = "attempt" /\ UNCHANGED <<wjob, went>>
    BY <1>0, <2>3 DEF TypeOK, Acts, WorkerStep, Deliver, AcquireLock, LockBusy, LoadJob,
       SelectProcessing, SaveProcessing, AnnounceProcessing, InsertAttempt, AttemptConflict,
       FinishAttempt, SelectCompleted, SaveCompleted, SelectFailed, SaveFailed, RaiseAlert,
       OpenIncident, NotifyOutcome, AuditOutcome, AuditAlert, AuditIncident, PublishOutcome,
       PublishRefused, Throw, Release, Settle, Vacate, HandlerThrows, RedisThrows, Crash,
       EndsWith, SetResent, DelResent, ConsumerCancelled, Goto, workerVars
  <2>4. \/ wpc[w] = "attempt" /\ wjob'[w] = wjob[w] /\ went'[w] = went[w]
        \/ Acts(w)
    BY <1>0, ActsFrame, ServesFrame, PassesFrame, StepKinds
  <2> QED
    BY <2>1, <2>2, <2>3, <2>4
<1>3. ExecutionAudited'
  <2> SUFFICES ASSUME NEW a \in attempts'
               PROVE  /\ Entry("job.processing", a.job, a.number) \in audit'
                      /\ \E e \in audit' : e.action = "job.created" /\ e.job = a.job
    BY DEF ExecutionAudited, Entry
  <2>1. CASE \E b \in attempts : b.job = a.job /\ b.number = a.number
    BY <1>1, <2>1 DEF AuditInv, ExecutionAudited
  <2>2. ASSUME NEW w \in Workers, InsertAttempt(w),
               a = Attempt(wjob[w], went[w].attemptCount, "started")
        PROVE  /\ Entry("job.processing", a.job, a.number) \in audit'
               /\ \E e \in audit' : e.action = "job.created" /\ e.job = a.job
    <3>1. wpc[w] = "attempt" /\ wjob[w] # None /\ a.job = wjob[w]
          /\ a.number = went[w].attemptCount
      BY <1>0, <2>2 DEF InsertAttempt, TypeOK, Attempt
    <3>2. wjob[w] \in Known
      BY <1>0, <3>1 DEF KnownInv
    <3> QED
      BY <1>1, <3>1, <3>2 DEF AuditInv, Known
  <2> QED
    BY <1>0, <2>1, <2>2, AttemptNames
<1> QED
  BY <1>0, <1>2, <1>3 DEF AuditInv

\* No execution is silent, and none is of a job whose creation went unrecorded,
\* although workers write the one entry and the API the other.
THEOREM ExecutionsAreAudited == Spec => []ExecutionAudited
<1>1. AuditInv => ExecutionAudited
  BY DEF AuditInv
<1> QED
  BY <1>1, AuditInit, AuditStep, PTL DEF Spec

-----------------------------------------------------------------------------
(* Events follow what they announce. *)

\* The status of a handler's attempt once its outcome is saved.
Verdict(w) == IF went[w].status = "failed" THEN "failed" ELSE "succeeded"

\* The alert and the incident row of a handler's attempt.
AlertRow(w) == [job |-> wjob[w], number |-> went[w].attemptCount, severity |-> Severity(went[w])]
IncidentRow(w) == [job |-> wjob[w], number |-> went[w].attemptCount]

\* What is on record when the handler of w is where it is.
Recorded(w) ==
    LET j == wjob[w]
        n == went[w].attemptCount
        failed == went[w].status = "failed"
    IN
    /\ wpc[w] \in {"selectcompleted", "savecompleted"} => Attempt(j, n, "succeeded") \in attempts
    /\ wpc[w] \in {"selectfailed", "savefailed"} => Attempt(j, n, "failed") \in attempts
    /\ wpc[w] = "savecompleted" => went[w].status = "completed"
    /\ wpc[w] = "savefailed" => failed
    /\ wpc[w] \in Deciding => Attempt(j, n, Verdict(w)) \in attempts
    /\ wpc[w] \in {"alert", "incident", "auditalert", "auditincident"} => failed
    /\ wpc[w] \in {"incident", "auditincident"} => Exhausted(went[w])
    /\ wpc[w] \in Deciding \ {"alert"} /\ failed => AlertRow(w) \in alerts
    /\ wpc[w] \in Deciding \ {"alert", "incident"} /\ failed /\ Exhausted(went[w]) =>
          IncidentRow(w) \in incidents
    /\ wpc[w] \in Auditing \cup {"publish"} => Entry(went[w].status, j, n) \in notifications
    /\ wpc[w] \in {"auditalert", "auditincident", "publish"} =>
          Entry(OutcomeName(went[w]), j, n) \in audit

\* A request notifies before it sends the message and the events.
Noted(r) == rpc[r] \in {"enqueue", "emit"} =>
                Entry("queued", rjob[r], rent[r].attemptCount) \in notifications

\* Every stage of a handler or request finds the records of the stages before it.
RecordInv ==
    /\ OwnerInv
    /\ EventsFollowCommits
    /\ \A w \in Workers : Recorded(w)
    /\ \A r \in Requests : Noted(r)

\* Nothing was announced and nobody is anywhere at first.
LEMMA RecordInit == Init => RecordInv
  BY OwnerInit DEF Init, RecordInv, EventsFollowCommits, Recorded, Noted, Deciding, Auditing

\* What a handler that does not move has on record stays there.
LEMMA RecordedKept ==
    ASSUME RecordInv, [Next]_vars, NEW w \in Workers,
           wpc'[w] = wpc[w], wjob'[w] = wjob[w], went'[w] = went[w]
    PROVE  Recorded(w)'
<1>1. /\ audit \subseteq audit' /\ notifications \subseteq notifications'
      /\ alerts \subseteq alerts' /\ incidents \subseteq incidents'
  BY RecordsGrow DEF RecordInv, OwnerInv
<1>2. \A j, n : \A s \in {"succeeded", "failed"} :
         Attempt(j, n, s) \in attempts => Attempt(j, n, s) \in attempts'
  BY FinalStep DEF RecordInv, Attempt
<1>3. Verdict(w) \in {"succeeded", "failed"} /\ Verdict(w)' = Verdict(w)
  BY DEF Verdict
<1>4. AlertRow(w)' = AlertRow(w) /\ IncidentRow(w)' = IncidentRow(w)
  BY DEF AlertRow, IncidentRow, Severity, Exhausted
<1>5. Recorded(w)
  BY DEF RecordInv
<1> QED
  BY <1>1, <1>2, <1>3, <1>4, <1>5 DEF Recorded

\* A handler that moves on leaves on record what its next stage builds on.
LEMMA RecordedActs ==
    ASSUME RecordInv, [Next]_vars, NEW w \in Workers, Acts(w)
    PROVE  Recorded(w)'
<1> DEFINE j == wjob[w]
           n == went[w].attemptCount
           failed == went[w].status = "failed"
<1>0. TypeOK /\ Recorded(w)
  BY DEF RecordInv, OwnerInv
<1>1. ASSUME NEW f \in BOOLEAN, FinishAttempt(w, f) PROVE Recorded(w)'
  <2>1. /\ wpc'[w] = IF f THEN "selectfailed" ELSE "selectcompleted"
        /\ UNCHANGED <<wjob, went>>
        /\ Attempt(j, n, IF f THEN "failed" ELSE "succeeded") \in attempts'
    BY <1>0, <1>1 DEF FinishAttempt, Goto, handling, TypeOK
  <2> QED
    BY <2>1 DEF Recorded, Deciding, Auditing
<1>2. ASSUME SelectCompleted(w) \/ SelectFailed(w) PROVE Recorded(w)'
  <2>1. PICK entity \in Row :
            /\ went'[w] = entity /\ entity.attemptCount = n
            /\ SelectCompleted(w) => entity.status = "completed"
            /\ SelectFailed(w) => entity.status = "failed"
    BY <1>0, <1>2, Selects DEF SelectCompleted, SelectFailed, SelectProcessing
  <2>2. UNCHANGED <<wjob, attempts>>
    BY <1>2 DEF SelectCompleted, SelectFailed, handling, storeVars
  <2>3. CASE SelectCompleted(w)
    <3>1. wpc'[w] = "savecompleted" /\ Attempt(j, n, "succeeded") \in attempts
      BY <1>0, <2>3 DEF SelectCompleted, Goto, TypeOK, Recorded
    <3> QED
      BY <2>1, <2>2, <2>3, <3>1 DEF Recorded, Deciding, Auditing
  <2>4. CASE SelectFailed(w)
    <3>1. wpc'[w] = "savefailed" /\ Attempt(j, n, "failed") \in attempts
      BY <1>0, <2>4 DEF SelectFailed, Goto, TypeOK, Recorded
    <3> QED
      BY <2>1, <2>2, <2>4, <3>1 DEF Recorded, Deciding, Auditing
  <2> QED
    BY <1>2, <2>3, <2>4
<1>6. ASSUME SaveCompleted(w) \/ SaveFailed(w) PROVE Recorded(w)'
  <2>1. UNCHANGED <<wjob, went, attempts>>
    BY <1>6 DEF SaveCompleted, SaveFailed, handling
  <2>2. CASE SaveCompleted(w)
    <3>1. /\ wpc'[w] = "notify" /\ went[w].status = "completed"
          /\ Attempt(j, n, "succeeded") \in attempts
      BY <1>0, <2>2 DEF SaveCompleted, Goto, TypeOK, Recorded
    <3> QED
      BY <2>1, <3>1 DEF Recorded, Verdict, Auditing
  <2>3. CASE SaveFailed(w)
    <3>1. wpc'[w] = "alert" /\ failed /\ Attempt(j, n, "failed") \in attempts
      BY <1>0, <2>3 DEF SaveFailed, Goto, TypeOK, Recorded
    <3> QED
      BY <2>1, <3>1 DEF Recorded, Verdict, Auditing
  <2> QED
    BY <1>6, <2>2, <2>3
<1>3. CASE \/ RaiseAlert(w) \/ OpenIncident(w) \/ NotifyOutcome(w) \/ AuditOutcome(w)
           \/ AuditAlert(w) \/ AuditIncident(w)
  <2>1. UNCHANGED <<wjob, went, attempts>>
    BY <1>3 DEF RaiseAlert, OpenIncident, NotifyOutcome, AuditOutcome, AuditAlert, AuditIncident,
                handling
  <2>2. Verdict(w)' = Verdict(w) /\ AlertRow(w)' = AlertRow(w) /\ IncidentRow(w)' = IncidentRow(w)
        /\ Exhausted(went[w])' = Exhausted(went[w]) /\ OutcomeName(went[w])' = OutcomeName(went[w])
    BY <2>1 DEF Verdict, AlertRow, IncidentRow, Severity, Exhausted, OutcomeName
  <2>3. wpc[w] \in Deciding /\ Attempt(j, n, Verdict(w)) \in attempts
    BY <1>0, <1>3 DEF Recorded, RaiseAlert, OpenIncident, NotifyOutcome, AuditOutcome, AuditAlert,
       AuditIncident, Deciding, Auditing
  <2>4. CASE RaiseAlert(w)
    <3>1. /\ wpc'[w] = IF Exhausted(went[w]) THEN "incident" ELSE "notify"
          /\ AlertRow(w) \in alerts' /\ failed
      BY <1>0, <2>4 DEF RaiseAlert, Goto, TypeOK, AlertRow, Recorded
    <3> QED
      BY <2>1, <2>2, <2>3, <3>1 DEF Recorded, Auditing
  <2>5. CASE OpenIncident(w)
    <3>1. /\ wpc'[w] = "notify" /\ UNCHANGED alerts
          /\ IncidentRow(w) \in incidents'
      BY <1>0, <2>5 DEF OpenIncident, Goto, TypeOK, IncidentRow
    <3>2. AlertRow(w) \in alerts
      BY <1>0, <2>5 DEF OpenIncident, Recorded, Deciding
    <3> QED
      BY <2>1, <2>2, <2>3, <3>1, <3>2 DEF Recorded, Auditing
  <2>6. CASE NotifyOutcome(w) \/ AuditOutcome(w) \/ AuditAlert(w) \/ AuditIncident(w)
    <3>1. UNCHANGED <<alerts, incidents>>
      BY <2>6 DEF NotifyOutcome, AuditOutcome, AuditAlert, AuditIncident
    <3>2. /\ failed => AlertRow(w) \in alerts
          /\ failed /\ Exhausted(went[w]) => IncidentRow(w) \in incidents
      BY <1>0, <2>6 DEF NotifyOutcome, AuditOutcome, AuditAlert, AuditIncident, Recorded, Deciding,
         Auditing
    <3>3. Entry(went[w].status, j, n) \in notifications'
      BY <1>0, <2>6 DEF NotifyOutcome, AuditOutcome, AuditAlert, AuditIncident, Recorded, Auditing
    <3>4. /\ wpc'[w] \in Auditing \cup {"publish"}
          /\ wpc'[w] \in {"auditalert", "auditincident"} => failed
          /\ wpc'[w] = "auditincident" => Exhausted(went[w])
          /\ wpc'[w] = "auditjob" \/ Entry(OutcomeName(went[w]), j, n) \in audit'
      BY <1>0, <2>6 DEF NotifyOutcome, AuditOutcome, AuditAlert, AuditIncident, Recorded, Auditing,
         Goto, TypeOK
    <3> QED
      BY <2>1, <2>2, <2>3, <3>1, <3>2, <3>3, <3>4 DEF Recorded, Auditing
  <2> QED
    BY <1>3, <2>4, <2>5, <2>6
<1>4. CASE DelResent(w) \/ ConsumerCancelled(w)
  BY <1>4, RecordedKept DEF DelResent, ConsumerCancelled, workerVars
<1>5. CASE \/ \E i \in Jobs : Deliver(w, i)
           \/ AcquireLock(w) \/ LockBusy(w) \/ LoadJob(w) \/ SelectProcessing(w)
           \/ SaveProcessing(w) \/ AnnounceProcessing(w) \/ AuditProcessing(w)
           \/ InsertAttempt(w) \/ AttemptConflict(w)
           \/ PublishOutcome(w) \/ PublishRefused(w) \/ Release(w) \/ Settle(w)
           \/ HandlerThrows(w) \/ RedisThrows(w) \/ Crash(w) \/ SetResent(w) \/ EndsWith(w)
  <2>1. wpc'[w] \in {"idle", "lock", "load", "start", "claim", "announce", "auditstart",
                     "attempt", "run", "release", "settle"}
    BY <1>0, <1>5 DEF TypeOK, Deliver, AcquireLock, LockBusy, LoadJob, SelectProcessing,
       SaveProcessing, AnnounceProcessing, AuditProcessing, InsertAttempt, AttemptConflict,
       PublishOutcome, PublishRefused, Throw, Release, Settle, Vacate, HandlerThrows, RedisThrows,
       Crash, EndsWith, SetResent, Goto
  <2> QED
    BY <2>1 DEF Recorded, Deciding, Auditing
<1> QED
  BY <1>1, <1>2, <1>3, <1>4, <1>5, <1>6 DEF Acts, WorkerStep

\* A request that moves on has its notification on record.
LEMMA NotedServes ==
    ASSUME RecordInv, [Next]_vars, NEW r \in Requests, Serves(r)
    PROVE  Noted(r)'
<1>0. TypeOK /\ Noted(r) /\ notifications \subseteq notifications'
  BY RecordsGrow DEF RecordInv, OwnerInv
<1>1. CASE NotifyQueued(r)
  BY <1>0, <1>1 DEF NotifyQueued, serving, Noted
<1>2. CASE Enqueue(r) \/ EnqueueLost(r)
  BY <1>0, <1>2 DEF Enqueue, EnqueueLost, serving, storeVars, Noted, TypeOK
<1>3. CASE \/ \E j \in Jobs : Create(r, j) \/ RetryLoad(r, j) \/ RetryReject(r, j)
           \/ RetrySelect(r) \/ RetrySave(r) \/ RecordCommand(r) \/ Emit(r) \/ SendRefused(r)
           \/ RequestAborts(r)
  <2>1. rpc'[r] \notin {"enqueue", "emit"}
    BY <1>0, <1>3 DEF Create, RetryLoad, RetryReject, RetrySelect, RetrySave, RecordCommand, Emit,
       SendRefused, RequestAborts, TypeOK
  <2> QED
    BY <2>1 DEF Noted
<1> QED
  BY <1>1, <1>2, <1>3 DEF Serves, RequestStep

\* Every event was there, announces an execution or a command, or is one of an
\* outcome.
LEMMA EventOrigins ==
    ASSUME [Next]_vars, NEW e \in events'
    PROVE  \/ e \in events
           \/ e.topic = "job.processing"
           \/ \E w \in Workers : PublishOutcome(w)
                 /\ \E t \in OutcomeTopics(went[w]) : e = Event(t, wjob[w], went[w].attemptCount)
           \/ \E r \in Requests : Emit(r)
                 /\ \E t \in {"job.created", "notification.created"} :
                       e = Event(t, rjob[r], rent[r].attemptCount)
<1>1. ASSUME NEW w \in Workers, AnnounceProcessing(w) PROVE e \in events \/ e.topic = "job.processing"
  BY <1>1 DEF AnnounceProcessing, Event
<1>2. ASSUME NEW w \in Workers, PublishOutcome(w), e \notin events
      PROVE  \E t \in OutcomeTopics(went[w]) : e = Event(t, wjob[w], went[w].attemptCount)
  BY <1>2 DEF PublishOutcome
<1>3. ASSUME NEW r \in Requests, Emit(r), e \notin events
      PROVE  \E t \in {"job.created", "notification.created"} :
                e = Event(t, rjob[r], rent[r].attemptCount)
  BY <1>3 DEF Emit
<1>4. \/ UNCHANGED events
      \/ \E w \in Workers : AnnounceProcessing(w) \/ PublishOutcome(w)
      \/ \E r \in Requests : Emit(r)
  BY ZenonT(30) DEF Next, WorkerStep, Deliver, AcquireLock, LockBusy, LoadJob, SelectProcessing,
         SaveProcessing, AuditProcessing, InsertAttempt, AttemptConflict, FinishAttempt,
         SelectCompleted, SaveCompleted, SelectFailed, SaveFailed, RaiseAlert, OpenIncident,
         NotifyOutcome, AuditOutcome, AuditAlert, AuditIncident, PublishRefused, Release, Settle,
         HandlerThrows, RedisThrows, Crash, EndsWith, SetResent, DelResent, ConsumerCancelled,
         BrokerShutsDown, Create, RetryLoad, RetryReject, RequestStep, RetrySelect, RetrySave,
         RecordCommand, NotifyQueued, Enqueue, SendRefused, RequestAborts, EnqueueLost,
         LockExpires, Finished, vars
<1> QED
  BY <1>1, <1>2, <1>3, <1>4

\* Whatever the stages, no event is ahead of its records.
LEMMA RecordStep == RecordInv /\ [Next]_vars => RecordInv'
<1> SUFFICES ASSUME RecordInv, [Next]_vars PROVE RecordInv'
  OBVIOUS
<1>0. OwnerInv /\ OwnerInv' /\ TypeOK
  BY OwnerStep DEF RecordInv, OwnerInv
<1>1. /\ audit \subseteq audit' /\ notifications \subseteq notifications'
      /\ alerts \subseteq alerts' /\ incidents \subseteq incidents'
  BY <1>0, RecordsGrow
<1>2. \A a \in attempts : a.status # "started" => a \in attempts'
  BY <1>0, FinalStep
<1>3. ASSUME NEW w \in Workers PROVE Recorded(w)'
  <2>1. Acts(w) \/ UNCHANGED <<wpc[w], wjob[w], went[w]>>
    BY <1>0, StepKinds, ActsFrame, ServesFrame, PassesFrame
  <2> QED
    BY <2>1, RecordedActs, RecordedKept
<1>4. ASSUME NEW r \in Requests PROVE Noted(r)'
  <2>1. Serves(r) \/ UNCHANGED <<rpc[r], rjob[r], rent[r]>>
    BY <1>0, StepKinds, ActsFrame, ServesFrame, PassesFrame
  <2>2. CASE UNCHANGED <<rpc[r], rjob[r], rent[r]>>
    BY <1>1, <2>2 DEF RecordInv, Noted
  <2> QED
    BY <2>1, <2>2, NotedServes
<1>5. EventsFollowCommits'
  <2> DEFINE Backing(e) ==
        /\ e.topic = "job.completed" =>
              /\ Attempt(e.job, e.number, "succeeded") \in attempts
              /\ Entry("job.completed", e.job, e.number) \in audit
        /\ e.topic = "job.failed" =>
              /\ Attempt(e.job, e.number, "failed") \in attempts
              /\ Entry("job.failed", e.job, e.number) \in audit
              /\ \E a \in alerts : a.job = e.job /\ a.number = e.number
        /\ e.topic = "notification.created" =>
              \E n \in notifications : n.job = e.job /\ n.number = e.number
        /\ e.topic = "incident.updated" =>
              /\ [job |-> e.job, number |-> e.number] \in incidents
              /\ [job |-> e.job, number |-> e.number, severity |-> "critical"] \in alerts
  <2>1. ASSUME NEW e \in events PROVE Backing(e)'
    <3>1. Backing(e)
      BY <2>1 DEF RecordInv, EventsFollowCommits
    <3> QED
      BY <1>1, <1>2, <3>1 DEF Attempt
  <2>2. ASSUME NEW w \in Workers, PublishOutcome(w), NEW t \in OutcomeTopics(went[w]),
               NEW e, e = Event(t, wjob[w], went[w].attemptCount)
        PROVE  Backing(e)'
    <3>1. Recorded(w) /\ wpc[w] = "publish" /\ UNCHANGED storeVars
      BY <2>2 DEF RecordInv, PublishOutcome
    <3>2. e.topic = t /\ e.job = wjob[w] /\ e.number = went[w].attemptCount
      BY <2>2 DEF Event
    <3>3. /\ Attempt(e.job, e.number, Verdict(w)) \in attempts
          /\ Entry(OutcomeName(went[w]), e.job, e.number) \in audit
          /\ Entry(went[w].status, e.job, e.number) \in notifications
          /\ went[w].status = "failed" => AlertRow(w) \in alerts
          /\ went[w].status = "failed" /\ Exhausted(went[w]) => IncidentRow(w) \in incidents
      BY <3>1, <3>2 DEF Recorded, Deciding
    <3>4. went[w].status \in {"completed", "failed"}
      BY <1>0, <3>1 DEF TypeOK, Deciding
    <3>5. CASE t = "job.completed"
      <4>1. went[w].status = "completed"
        BY <2>2, <3>4, <3>5 DEF OutcomeTopics, OutcomeName
      <4> QED
        BY <3>1, <3>2, <3>3, <3>5, <4>1 DEF Verdict, OutcomeName, storeVars
    <3>6. CASE t = "job.failed"
      <4>1. went[w].status = "failed"
        BY <2>2, <3>4, <3>6 DEF OutcomeTopics, OutcomeName
      <4>2. AlertRow(w).job = e.job /\ AlertRow(w).number = e.number
        BY <3>2 DEF AlertRow
      <4> QED
        BY <3>1, <3>2, <3>3, <3>6, <4>1, <4>2 DEF Verdict, OutcomeName, storeVars
    <3>7. CASE t = "notification.created"
      BY <3>1, <3>2, <3>3, <3>7 DEF Entry, storeVars
    <3>8. CASE t = "incident.updated"
      <4>1. went[w].status = "failed" /\ Exhausted(went[w])
        BY <2>2, <3>8 DEF OutcomeTopics, OutcomeName
      <4> QED
        BY <3>1, <3>2, <3>3, <3>8, <4>1 DEF AlertRow, IncidentRow, Severity, storeVars
    <3>9. CASE t = "alert.raised"
      BY <3>2, <3>9
    <3> QED
      BY <2>2, <3>5, <3>6, <3>7, <3>8, <3>9 DEF OutcomeTopics, OutcomeName
  <2>3. ASSUME NEW r \in Requests, Emit(r), NEW t \in {"job.created", "notification.created"},
               NEW e, e = Event(t, rjob[r], rent[r].attemptCount)
        PROVE  Backing(e)'
    <3>1. Noted(r) /\ rpc[r] = "emit" /\ UNCHANGED notifications
      BY <2>3 DEF RecordInv, Emit
    <3> QED
      BY <2>3, <3>1 DEF Noted, Event, Entry
  <2>4. ASSUME NEW e, e.topic = "job.processing" PROVE Backing(e)'
    BY <2>4
  <2>5. \A e \in events' : Backing(e)'
    BY <2>1, <2>2, <2>3, <2>4, EventOrigins
  <2> QED
    BY <2>5 DEF EventsFollowCommits
<1> QED
  BY <1>0, <1>3, <1>4, <1>5 DEF RecordInv

\* Whoever reads the database after an event finds what the event announced.
THEOREM EventsAreBacked == Spec => []EventsFollowCommits
<1>1. RecordInv => EventsFollowCommits
  BY DEF RecordInv
<1> QED
  BY <1>1, RecordInit, RecordStep, PTL DEF Spec

-----------------------------------------------------------------------------
(* No outcome goes unrecorded. *)

\* The unique index on (jobId, attemptNumber).
Unique == \A a, b \in attempts : a.job = b.job /\ a.number = b.number => a = b

\* A step leaves an attempt decided that was, or its handler just decided it.
LEMMA DecidedAttempts ==
    ASSUME OwnerInv, [Next]_vars, NEW a \in attempts', a.status # "started"
    PROVE  \/ a \in attempts
           \/ \E w \in Workers, f \in BOOLEAN :
                 /\ FinishAttempt(w, f)
                 /\ a.job = wjob[w] /\ a.number = went[w].attemptCount
<1>1. ASSUME NEW w \in Workers, InsertAttempt(w) PROVE a \in attempts
  BY <1>1 DEF InsertAttempt, Attempt
<1>2. ASSUME NEW w \in Workers, NEW f \in BOOLEAN, FinishAttempt(w, f), a \notin attempts
      PROVE  a.job = wjob[w] /\ a.number = went[w].attemptCount
  BY <1>2 DEF FinishAttempt, Attempt
<1>3. \/ UNCHANGED attempts
      \/ \E w \in Workers : InsertAttempt(w) \/ \E f \in BOOLEAN : FinishAttempt(w, f)
  BY ZenonT(30) DEF Next, WorkerStep, Deliver, AcquireLock, LockBusy, LoadJob, SelectProcessing,
         SaveProcessing, AnnounceProcessing, AuditProcessing, AttemptConflict, SelectCompleted,
         SaveCompleted, SelectFailed, SaveFailed, RaiseAlert, OpenIncident, NotifyOutcome,
         AuditOutcome, AuditAlert, AuditIncident, PublishOutcome, PublishRefused, Release, Settle,
         HandlerThrows, RedisThrows, Crash, EndsWith, SetResent, DelResent, ConsumerCancelled,
         BrokerShutsDown, Create, RetryLoad, RetryReject, RequestStep, RetrySelect, RetrySave,
         RecordCommand, NotifyQueued, Enqueue, Emit, SendRefused, RequestAborts, EnqueueLost,
         LockExpires, Finished, serving, handling, storeVars, vars
<1> QED
  BY <1>1, <1>2, <1>3

\* The index holds.
LEMMA UniqueStep == Unique /\ [Next]_vars => Unique'
<1> SUFFICES ASSUME Unique, [Next]_vars PROVE Unique'
  OBVIOUS
<1>1. ASSUME NEW w \in Workers, InsertAttempt(w) PROVE Unique'
  <2> DEFINE new == Attempt(wjob[w], went[w].attemptCount, "started")
  <2>1. attempts' = attempts \cup {new}
    BY <1>1 DEF InsertAttempt
  <2>2. \A a \in attempts : ~(a.job = new.job /\ a.number = new.number)
    BY <1>1 DEF InsertAttempt, AttemptRows, Attempt
  <2> HIDE DEF new
  <2> QED
    BY <2>1, <2>2 DEF Unique
<1>2. ASSUME NEW w \in Workers, NEW f \in BOOLEAN, FinishAttempt(w, f) PROVE Unique'
  <2> DEFINE j == wjob[w]
             n == went[w].attemptCount
             new == Attempt(j, n, IF f THEN "failed" ELSE "succeeded")
             kept == attempts \ AttemptRows(j, n)
  <2>1. attempts' = kept \cup {new}
    BY <1>2 DEF FinishAttempt
  <2>2. \A a \in kept : a \in attempts /\ ~(a.job = new.job /\ a.number = new.number)
    BY DEF AttemptRows, Attempt
  <2> HIDE DEF new, kept
  <2> QED
    BY <2>1, <2>2 DEF Unique
<1>3. CASE UNCHANGED attempts
  BY <1>3 DEF Unique
<1>4. \/ UNCHANGED attempts
      \/ \E w \in Workers : InsertAttempt(w) \/ \E f \in BOOLEAN : FinishAttempt(w, f)
  BY ZenonT(30) DEF Next, WorkerStep, Deliver, AcquireLock, LockBusy, LoadJob, SelectProcessing,
         SaveProcessing, AnnounceProcessing, AuditProcessing, AttemptConflict, SelectCompleted,
         SaveCompleted, SelectFailed, SaveFailed, RaiseAlert, OpenIncident, NotifyOutcome,
         AuditOutcome, AuditAlert, AuditIncident, PublishOutcome, PublishRefused, Release, Settle,
         HandlerThrows, RedisThrows, Crash, EndsWith, SetResent, DelResent, ConsumerCancelled,
         BrokerShutsDown, Create, RetryLoad, RetryReject, RequestStep, RetrySelect, RetrySave,
         RecordCommand, NotifyQueued, Enqueue, Emit, SendRefused, RequestAborts, EnqueueLost,
         LockExpires, Finished, serving, handling, storeVars, vars
<1> QED
  BY <1>1, <1>2, <1>3, <1>4

\* Where a handler is whose outcome is not on record yet.
Recording == {"selectcompleted", "selectfailed", "savecompleted", "savefailed", "alert",
              "incident", "notify", "auditjob"}

\* The handler of w is about to record attempt a.
Records(w, a) ==
    wpc[w] \in Recording /\ wjob[w] = a.job /\ went[w].attemptCount = a.number

\* The notification and the audit entry of attempt a.
OnRecord(a) ==
    /\ Entry(IF a.status = "failed" THEN "failed" ELSE "completed", a.job, a.number)
          \in notifications
    /\ Entry(IF a.status = "failed" THEN "job.failed" ELSE "job.completed", a.job, a.number)
          \in audit

\* Its execution was broken off.
CutOff(a) == [job |-> a.job, number |-> a.number] \in cut

\* A handler that is about to record a goes on, has recorded it or is broken off.
LEMMA RecordingGoesOn ==
    ASSUME RecordInv, Unique, [Next]_vars, NEW w \in Workers, Acts(w),
           NEW a \in attempts, a.status # "started", Records(w, a)
    PROVE  OnRecord(a)' \/ Records(w, a)' \/ CutOff(a)'
<1> DEFINE n == went[w].attemptCount
<1>0. /\ TypeOK /\ Recorded(w) /\ a.status \in {"succeeded", "failed"}
      /\ wpc[w] \in Recording /\ a.job = wjob[w] /\ a.number = n
  BY DEF RecordInv, OwnerInv, TypeOK, Records
<1>1. CASE SelectCompleted(w) \/ SelectFailed(w)
  <2>1. went'[w].attemptCount = n
    BY <1>0, <1>1, Selects DEF SelectCompleted, SelectFailed, SelectProcessing
  <2>2. UNCHANGED wjob /\ wpc'[w] \in Recording
    BY <1>0, <1>1 DEF SelectCompleted, SelectFailed, handling, Goto, TypeOK, Recording
  <2> QED
    BY <1>0, <2>1, <2>2 DEF Records
<1>6. CASE SaveCompleted(w) \/ SaveFailed(w)
  BY <1>0, <1>6 DEF SaveCompleted, SaveFailed, handling, Goto, TypeOK, Records, Recording
<1>2. CASE RaiseAlert(w) \/ OpenIncident(w) \/ NotifyOutcome(w)
  BY <1>0, <1>2 DEF RaiseAlert, OpenIncident, NotifyOutcome, handling, Goto, TypeOK, Records,
     Recording
<1>3. CASE AuditOutcome(w)
  <2>1. /\ wpc[w] = "auditjob" /\ UNCHANGED notifications
        /\ Entry(OutcomeName(went[w]), a.job, a.number) \in audit'
    BY <1>0, <1>3 DEF AuditOutcome
  <2>2. /\ Entry(went[w].status, a.job, a.number) \in notifications
        /\ Attempt(a.job, a.number, Verdict(w)) \in attempts
    BY <1>0, <2>1 DEF Recorded, Deciding, Auditing
  <2>3. a.status = Verdict(w)
    BY <2>2 DEF Unique, Attempt
  <2>4. went[w].status \in {"completed", "failed"}
    BY <1>0, <2>1 DEF TypeOK, Deciding, Auditing
  <2> QED
    BY <2>1, <2>2, <2>3, <2>4 DEF OnRecord, Verdict, OutcomeName
<1>4. CASE HandlerThrows(w) \/ Crash(w) \/ EndsWith(w)
  <2>1. BreakOff(w)
    BY <1>4 DEF HandlerThrows, Throw, Crash, EndsWith
  <2> QED
    BY <1>0, <2>1 DEF BreakOff, Recording, Owning, Auditing, CutOff
<1>5. CASE ConsumerCancelled(w)
  BY <1>5 DEF ConsumerCancelled, Records
<1> QED
  BY <1>0, <1>1, <1>2, <1>3, <1>4, <1>5, <1>6 DEF Acts, WorkerStep, Deliver, AcquireLock, LockBusy,
     LoadJob, SelectProcessing, SaveProcessing, AnnounceProcessing, AuditProcessing,
     InsertAttempt, AttemptConflict, FinishAttempt, AuditAlert, AuditIncident, PublishOutcome,
     PublishRefused, Publishing, Release, Settle, RedisThrows, SetResent, DelResent, Recording

\* Outcomes stay on record, or on their way there.
OutcomeInv == RecordInv /\ Unique /\ \A a \in attempts : a.status # "started" =>
                 OnRecord(a) \/ (\E w \in Workers : Records(w, a)) \/ CutOff(a)

\* Nothing is decided at first.
LEMMA OutcomeInit == Init => OutcomeInv
  BY RecordInit DEF Init, OutcomeInv, Unique

\* Whoever decided an attempt records it, whatever the others do.
LEMMA OutcomeStep == OutcomeInv /\ [Next]_vars => OutcomeInv'
<1> SUFFICES ASSUME OutcomeInv, [Next]_vars PROVE OutcomeInv'
  OBVIOUS
<1>0. RecordInv /\ OwnerInv /\ TypeOK /\ Unique
  BY DEF OutcomeInv, RecordInv, OwnerInv
<1>1. RecordInv' /\ Unique'
  BY <1>0, RecordStep, UniqueStep
<1>2. ASSUME NEW a \in attempts', a.status # "started"
      PROVE  OnRecord(a)' \/ (\E w \in Workers : Records(w, a)') \/ CutOff(a)'
  <2>1. ASSUME NEW w \in Workers, NEW f \in BOOLEAN, FinishAttempt(w, f),
               a.job = wjob[w], a.number = went[w].attemptCount
        PROVE  Records(w, a)'
    BY <1>0, <2>1 DEF FinishAttempt, Goto, handling, TypeOK, Records, Recording
  <2>2. CASE a \in attempts
    <3>1. OnRecord(a) => OnRecord(a)'
      BY <1>0, RecordsGrow DEF OnRecord
    <3>2. CutOff(a) => CutOff(a)'
      BY <1>0, RecordsGrow DEF CutOff
    <3>3. ASSUME NEW w \in Workers, Records(w, a)
          PROVE  OnRecord(a)' \/ Records(w, a)' \/ CutOff(a)'
      <4>1. Acts(w) \/ UNCHANGED <<wpc[w], wjob[w], went[w]>>
        BY <1>0, StepKinds, ActsFrame, ServesFrame, PassesFrame
      <4>2. CASE UNCHANGED <<wpc[w], wjob[w], went[w]>>
        BY <3>3, <4>2 DEF Records
      <4> QED
        BY <1>0, <1>2, <2>2, <3>3, <4>1, <4>2, RecordingGoesOn
    <3> QED
      BY <1>2, <2>2, <3>1, <3>2, <3>3 DEF OutcomeInv
  <2> QED
    BY <1>0, <1>2, <2>1, <2>2, DecidedAttempts
<1> QED
  BY <1>1, <1>2 DEF OutcomeInv

\* A decided attempt is audited and notified, or its handler is about to, or was
\* broken off.
THEOREM OutcomesAreRecorded == Spec => []OutcomesOnRecord
<1>1. OutcomeInv => OutcomesOnRecord
  BY DEF OutcomeInv, OutcomesOnRecord, OnRecord, Records, Recording, CutOff
<1> QED
  BY <1>1, OutcomeInit, OutcomeStep, PTL DEF Spec

-----------------------------------------------------------------------------
(* Nothing that is on record is untrue. *)

\* How attempt n of job j ended.
Succeeded(j, n) == Attempt(j, n, "succeeded") \in attempts
Failed(j, n)    == Attempt(j, n, "failed") \in attempts

\* What an audit entry says is so.
EntryTrue(e) ==
    /\ e.action = "job.completed" => Succeeded(e.job, e.number)
    /\ e.action \in {"job.failed", "alert.raised", "incident.created"} => Failed(e.job, e.number)
    /\ e.action = "alert.raised" => \E a \in alerts : a.job = e.job /\ a.number = e.number
    /\ e.action = "incident.created" => [job |-> e.job, number |-> e.number] \in incidents

\* What a notification says is so.
NoticeTrue(n) ==
    /\ n.action = "completed" => Succeeded(n.job, n.number)
    /\ n.action = "failed" => Failed(n.job, n.number)

\* Whoever reads the audit trail, the notifications, the alerts or the incidents
\* reads of an attempt that ended as they say, and of an alert and an incident
\* that exist, although every one of them is written by a statement of its own
\* and the process may die between any two (job-processor.service.ts:118-254).
RecordsTruthful ==
    /\ \A e \in audit : EntryTrue(e)
    /\ \A n \in notifications : NoticeTrue(n)
    /\ \A a \in alerts : Failed(a.job, a.number)
    /\ \A i \in incidents :
          /\ Failed(i.job, i.number)
          /\ [job |-> i.job, number |-> i.number, severity |-> "critical"] \in alerts

\* Truth rests on what handlers have on record when they write.
TruthInv == RecordInv /\ RecordsTruthful

\* Nothing is said at first.
LEMMA TruthInit == Init => TruthInv
  BY RecordInit DEF Init, TruthInv, RecordsTruthful

\* Where a new audit entry comes from.
LEMMA EntryOrigins ==
    ASSUME [Next]_vars, NEW e \in audit', e \notin audit
    PROVE  \/ e.action = "job.processing"
           \/ \E w \in Workers :
                 \/ AuditOutcome(w) /\ e = Entry(OutcomeName(went[w]), wjob[w], went[w].attemptCount)
                 \/ AuditAlert(w) /\ e = Entry("alert.raised", wjob[w], went[w].attemptCount)
                 \/ AuditIncident(w) /\ e = Entry("incident.created", wjob[w], went[w].attemptCount)
           \/ \E r \in Requests :
                 RecordCommand(r) /\ e = Entry(rkind[r], rjob[r], rent[r].attemptCount)
<1>1. ASSUME NEW w \in Workers, AuditProcessing(w) PROVE e.action = "job.processing"
  BY <1>1 DEF AuditProcessing, Entry
<1>2. ASSUME NEW w \in Workers, AuditOutcome(w)
      PROVE  e = Entry(OutcomeName(went[w]), wjob[w], went[w].attemptCount)
  BY <1>2 DEF AuditOutcome
<1>3. ASSUME NEW w \in Workers, AuditAlert(w)
      PROVE  e = Entry("alert.raised", wjob[w], went[w].attemptCount)
  BY <1>3 DEF AuditAlert
<1>4. ASSUME NEW w \in Workers, AuditIncident(w)
      PROVE  e = Entry("incident.created", wjob[w], went[w].attemptCount)
  BY <1>4 DEF AuditIncident
<1>5. ASSUME NEW r \in Requests, RecordCommand(r)
      PROVE  e = Entry(rkind[r], rjob[r], rent[r].attemptCount)
  BY <1>5 DEF RecordCommand
<1>6. \/ UNCHANGED audit
      \/ \E w \in Workers : \/ AuditProcessing(w) \/ AuditOutcome(w) \/ AuditAlert(w)
                            \/ AuditIncident(w)
      \/ \E r \in Requests : RecordCommand(r)
  BY ZenonT(30) DEF Next, WorkerStep, Deliver, AcquireLock, LockBusy, LoadJob, SelectProcessing,
         SaveProcessing, AnnounceProcessing, InsertAttempt, AttemptConflict, FinishAttempt,
         SelectCompleted, SaveCompleted, SelectFailed, SaveFailed, RaiseAlert, OpenIncident,
         NotifyOutcome, PublishOutcome, PublishRefused, Release, Settle, HandlerThrows,
         RedisThrows, Crash, EndsWith, SetResent, DelResent, ConsumerCancelled, BrokerShutsDown,
         Create, RetryLoad, RetryReject, RequestStep, RetrySelect, RetrySave, NotifyQueued,
         Enqueue, Emit, SendRefused, RequestAborts, EnqueueLost, LockExpires, Finished, serving,
         storeVars, vars
<1> QED
  BY <1>1, <1>2, <1>3, <1>4, <1>5, <1>6

\* Where a new notification, alert or incident comes from.
LEMMA NoticeOrigins ==
    ASSUME [Next]_vars
    PROVE  /\ \A n \in notifications' \ notifications :
                 \/ n.action = "queued"
                 \/ \E w \in Workers : NotifyOutcome(w)
                       /\ n = Entry(went[w].status, wjob[w], went[w].attemptCount)
           /\ \A a \in alerts' \ alerts : \E w \in Workers : RaiseAlert(w) /\ a = AlertRow(w)
           /\ \A i \in incidents' \ incidents :
                 \E w \in Workers : OpenIncident(w) /\ i = IncidentRow(w)
<1>1. ASSUME NEW w \in Workers, NotifyOutcome(w), NEW n \in notifications' \ notifications
      PROVE  n = Entry(went[w].status, wjob[w], went[w].attemptCount)
  BY <1>1 DEF NotifyOutcome
<1>2. ASSUME NEW r \in Requests, NotifyQueued(r), NEW n \in notifications' \ notifications
      PROVE  n.action = "queued"
  BY <1>2 DEF NotifyQueued, Entry
<1>3. ASSUME NEW w \in Workers, RaiseAlert(w), NEW a \in alerts' \ alerts PROVE a = AlertRow(w)
  BY <1>3 DEF RaiseAlert, AlertRow
<1>4. ASSUME NEW w \in Workers, OpenIncident(w), NEW i \in incidents' \ incidents
      PROVE  i = IncidentRow(w)
  BY <1>4 DEF OpenIncident, IncidentRow
<1>5. /\ \/ UNCHANGED notifications
         \/ \E w \in Workers : NotifyOutcome(w)
         \/ \E r \in Requests : NotifyQueued(r)
      /\ UNCHANGED alerts \/ \E w \in Workers : RaiseAlert(w)
      /\ UNCHANGED incidents \/ \E w \in Workers : OpenIncident(w)
  BY ZenonT(30) DEF Next, WorkerStep, Deliver, AcquireLock, LockBusy, LoadJob, SelectProcessing,
         SaveProcessing, AnnounceProcessing, AuditProcessing, InsertAttempt, AttemptConflict,
         FinishAttempt, SelectCompleted, SaveCompleted, SelectFailed, SaveFailed, RaiseAlert,
         OpenIncident, NotifyOutcome, AuditOutcome, AuditAlert, AuditIncident, PublishOutcome,
         PublishRefused, Release, Settle, HandlerThrows, RedisThrows, Crash, EndsWith, SetResent,
         DelResent, ConsumerCancelled, BrokerShutsDown, Create, RetryLoad, RetryReject,
         RequestStep, RetrySelect, RetrySave, RecordCommand, NotifyQueued, Enqueue, Emit,
         SendRefused, RequestAborts, EnqueueLost, LockExpires, Finished, handling, serving,
         storeVars, vars
<1> QED
  BY <1>1, <1>2, <1>3, <1>4, <1>5

\* What was true stays true, and what is written is true when it is written.
LEMMA TruthStep == TruthInv /\ [Next]_vars => TruthInv'
<1> SUFFICES ASSUME TruthInv, [Next]_vars PROVE TruthInv'
  OBVIOUS
<1>0. RecordInv /\ OwnerInv /\ TypeOK
  BY DEF TruthInv, RecordInv, OwnerInv
<1>1. RecordInv'
  BY <1>0, RecordStep
<1>2. \A j, n : /\ Succeeded(j, n) => Succeeded(j, n)'
                /\ Failed(j, n) => Failed(j, n)'
  BY <1>0, FinalStep DEF Succeeded, Failed, Attempt
<1>3. alerts \subseteq alerts' /\ incidents \subseteq incidents'
  BY <1>0, RecordsGrow
<1>4. ASSUME NEW w \in Workers, wpc[w] \in Deciding
      PROVE  /\ went[w].status \in {"completed", "failed"}
             /\ went[w].status = "completed" =>
                   Attempt(wjob[w], went[w].attemptCount, "succeeded") \in attempts'
             /\ went[w].status = "failed" =>
                   Attempt(wjob[w], went[w].attemptCount, "failed") \in attempts'
             /\ wpc[w] \in {"alert", "incident", "auditalert", "auditincident"} =>
                   went[w].status = "failed"
  <2>1. Recorded(w) /\ went[w].status \in {"completed", "failed"}
    BY <1>0, <1>4 DEF RecordInv, TypeOK
  <2>2. Attempt(wjob[w], went[w].attemptCount, Verdict(w)) \in attempts
    BY <1>4, <2>1 DEF Recorded
  <2> QED
    BY <1>2, <1>4, <2>1, <2>2 DEF Verdict, Succeeded, Failed, Recorded
<1>5. ASSUME NEW e \in audit' PROVE EntryTrue(e)'
  <2>1. CASE e \in audit
    <3>1. EntryTrue(e)
      BY <2>1 DEF TruthInv, RecordsTruthful
    <3> QED
      BY <1>2, <1>3, <3>1 DEF EntryTrue
  <2>2. ASSUME NEW w \in Workers, AuditOutcome(w),
               e = Entry(OutcomeName(went[w]), wjob[w], went[w].attemptCount)
        PROVE  EntryTrue(e)'
    <3>1. wpc[w] \in Deciding
      BY <2>2 DEF AuditOutcome, Deciding, Auditing
    <3>2. e.job = wjob[w] /\ e.number = went[w].attemptCount
          /\ e.action = IF went[w].status = "completed" THEN "job.completed" ELSE "job.failed"
      BY <2>2 DEF Entry, OutcomeName
    <3> QED
      BY <1>4, <3>1, <3>2 DEF EntryTrue, Succeeded, Failed
  <2>3. ASSUME NEW w \in Workers, AuditAlert(w),
               e = Entry("alert.raised", wjob[w], went[w].attemptCount)
        PROVE  EntryTrue(e)'
    <3>1. wpc[w] = "auditalert" /\ wpc[w] \in Deciding
      BY <2>3 DEF AuditAlert, Deciding, Auditing
    <3>2. e.job = wjob[w] /\ e.number = went[w].attemptCount /\ e.action = "alert.raised"
      BY <2>3 DEF Entry
    <3>3. went[w].status = "failed" /\ Attempt(wjob[w], went[w].attemptCount, "failed") \in attempts'
      BY <1>4, <3>1
    <3>4. AlertRow(w) \in alerts
      BY <1>0, <3>1, <3>3 DEF RecordInv, Recorded
    <3> QED
      BY <1>3, <3>2, <3>3, <3>4 DEF EntryTrue, Failed, AlertRow
  <2>4. ASSUME NEW w \in Workers, AuditIncident(w),
               e = Entry("incident.created", wjob[w], went[w].attemptCount)
        PROVE  EntryTrue(e)'
    <3>1. wpc[w] = "auditincident" /\ wpc[w] \in Deciding
      BY <2>4 DEF AuditIncident, Deciding, Auditing
    <3>2. e.job = wjob[w] /\ e.number = went[w].attemptCount /\ e.action = "incident.created"
      BY <2>4 DEF Entry
    <3>3. went[w].status = "failed" /\ Attempt(wjob[w], went[w].attemptCount, "failed") \in attempts'
      BY <1>4, <3>1
    <3>4. IncidentRow(w) \in incidents
      BY <1>0, <3>1, <3>3 DEF RecordInv, Recorded
    <3> QED
      BY <1>3, <3>2, <3>3, <3>4 DEF EntryTrue, Failed, IncidentRow
  <2>5. CASE e.action \in {"job.created", "job.retried", "job.processing"}
    BY <2>5 DEF EntryTrue
  <2>6. ASSUME NEW r \in Requests, e = Entry(rkind[r], rjob[r], rent[r].attemptCount)
        PROVE  EntryTrue(e)'
    BY <1>0, <2>5, <2>6 DEF TypeOK, Entry
  <2> QED
    BY <2>1, <2>2, <2>3, <2>4, <2>5, <2>6, EntryOrigins
<1>6. ASSUME NEW n \in notifications' PROVE NoticeTrue(n)'
  <2>1. CASE n \in notifications
    BY <1>2, <2>1 DEF TruthInv, RecordsTruthful, NoticeTrue
  <2>2. ASSUME NEW w \in Workers, NotifyOutcome(w),
               n = Entry(went[w].status, wjob[w], went[w].attemptCount)
        PROVE  NoticeTrue(n)'
    <3>1. wpc[w] \in Deciding
      BY <2>2 DEF NotifyOutcome, Deciding
    <3> QED
      BY <1>4, <2>2, <3>1 DEF NoticeTrue, Succeeded, Failed, Entry
  <2>3. CASE n.action = "queued"
    BY <2>3 DEF NoticeTrue
  <2> QED
    BY <2>1, <2>2, <2>3, NoticeOrigins
<1>7. ASSUME NEW a \in alerts' PROVE Failed(a.job, a.number)'
  <2>1. CASE a \in alerts
    BY <1>2, <2>1 DEF TruthInv, RecordsTruthful
  <2>2. ASSUME NEW w \in Workers, RaiseAlert(w), a = AlertRow(w) PROVE Failed(a.job, a.number)'
    <3>1. wpc[w] = "alert" /\ wpc[w] \in Deciding
      BY <2>2 DEF RaiseAlert, Deciding
    <3> QED
      BY <1>4, <2>2, <3>1 DEF Failed, AlertRow
  <2> QED
    BY <2>1, <2>2, NoticeOrigins
<1>8. ASSUME NEW i \in incidents'
      PROVE  /\ Failed(i.job, i.number)'
             /\ [job |-> i.job, number |-> i.number, severity |-> "critical"] \in alerts'
  <2>1. CASE i \in incidents
    BY <1>2, <1>3, <2>1 DEF TruthInv, RecordsTruthful
  <2>2. ASSUME NEW w \in Workers, OpenIncident(w), i = IncidentRow(w)
        PROVE  /\ Failed(i.job, i.number)'
               /\ [job |-> i.job, number |-> i.number, severity |-> "critical"] \in alerts'
    <3>1. wpc[w] = "incident" /\ wpc[w] \in Deciding \ {"alert"}
      BY <2>2 DEF OpenIncident, Deciding
    <3>2. went[w].status = "failed" /\ Attempt(wjob[w], went[w].attemptCount, "failed") \in attempts'
      BY <1>4, <3>1
    <3>3. Exhausted(went[w]) /\ AlertRow(w) \in alerts
      BY <1>0, <3>1, <3>2 DEF RecordInv, Recorded
    <3>4. AlertRow(w) = [job |-> i.job, number |-> i.number, severity |-> "critical"]
      BY <2>2, <3>3 DEF AlertRow, IncidentRow, Severity
    <3> QED
      BY <1>3, <2>2, <3>2, <3>3, <3>4 DEF Failed, IncidentRow
  <2> QED
    BY <2>1, <2>2, NoticeOrigins
<1> QED
  BY <1>1, <1>5, <1>6, <1>7, <1>8 DEF TruthInv, RecordsTruthful

\* What is on record is so, whatever was broken off.
THEOREM RecordsAreTruthful == Spec => []RecordsTruthful
<1>1. TruthInv => RecordsTruthful
  BY DEF TruthInv
<1> QED
  BY <1>1, TruthInit, TruthStep, PTL DEF Spec

\* Somebody was told that attempt n of job j succeeded, or that it failed.
ToldOfSuccess(j, n) ==
    \/ Entry("job.completed", j, n) \in audit
    \/ Entry("completed", j, n) \in notifications
    \/ Event("job.completed", j, n) \in events
ToldOfFailure(j, n) ==
    \/ \E action \in {"job.failed", "alert.raised", "incident.created"} : Entry(action, j, n) \in audit
    \/ Entry("failed", j, n) \in notifications
    \/ Event("job.failed", j, n) \in events
    \/ \E a \in alerts : a.job = j /\ a.number = n
    \/ [job |-> j, number |-> n] \in incidents

\* No two tables and no event contradict each other about an attempt, not even
\* those of two handlers that ran the same job side by side
\* (job-processor.service.ts:118-283).
OneStory == \A j \in Jobs, n \in Nat : ~(ToldOfSuccess(j, n) /\ ToldOfFailure(j, n))

\* The unique index turns truth into agreement.
THEOREM StoriesAgree == Spec => []OneStory
<1>1. TruthInv /\ Unique => OneStory
  <2> SUFFICES ASSUME TruthInv, Unique, NEW j \in Jobs, NEW n \in Nat,
                      ToldOfSuccess(j, n), ToldOfFailure(j, n)
               PROVE  FALSE
    BY DEF OneStory
  <2>1. Succeeded(j, n)
    BY DEF ToldOfSuccess, TruthInv, RecordInv, RecordsTruthful, EntryTrue, NoticeTrue, Succeeded,
           EventsFollowCommits, Entry, Event
  <2>2. Failed(j, n)
    BY DEF ToldOfFailure, TruthInv, RecordInv, RecordsTruthful, EntryTrue, NoticeTrue, Failed,
           EventsFollowCommits, Entry, Event
  <2> QED
    BY <2>1, <2>2 DEF Unique, Succeeded, Failed, Attempt
<1>2. Init => Unique
  BY DEF Init, Unique
<1> QED
  BY <1>1, <1>2, TruthInit, TruthStep, UniqueStep, PTL DEF Spec
=============================================================================
