----------------------------- MODULE JobPipeline -----------------------------
(***************************************************************************)
(* The life of a job across the API (JobService), the durable queue        *)
(* jobs.processing (RabbitMqService), the per-job Redis lock               *)
(* (RedisLockService) and the workers (JobProcessorService).               *)
(*                                                                         *)
(* Every await of the code is a point where other processes run, so every  *)
(* stretch of code between two awaits that matter is one action.  A worker *)
(* stands for one delivery slot: RabbitMQ hands a consumer up to ten       *)
(* unacknowledged messages and their handlers interleave at every await,   *)
(* in one process or in several.                                           *)
(***************************************************************************)
EXTENDS Naturals, FiniteSets

CONSTANTS
    Jobs,           \* ids of the jobs that may be created
    Workers,        \* delivery slots of the processing service
    Requests,       \* POST requests of the API; each is issued once
    Payloads,       \* what job payloads say about failing
    AttemptLimits,  \* the values CreateJobDto accepts as maxAttempts
    None,           \* null
    FaultKinds,     \* which faults happen, of the kinds of FaultsAssumption
    MaxFaults,      \* bound on the number of faults of one behaviour
    SlowHolders     \* TRUE: a handler may outlive the 60 s of its lock

ASSUME LimitsAssumption == AttemptLimits \subseteq Nat \ {0}
ASSUME PayloadsAssumption == Payloads \subseteq [failTimes : Nat, shouldFail : BOOLEAN]
ASSUME WorkersAssumption == IsFiniteSet(Workers)
ASSUME FlagsAssumption == SlowHolders \in BOOLEAN
ASSUME FaultsAssumption ==
    /\ FaultKinds \subseteq {"crash", "error", "abort", "resend", "detach", "lost"}
    /\ MaxFaults \in Nat

VARIABLES
    \* PostgreSQL
    jobs,       \* jobs[j]: the row of job j, or None
    attempts,   \* processing_attempts rows; (job, number) is unique
    alerts,     \* alerts the workers raised, by the attempt that failed
    incidents,  \* incidents they opened, by the same key
    audit,      \* audit_entries
    notifications, \* notifications: what happened to which job at which attempt count
    \* RabbitMQ and Redis
    events,     \* lifecycle events handed to the channel for the ops.events exchange
    queue,      \* queue[j]: messages for job j waiting in jobs.processing
    lock,       \* lock[j]: job-processing-lock:j exists
    \* delivery slots
    wpc,        \* where the handler of a slot is
    wjob,       \* the job its message names
    went,       \* its in-memory JobEntity
    wdiff,      \* the columns its save() is going to update
    wack,       \* FALSE once the handler threw: the message will be nacked
    wlink,      \* the slot's AMQP channel: open, closed, or its consumer cancelled
    \* API requests
    rpc,        \* where a request is
    rjob,       \* the job it is about
    rent,       \* its in-memory JobEntity
    rdiff,      \* the columns its save() is going to update
    rkind,      \* the audit action it records
    alink,      \* the AMQP channel of the API is open
    \* bookkeeping of the model
    dropped,    \* jobs of which a message or an enqueue was given up, or a message lost
    cut,        \* executions that were broken off after their attempt was inserted
    disturbed,  \* jobs with a message redelivered, or a retry read during another's
    faults      \* faults so far

storeVars   == <<jobs, attempts, alerts, incidents, audit, notifications>>
workerVars  == <<wpc, wjob, went, wdiff, wack, wlink>>
requestVars == <<rpc, rjob, rent, rdiff, rkind, alink>>
history     == <<dropped, cut, disturbed, faults>>
vars == <<storeVars, events, queue, lock, workerVars, requestVars, history>>

Status == {"queued", "processing", "completed", "failed"}

\* JobEntity, as far as the pipeline reads it.
Row == [status : Status, attemptCount : Nat, maxAttempts : AttemptLimits, payload : Payloads]

\* Its columns that JobLifecycle speaks of.
LifecycleColumns == [status : Status, attemptCount : Nat, maxAttempts : AttemptLimits]

\* The columns in which a save of this pipeline may differ from the row it finds.
Columns == {"status", "attemptCount"}

ASSUME NoneAssumption == None \notin Jobs /\ None \notin Row /\ None \notin LifecycleColumns

\* The audit entries of a decided execution.
Auditing == {"auditjob", "auditalert", "auditincident"}

\* The handler inserted its processing_attempts row and is not through with it.
Owning == {"run", "selectcompleted", "selectfailed", "savecompleted", "savefailed", "alert",
           "incident", "notify", "publish"} \cup Auditing

\* The handler holds the lock (or believes so): from the answer to SET NX to
\* the DEL of its finally block.
InTry   == {"load", "start", "claim", "announce", "auditstart", "attempt"} \cup Owning
Holding == InTry \cup {"release"}

\* The outcome is saved; alert, incident, notification and appends follow.
Deciding == {"alert", "incident", "notify", "publish"} \cup Auditing

\* Steps that publish on the channel of the slot.
Publishing == {"announce", "publish"}

\* Audit actions, routing keys and notifications of this pipeline.
Actions == {"job.created", "job.retried", "job.processing", "job.completed", "job.failed",
            "alert.raised", "incident.created"}
Topics  == {"job.created", "job.processing", "job.completed", "job.failed",
            "alert.raised", "incident.updated", "notification.created"}
Notices == {"queued", "completed", "failed"}

WorkerPC == {"idle", "lock", "settle"} \cup Holding

\* A request that saved its row and did not send the message yet.
BeforeEnqueue == {"record", "notify", "enqueue"}
\* A retry that read the row and did not save it yet.
BeforeSave == {"select", "save"}
RequestPC == {"idle", "select", "save", "record", "notify", "enqueue", "emit", "done"}

Init ==
    /\ jobs = [j \in Jobs |-> None]
    /\ attempts = {} /\ alerts = {} /\ incidents = {} /\ audit = {}
    /\ notifications = {} /\ events = {}
    /\ queue = [j \in Jobs |-> 0]
    /\ lock = [j \in Jobs |-> FALSE]
    /\ wpc = [w \in Workers |-> "idle"]
    /\ wjob = [w \in Workers |-> None]
    /\ went = [w \in Workers |-> None]
    /\ wdiff = [w \in Workers |-> {}]
    /\ wack = [w \in Workers |-> TRUE]
    /\ wlink = [w \in Workers |-> "open"]
    /\ rpc = [r \in Requests |-> "idle"]
    /\ rjob = [r \in Requests |-> None]
    /\ rent = [r \in Requests |-> None]
    /\ rdiff = [r \in Requests |-> {}]
    /\ rkind = [r \in Requests |-> "job.created"]
    /\ alink = TRUE
    /\ dropped = {} /\ cut = {} /\ disturbed = {}
    /\ faults = 0

-----------------------------------------------------------------------------
(* JobProcessorService.process, one delivery at a time *)

Goto(w, pc) == wpc' = [wpc EXCEPT ![w] = pc]

\* Untouched by the handler between taking the lock and releasing it.
handling == <<wjob, wack, wlink, queue, lock, requestVars, history>>

\* Mutant of Deliver: the consumer does not read jobId from the message.
DeliverWithoutJobId(w, j) ==
    /\ wpc[w] = "idle"
    /\ wlink[w] = "open"
    /\ queue[j] > 0
    /\ queue' = [queue EXCEPT ![j] = @ - 1]
    /\ Goto(w, "lock")
    /\ UNCHANGED <<storeVars, events, lock, wjob, went, wdiff, wack, wlink, requestVars, history>>

\* The broker pushes a message to a slot; it stays unacknowledged meanwhile.
Deliver(w, j) ==
    /\ wpc[w] = "idle"
    /\ wlink[w] = "open"
    /\ queue[j] > 0
    /\ queue' = [queue EXCEPT ![j] = @ - 1]
    /\ wjob' = [wjob EXCEPT ![w] = j]
    /\ Goto(w, "lock")
    /\ UNCHANGED <<storeVars, events, lock, went, wdiff, wack, wlink, requestVars, history>>

\* Mutant of AcquireLock: SET without NX.
AcquireLockWithoutNX(w) ==
    /\ wpc[w] = "lock"
    /\ lock' = [lock EXCEPT ![wjob[w]] = TRUE]
    /\ Goto(w, "load")
    /\ UNCHANGED <<storeVars, events, queue, wjob, went, wdiff, wack, wlink, requestVars, history>>

\* SET key '1' EX 60 NX answers OK.
AcquireLock(w) ==
    /\ wpc[w] = "lock"
    /\ ~lock[wjob[w]]
    /\ lock' = [lock EXCEPT ![wjob[w]] = TRUE]
    /\ Goto(w, "load")
    /\ UNCHANGED <<storeVars, events, queue, wjob, went, wdiff, wack, wlink, requestVars, history>>

\* The key exists: process() returns normally, so the message will be
\* acknowledged although nothing was done for it.
LockBusy(w) ==
    /\ wpc[w] = "lock"
    /\ lock[wjob[w]]
    /\ dropped' = dropped \cup {wjob[w]}
    /\ Goto(w, "settle")
    /\ UNCHANGED <<storeVars, events, queue, lock, wjob, went, wdiff, wack, wlink, requestVars,
                   cut, disturbed, faults>>

\* findOne.  The row exists: a message is sent only after its job's row was
\* saved, and no code deletes jobs, so the early return for !job never runs.
LoadJob(w) ==
    /\ wpc[w] = "load"
    /\ jobs[wjob[w]] # None
    /\ went' = [went EXCEPT ![w] = jobs[wjob[w]]]
    /\ Goto(w, "start")
    /\ UNCHANGED <<storeVars, events, wdiff, handling>>

\* TypeORM's save(entity) is two statements: a SELECT of the row by its id, and
\* an UPDATE of the columns in which the entity differed from that row.  The row
\* may change in between; columns that did not differ keep what they then hold.
Diff(entity, row) == {c \in Columns : entity[c] # row[c]}
Updated(row, entity, columns) ==
    [c \in DOMAIN row |-> IF c \in columns THEN entity[c] ELSE row[c]]

SelectEntity(w, entity) ==
    /\ went' = [went EXCEPT ![w] = entity]
    /\ wdiff' = [wdiff EXCEPT ![w] = Diff(entity, jobs[wjob[w]])]

SaveEntity(w) ==
    /\ jobs' = [jobs EXCEPT ![wjob[w]] = Updated(@, went[w], wdiff[w])]
    /\ wdiff' = [wdiff EXCEPT ![w] = {}]

\* No look at job.status: whatever the row says, the job starts an attempt.
SelectProcessing(w) ==
    /\ wpc[w] = "start"
    /\ SelectEntity(w, [went[w] EXCEPT !.status = "processing", !.attemptCount = @ + 1])
    /\ Goto(w, "claim")
    /\ UNCHANGED <<storeVars, events, handling>>

SaveProcessing(w) ==
    /\ wpc[w] = "claim"
    /\ SaveEntity(w)
    /\ Goto(w, "announce")
    /\ UNCHANGED <<attempts, alerts, incidents, audit, notifications, events, went, handling>>

Event(topic, j, n) == [topic |-> topic, job |-> j, number |-> n]
Entry(action, j, n) == [action |-> action, job |-> j, number |-> n]

\* publish() throws on a channel that is closed, see PublishRefused.
AnnounceProcessing(w) ==
    /\ wpc[w] = "announce"
    /\ wlink[w] # "closed"
    /\ events' = events \cup {Event("job.processing", wjob[w], went[w].attemptCount)}
    /\ Goto(w, "auditstart")
    /\ UNCHANGED <<storeVars, went, wdiff, handling>>

AuditProcessing(w) ==
    /\ wpc[w] = "auditstart"
    /\ audit' = audit \cup {Entry("job.processing", wjob[w], went[w].attemptCount)}
    /\ Goto(w, "attempt")
    /\ UNCHANGED <<jobs, attempts, alerts, incidents, notifications, events, went, wdiff, handling>>

Attempt(j, n, status) == [job |-> j, number |-> n, status |-> status]

\* The row (j, n) of processing_attempts, whatever its status.
AttemptRows(j, n) == {a \in attempts : a.job = j /\ a.number = n}

\* Mutant of InsertAttempt: no unique index.
InsertAttemptUnindexed(w) ==
    /\ wpc[w] = "attempt"
    /\ attempts' = attempts \cup {Attempt(wjob[w], went[w].attemptCount, "started")}
    /\ Goto(w, "run")
    /\ UNCHANGED <<jobs, alerts, incidents, audit, notifications, events, went, wdiff, handling>>

\* Mutant of InsertAttempt: an upsert, which starts the attempt anew.
InsertAttemptReplacing(w) ==
    LET n == went[w].attemptCount IN
    /\ wpc[w] = "attempt"
    /\ attempts' = (attempts \ AttemptRows(wjob[w], n)) \cup {Attempt(wjob[w], n, "started")}
    /\ Goto(w, "run")
    /\ UNCHANGED <<jobs, alerts, incidents, audit, notifications, events, went, wdiff, handling>>

InsertAttempt(w) ==
    LET n == went[w].attemptCount IN
    /\ wpc[w] = "attempt"
    /\ AttemptRows(wjob[w], n) = {}
    /\ attempts' = attempts \cup {Attempt(wjob[w], n, "started")}
    /\ Goto(w, "run")
    /\ UNCHANGED <<jobs, alerts, incidents, audit, notifications, events, went, wdiff, handling>>

\* The unique constraint on (jobId, attemptNumber) refuses the insert; the
\* exception leaves through the finally block.
AttemptConflict(w) ==
    /\ wpc[w] = "attempt"
    /\ AttemptRows(wjob[w], went[w].attemptCount) # {}
    /\ wack' = [wack EXCEPT ![w] = FALSE]
    /\ Goto(w, "release")
    /\ UNCHANGED <<storeVars, events, wjob, went, wdiff, wlink, queue, lock, requestVars, history>>

Fails(payload, n) == payload.shouldFail \/ n <= payload.failTimes

\* Mutant of FinishAttempt: the update names the job, not the attempt.
FinishAttemptsOfJob(w, failed) ==
    LET status == IF failed THEN "failed" ELSE "succeeded" IN
    /\ wpc[w] = "run"
    /\ failed = Fails(went[w].payload, went[w].attemptCount)
    /\ attempts' = {IF a.job = wjob[w] THEN [a EXCEPT !.status = status] ELSE a : a \in attempts}
    /\ Goto(w, IF failed THEN "selectfailed" ELSE "selectcompleted")
    /\ UNCHANGED <<jobs, alerts, incidents, audit, notifications, events, went, wdiff, handling>>

\* Mutant of FinishAttempt: the attempt row is changed in memory and not saved.
FinishAttemptUnsaved(w, failed) ==
    /\ wpc[w] = "run"
    /\ failed = Fails(went[w].payload, went[w].attemptCount)
    /\ Goto(w, IF failed THEN "selectfailed" ELSE "selectcompleted")
    /\ UNCHANGED <<storeVars, events, went, wdiff, handling>>

\* evaluateFailure picks the branch; the attempt row gets its final status.  One
\* action: nobody but the handler that inserted the row ever updates it.
FinishAttempt(w, failed) ==
    LET n == went[w].attemptCount
        status == IF failed THEN "failed" ELSE "succeeded"
    IN
    /\ wpc[w] = "run"
    /\ failed = Fails(went[w].payload, n)
    /\ attempts' = (attempts \ AttemptRows(wjob[w], n)) \cup {Attempt(wjob[w], n, status)}
    /\ Goto(w, IF failed THEN "selectfailed" ELSE "selectcompleted")
    /\ UNCHANGED <<jobs, alerts, incidents, audit, notifications, events, went, wdiff, handling>>

SelectCompleted(w) ==
    /\ wpc[w] = "selectcompleted"
    /\ SelectEntity(w, [went[w] EXCEPT !.status = "completed"])
    /\ Goto(w, "savecompleted")
    /\ UNCHANGED <<storeVars, events, handling>>

SelectFailed(w) ==
    /\ wpc[w] = "selectfailed"
    /\ SelectEntity(w, [went[w] EXCEPT !.status = "failed"])
    /\ Goto(w, "savefailed")
    /\ UNCHANGED <<storeVars, events, handling>>

SaveCompleted(w) ==
    /\ wpc[w] = "savecompleted"
    /\ SaveEntity(w)
    /\ Goto(w, "notify")
    /\ UNCHANGED <<attempts, alerts, incidents, audit, notifications, events, went, handling>>

SaveFailed(w) ==
    /\ wpc[w] = "savefailed"
    /\ SaveEntity(w)
    /\ Goto(w, "alert")
    /\ UNCHANGED <<attempts, alerts, incidents, audit, notifications, events, went, handling>>

\* The failure was the last one allowed.
Exhausted(row) == row.attemptCount >= row.maxAttempts

Severity(row) == IF Exhausted(row) THEN "critical" ELSE "high"

\* Mutant of RaiseAlert: an incident only beyond maxAttempts.
RaiseAlertBeyondLimit(w) ==
    /\ wpc[w] = "alert"
    /\ alerts' = alerts \cup {[job |-> wjob[w], number |-> went[w].attemptCount,
                               severity |-> Severity(went[w])]}
    /\ Goto(w, IF went[w].attemptCount > went[w].maxAttempts THEN "incident" ELSE "notify")
    /\ UNCHANGED <<jobs, attempts, incidents, audit, notifications, events, went, wdiff, handling>>

RaiseAlert(w) ==
    /\ wpc[w] = "alert"
    /\ alerts' = alerts \cup {[job |-> wjob[w], number |-> went[w].attemptCount,
                               severity |-> Severity(went[w])]}
    /\ Goto(w, IF Exhausted(went[w]) THEN "incident" ELSE "notify")
    /\ UNCHANGED <<jobs, attempts, incidents, audit, notifications, events, went, wdiff, handling>>

OpenIncident(w) ==
    /\ wpc[w] = "incident"
    /\ incidents' = incidents \cup {[job |-> wjob[w], number |-> went[w].attemptCount]}
    /\ Goto(w, "notify")
    /\ UNCHANGED <<jobs, attempts, alerts, audit, notifications, events, went, wdiff, handling>>

\* Mutant of NotifyOutcome: the audit entries are left to somebody else.
NotifyOutcomeUnaudited(w) ==
    /\ wpc[w] = "notify"
    /\ notifications' = notifications \cup {Entry(went[w].status, wjob[w], went[w].attemptCount)}
    /\ Goto(w, "publish")
    /\ UNCHANGED <<jobs, attempts, alerts, incidents, audit, events, went, wdiff, handling>>

NotifyOutcome(w) ==
    /\ wpc[w] = "notify"
    /\ notifications' = notifications \cup {Entry(went[w].status, wjob[w], went[w].attemptCount)}
    /\ Goto(w, "auditjob")
    /\ UNCHANGED <<jobs, attempts, alerts, incidents, audit, events, went, wdiff, handling>>

\* "job.completed" or "job.failed": the audit action and the topic of an outcome.
OutcomeName(row) == IF row.status = "completed" THEN "job.completed" ELSE "job.failed"

AuditOutcome(w) ==
    /\ wpc[w] = "auditjob"
    /\ audit' = audit \cup {Entry(OutcomeName(went[w]), wjob[w], went[w].attemptCount)}
    /\ Goto(w, IF went[w].status = "failed" THEN "auditalert" ELSE "publish")
    /\ UNCHANGED <<jobs, attempts, alerts, incidents, notifications, events, went, wdiff, handling>>

AuditAlert(w) ==
    /\ wpc[w] = "auditalert"
    /\ audit' = audit \cup {Entry("alert.raised", wjob[w], went[w].attemptCount)}
    /\ Goto(w, IF Exhausted(went[w]) THEN "auditincident" ELSE "publish")
    /\ UNCHANGED <<jobs, attempts, alerts, incidents, notifications, events, went, wdiff, handling>>

AuditIncident(w) ==
    /\ wpc[w] = "auditincident"
    /\ audit' = audit \cup {Entry("incident.created", wjob[w], went[w].attemptCount)}
    /\ Goto(w, "publish")
    /\ UNCHANGED <<jobs, attempts, alerts, incidents, notifications, events, went, wdiff, handling>>

\* The topics of an outcome, in order of no consequence: publish() only writes
\* to the channel, no answer is awaited between one and the next.
OutcomeTopics(row) ==
    {OutcomeName(row), "notification.created"}
    \cup (IF row.status = "failed" THEN {"alert.raised"} ELSE {})
    \cup (IF row.status = "failed" /\ Exhausted(row) THEN {"incident.updated"} ELSE {})

\* Mutant of PublishOutcome: the events may go out before the audit entries.
PublishOutcomeEarly(w) ==
    /\ wpc[w] \in Auditing \cup {"publish"}
    /\ wlink[w] # "closed"
    /\ events' = events \cup {Event(t, wjob[w], went[w].attemptCount) : t \in OutcomeTopics(went[w])}
    /\ Goto(w, "release")
    /\ UNCHANGED <<storeVars, went, wdiff, handling>>

PublishOutcome(w) ==
    /\ wpc[w] = "publish"
    /\ wlink[w] # "closed"
    /\ events' = events \cup {Event(t, wjob[w], went[w].attemptCount) : t \in OutcomeTopics(went[w])}
    /\ Goto(w, "release")
    /\ UNCHANGED <<storeVars, went, wdiff, handling>>

\* The execution ends here; if it was under way, its attempt stays as it is.
BreakOff(w) ==
    cut' = IF wpc[w] \in Owning
           THEN cut \cup {[job |-> wjob[w], number |-> went[w].attemptCount]} ELSE cut

\* An await of the try block rejects: finally runs, the message will be nacked.
Throw(w) ==
    /\ BreakOff(w)
    /\ wack' = [wack EXCEPT ![w] = FALSE]
    /\ Goto(w, "release")

PublishRefused(w) ==
    /\ wpc[w] \in Publishing
    /\ wlink[w] = "closed"
    /\ Throw(w)
    /\ UNCHANGED <<storeVars, events, queue, lock, wjob, went, wdiff, wlink, requestVars,
                   dropped, disturbed, faults>>

\* finally: DEL the key, whoever set it last.
Release(w) ==
    /\ wpc[w] = "release"
    /\ lock' = [lock EXCEPT ![wjob[w]] = FALSE]
    /\ Goto(w, "settle")
    /\ UNCHANGED <<storeVars, events, queue, wjob, went, wdiff, wack, wlink, requestVars, history>>

\* The slot is free again.
Vacate(w) ==
    /\ Goto(w, "idle")
    /\ wjob' = [wjob EXCEPT ![w] = None]
    /\ went' = [went EXCEPT ![w] = None]
    /\ wdiff' = [wdiff EXCEPT ![w] = {}]
    /\ wack' = [wack EXCEPT ![w] = TRUE]

\* ack, or nack without requeue: there is no dead-letter exchange, the message
\* is gone either way.  On a closed channel both throw, the second one out of
\* the callback: an unhandled rejection, which ends the process; the slot is
\* that of the process restarted in its place, see EndsWith for its other slots.
Settle(w) ==
    /\ wpc[w] = "settle"
    /\ dropped' = IF wack[w] THEN dropped ELSE dropped \cup {wjob[w]}
    /\ wlink' = [wlink EXCEPT ![w] = IF @ = "closed" THEN "open" ELSE @]
    /\ Vacate(w)
    /\ UNCHANGED <<storeVars, events, queue, lock, requestVars, cut, disturbed, faults>>

\* The unhandled rejection of a Settle in the same process ends slot w as well:
\* its handler is broken off, its lock stays, and its message went back to the
\* queue when the channel was closed.  Slots of one process end one by one, the
\* one that settles last.
EndsWith(w) ==
    /\ \E u \in Workers \ {w} : wpc[u] = "settle" /\ wlink[u] = "closed"
    /\ wlink[w] = "closed"
    /\ dropped' = IF wpc[w] = "idle" THEN dropped ELSE dropped \cup {wjob[w]}
    /\ BreakOff(w)
    /\ wlink' = [wlink EXCEPT ![w] = "open"]
    /\ Vacate(w)
    /\ UNCHANGED <<storeVars, events, queue, lock, requestVars, disturbed, faults>>

WorkerStep(w) ==
    \/ AcquireLock(w) \/ LockBusy(w) \/ LoadJob(w) \/ SelectProcessing(w) \/ SaveProcessing(w)
    \/ AnnounceProcessing(w) \/ AuditProcessing(w) \/ InsertAttempt(w) \/ AttemptConflict(w)
    \/ \E failed \in BOOLEAN : FinishAttempt(w, failed)
    \/ SelectCompleted(w) \/ SelectFailed(w) \/ SaveCompleted(w) \/ SaveFailed(w)
    \/ RaiseAlert(w) \/ OpenIncident(w)
    \/ NotifyOutcome(w) \/ AuditOutcome(w) \/ AuditAlert(w) \/ AuditIncident(w)
    \/ PublishOutcome(w) \/ PublishRefused(w)
    \/ Release(w) \/ Settle(w)

-----------------------------------------------------------------------------
(* JobService.create and JobService.retry *)

\* Untouched by a request once its row is saved.
serving == <<jobs, attempts, alerts, incidents, lock, workerVars, rjob, rent, rdiff, rkind, alink,
             history>>

Create(r, j) ==
    /\ rpc[r] = "idle"
    /\ jobs[j] = None
    /\ \E p \in Payloads, m \in AttemptLimits :
         LET row == [status |-> "queued", attemptCount |-> 0, maxAttempts |-> m, payload |-> p]
         IN /\ jobs' = [jobs EXCEPT ![j] = row]
            /\ rent' = [rent EXCEPT ![r] = row]
    /\ rjob' = [rjob EXCEPT ![r] = j]
    /\ rkind' = [rkind EXCEPT ![r] = "job.created"]
    /\ rpc' = [rpc EXCEPT ![r] = "record"]
    /\ UNCHANGED <<attempts, alerts, incidents, audit, notifications, events, queue, lock,
                   workerVars, rdiff, alink, history>>

\* Mutants of Retryable: no look at the status; one attempt too many.
RetryableAnyStatus(row) == row.attemptCount < row.maxAttempts
RetryableOneMore(row) == row.status = "failed" /\ row.attemptCount <= row.maxAttempts

\* The two guards of retry, on the row as it was read.
Retryable(row) == row.status = "failed" /\ row.attemptCount < row.maxAttempts

\* getById, the guards and the assignments.  The row may change before it is
\* saved again; that another retry read it and has not saved it yet is written
\* down.
RetryLoad(r, j) ==
    /\ rpc[r] = "idle"
    /\ jobs[j] # None
    /\ Retryable(jobs[j])
    /\ rjob' = [rjob EXCEPT ![r] = j]
    /\ rent' = [rent EXCEPT ![r] = [jobs[j] EXCEPT !.status = "queued"]]
    /\ rkind' = [rkind EXCEPT ![r] = "job.retried"]
    /\ rpc' = [rpc EXCEPT ![r] = "select"]
    /\ disturbed' = IF \E q \in Requests : rpc[q] \in BeforeSave /\ rjob[q] = j
                    THEN disturbed \cup {j} ELSE disturbed
    /\ UNCHANGED <<storeVars, events, queue, lock, workerVars, rdiff, alink, dropped, cut, faults>>

\* NotFoundException or BadRequestException; nothing was written.
RetryReject(r, j) ==
    /\ rpc[r] = "idle"
    /\ ~(jobs[j] # None /\ Retryable(jobs[j]))
    /\ rpc' = [rpc EXCEPT ![r] = "done"]
    /\ UNCHANGED <<storeVars, events, queue, lock, workerVars, rjob, rent, rdiff, rkind, alink,
                   history>>

\* The SELECT of save(job).
RetrySelect(r) ==
    /\ rpc[r] = "select"
    /\ rdiff' = [rdiff EXCEPT ![r] = Diff(rent[r], jobs[rjob[r]])]
    /\ rpc' = [rpc EXCEPT ![r] = "save"]
    /\ UNCHANGED <<storeVars, events, queue, lock, workerVars, rjob, rent, rkind, alink, history>>

\* Its UPDATE, attemptCount included when the row moved on since it was read.
RetrySave(r) ==
    /\ rpc[r] = "save"
    /\ jobs' = [jobs EXCEPT ![rjob[r]] = Updated(@, rent[r], rdiff[r])]
    /\ rdiff' = [rdiff EXCEPT ![r] = {}]
    /\ rpc' = [rpc EXCEPT ![r] = "record"]
    /\ UNCHANGED <<attempts, alerts, incidents, audit, notifications, events, queue, lock,
                   workerVars, rjob, rent, rkind, alink, history>>

\* Mutant of RecordCommand: the audit entry is not awaited.
RecordCommandUnawaited(r) ==
    /\ rpc[r] = "record"
    /\ audit' \in {audit, audit \cup {Entry(rkind[r], rjob[r], rent[r].attemptCount)}}
    /\ rpc' = [rpc EXCEPT ![r] = "notify"]
    /\ UNCHANGED <<notifications, events, queue, serving>>

\* The operator action, and the audit entry.
RecordCommand(r) ==
    /\ rpc[r] = "record"
    /\ audit' = audit \cup {Entry(rkind[r], rjob[r], rent[r].attemptCount)}
    /\ rpc' = [rpc EXCEPT ![r] = "notify"]
    /\ UNCHANGED <<notifications, events, queue, serving>>

NotifyQueued(r) ==
    /\ rpc[r] = "notify"
    /\ notifications' = notifications \cup {Entry("queued", rjob[r], rent[r].attemptCount)}
    /\ rpc' = [rpc EXCEPT ![r] = "enqueue"]
    /\ UNCHANGED <<audit, events, queue, serving>>

\* Mutant of Enqueue: the message does not reach the broker.
EnqueueUnsent(r) ==
    /\ rpc[r] = "enqueue"
    /\ alink
    /\ rpc' = [rpc EXCEPT ![r] = "emit"]
    /\ UNCHANGED <<audit, notifications, events, queue, serving>>

\* sendToQueue hands the message to the connection, which delivers it.
Enqueue(r) ==
    /\ rpc[r] = "enqueue"
    /\ alink
    /\ queue' = [queue EXCEPT ![rjob[r]] = @ + 1]
    /\ rpc' = [rpc EXCEPT ![r] = "emit"]
    /\ UNCHANGED <<audit, notifications, events, serving>>

\* The events go out after the work message; job.created for a retry as well.
Emit(r) ==
    /\ rpc[r] = "emit"
    /\ alink
    /\ events' = events \cup {Event(t, rjob[r], rent[r].attemptCount) :
                                t \in {"job.created", "notification.created"}}
    /\ rpc' = [rpc EXCEPT ![r] = "done"]
    /\ UNCHANGED <<audit, notifications, queue, serving>>

\* sendToQueue, or publish, throws on the closed channel: the operator reads
\* "internal error", and the process goes on like that.
SendRefused(r) ==
    /\ rpc[r] \in {"enqueue", "emit"}
    /\ ~alink
    /\ dropped' = IF rpc[r] = "enqueue" THEN dropped \cup {rjob[r]} ELSE dropped
    /\ rpc' = [rpc EXCEPT ![r] = "done"]
    /\ UNCHANGED <<storeVars, events, queue, lock, workerVars, rjob, rent, rdiff, rkind, alink,
                   cut, disturbed, faults>>

RequestStep(r) == RetrySelect(r) \/ RetrySave(r) \/ RecordCommand(r) \/ NotifyQueued(r)
                  \/ Enqueue(r) \/ Emit(r) \/ SendRefused(r)

-----------------------------------------------------------------------------
(* Faults and the passing of time *)

Fault(kind) ==
    /\ kind \in FaultKinds
    /\ faults < MaxFaults
    /\ faults' = faults + 1

\* sendToQueue returns before anything is written and there are no publisher
\* confirms: the connection, or the process, is lost with the message in a buffer,
\* and the command, which cannot know, goes on.
EnqueueLost(r) ==
    /\ Fault("lost")
    /\ rpc[r] = "enqueue"
    /\ alink
    /\ dropped' = dropped \cup {rjob[r]}
    /\ rpc' = [rpc EXCEPT ![r] = "emit"]
    /\ UNCHANGED <<storeVars, events, queue, lock, workerVars, rjob, rent, rdiff, rkind, alink,
                   cut, disturbed>>

\* The database, or another await of the try block, fails.
HandlerThrows(w) ==
    /\ Fault("error")
    /\ wpc[w] \in InTry
    /\ Throw(w)
    /\ UNCHANGED <<storeVars, events, queue, lock, wjob, went, wdiff, wlink, requestVars,
                   dropped, disturbed>>

\* SET or DEL rejects; Redis may have executed the command all the same.
RedisThrows(w) ==
    /\ Fault("error")
    /\ wpc[w] \in {"lock", "release"}
    /\ \E executed \in BOOLEAN :
         lock' = [lock EXCEPT ![wjob[w]] = IF executed THEN wpc[w] = "lock" ELSE @]
    /\ wack' = [wack EXCEPT ![w] = FALSE]
    /\ Goto(w, "settle")
    /\ UNCHANGED <<storeVars, events, queue, wjob, went, wdiff, wlink, requestVars,
                   dropped, cut, disturbed>>

\* The connection to Redis drops before the answer arrives and ioredis, whose
\* autoResendUnfulfilledCommands is on by default, sends the command again.
\* The second SET NX finds the key the first one set: a lock nobody holds.
SetResent(w) ==
    /\ Fault("resend")
    /\ wpc[w] = "lock"
    /\ ~lock[wjob[w]]
    /\ lock' = [lock EXCEPT ![wjob[w]] = TRUE]
    /\ dropped' = dropped \cup {wjob[w]}
    /\ Goto(w, "settle")
    /\ UNCHANGED <<storeVars, events, queue, wjob, went, wdiff, wack, wlink, requestVars,
                   cut, disturbed>>

\* A DEL took effect and is going to be executed a second time.
DelResent(w) ==
    /\ Fault("resend")
    /\ wpc[w] = "release"
    /\ lock' = [lock EXCEPT ![wjob[w]] = FALSE]
    /\ UNCHANGED <<storeVars, events, queue, workerVars, requestVars, dropped, cut, disturbed>>

\* Mutant of Redeliver: messages are acknowledged on delivery.
RedeliverNothing(w) ==
    /\ queue' = queue
    /\ disturbed' = disturbed \cup {wjob[w]}

\* The broker puts the unacknowledged message of a slot back into the queue.
Redeliver(w) ==
    /\ queue' = [queue EXCEPT ![wjob[w]] = @ + 1]
    /\ disturbed' = disturbed \cup {wjob[w]}

\* The process dies and is started again: its unacknowledged message returns to
\* the queue, unless the broker had closed the channel and done that before;
\* its lock stays in Redis until the TTL.
Crash(w) ==
    /\ Fault("crash")
    /\ wpc[w] # "idle"
    /\ IF wlink[w] = "closed"
       THEN dropped' = dropped \cup {wjob[w]} /\ UNCHANGED <<queue, disturbed>>
       ELSE Redeliver(w) /\ UNCHANGED dropped
    /\ BreakOff(w)
    /\ wlink' = [wlink EXCEPT ![w] = "open"]
    /\ Vacate(w)
    /\ UNCHANGED <<storeVars, events, lock, requestVars>>

\* Slots with a message the broker has no ack of.
Unacknowledged(j) == {w \in Workers : wjob[w] = j /\ wlink[w] # "closed"}

\* The broker shuts down in an orderly way, or restarts, and closes every
\* connection: amqplib reports "close", which nobody listens to, and not
\* "error".  Handlers do not notice before they use the channel, and a process
\* with nothing to do stays up and consumes nothing.
BrokerShutsDown ==
    /\ Fault("detach")
    /\ \E w \in Workers : wlink[w] # "closed"
    /\ wlink' = [w \in Workers |-> "closed"]
    /\ alink' = FALSE
    /\ queue' = [j \in Jobs |-> queue[j] + Cardinality(Unacknowledged(j))]
    /\ disturbed' = disturbed \cup {j \in Jobs : Unacknowledged(j) # {}}
    /\ UNCHANGED <<storeVars, events, lock, wpc, wjob, went, wdiff, wack, rpc, rjob, rent, rdiff,
                   rkind, dropped, cut>>

\* The broker cancels the consumer: the callback gets null and returns.
ConsumerCancelled(w) ==
    /\ Fault("detach")
    /\ wlink[w] = "open"
    /\ wlink' = [wlink EXCEPT ![w] = "cancelled"]
    /\ UNCHANGED <<storeVars, events, queue, lock, wpc, wjob, went, wdiff, wack, requestVars,
                   dropped, cut, disturbed>>

\* The API process dies, or an await of the request rejects: what was saved
\* stays, what was not sent never will be.
RequestAborts(r) ==
    /\ Fault("abort")
    /\ rpc[r] \notin {"idle", "done"}
    /\ dropped' = IF rpc[r] \in BeforeEnqueue THEN dropped \cup {rjob[r]} ELSE dropped
    /\ rpc' = [rpc EXCEPT ![r] = "done"]
    /\ rdiff' = [rdiff EXCEPT ![r] = {}]
    /\ UNCHANGED <<storeVars, events, queue, lock, workerVars, rjob, rent, rkind, alink,
                   cut, disturbed>>

HeldBy(w, j) == wjob[w] = j /\ wpc[w] \in Holding

\* Mutants of LockExpires: SET without EX; a TTL that cuts into executions.
LockNeverExpires(j) == FALSE
LockExpiresEarly(j) ==
    /\ lock[j]
    /\ lock' = [lock EXCEPT ![j] = FALSE]
    /\ UNCHANGED <<storeVars, events, queue, workerVars, requestVars, history>>

\* Redis drops the key 60 s after it was set.
LockExpires(j) ==
    /\ lock[j]
    /\ SlowHolders \/ \A w \in Workers : ~HeldBy(w, j)
    /\ lock' = [lock EXCEPT ![j] = FALSE]
    /\ UNCHANGED <<storeVars, events, queue, workerVars, requestVars, history>>

-----------------------------------------------------------------------------

\* No slot will ever take a message again.
Deaf == \A w \in Workers : wpc[w] = "idle" /\ wlink[w] # "open"

\* Every request was served and nothing is left to do, or nobody to do it.
Finished ==
    /\ \A r \in Requests : rpc[r] = "done"
    /\ \A w \in Workers : wpc[w] = "idle"
    /\ (\A j \in Jobs : queue[j] = 0) \/ Deaf
    /\ UNCHANGED vars

Next ==
    \/ \E w \in Workers : \/ \E j \in Jobs : Deliver(w, j)
                          \/ WorkerStep(w)
                          \/ HandlerThrows(w) \/ RedisThrows(w) \/ Crash(w)
                          \/ SetResent(w) \/ DelResent(w)
                          \/ EndsWith(w) \/ ConsumerCancelled(w)
    \/ \E r \in Requests : \/ \E j \in Jobs : Create(r, j) \/ RetryLoad(r, j) \/ RetryReject(r, j)
                           \/ RequestStep(r)
                           \/ RequestAborts(r) \/ EnqueueLost(r)
    \/ BrokerShutsDown
    \/ \E j \in Jobs : LockExpires(j)
    \/ Finished

Spec == Init /\ [][Next]_vars

\* The broker pushes waiting messages to a consumer that has room, a handler
\* or request that is running goes on, and Redis expires keys.  Nobody is
\* obliged to issue a request, and no fault is obliged to happen.
Fairness ==
    /\ WF_vars(\E w \in Workers, j \in Jobs : Deliver(w, j))
    /\ \A w \in Workers : WF_vars(WorkerStep(w))
    /\ \A r \in Requests : WF_vars(RequestStep(r))
    /\ \A j \in Jobs : WF_vars(LockExpires(j))

FairSpec == Spec /\ Fairness

-----------------------------------------------------------------------------
(* Properties *)

TypeOK ==
    /\ jobs \in [Jobs -> Row \cup {None}]
    /\ attempts \subseteq [job : Jobs, number : Nat, status : {"started", "succeeded", "failed"}]
    /\ alerts \subseteq [job : Jobs, number : Nat, severity : {"high", "critical"}]
    /\ incidents \subseteq [job : Jobs, number : Nat]
    /\ audit \subseteq [action : Actions, job : Jobs, number : Nat]
    /\ notifications \subseteq [action : Notices, job : Jobs, number : Nat]
    /\ events \subseteq [topic : Topics, job : Jobs, number : Nat]
    /\ queue \in [Jobs -> Nat]
    /\ lock \in [Jobs -> BOOLEAN]
    /\ wpc \in [Workers -> WorkerPC]
    /\ wjob \in [Workers -> Jobs \cup {None}]
    /\ went \in [Workers -> Row \cup {None}] /\ wdiff \in [Workers -> SUBSET Columns]
    /\ wack \in [Workers -> BOOLEAN]
    /\ wlink \in [Workers -> {"open", "closed", "cancelled"}]
    /\ \A w \in Workers : /\ wpc[w] # "idle" => wjob[w] # None
                          /\ wpc[w] \in InTry \ {"load"} => /\ went[w] # None
                                                          /\ jobs[wjob[w]] # None
                          /\ wpc[w] \in Deciding \cup {"savecompleted", "savefailed"} =>
                                went[w].status \in {"completed", "failed"}
    /\ rpc \in [Requests -> RequestPC]
    /\ rjob \in [Requests -> Jobs \cup {None}]
    /\ rent \in [Requests -> Row \cup {None}] /\ rdiff \in [Requests -> SUBSET Columns]
    /\ rkind \in [Requests -> {"job.created", "job.retried"}] /\ alink \in BOOLEAN
    /\ \A r \in Requests : rpc[r] \in RequestPC \ {"idle", "done"} =>
                              rjob[r] # None /\ rent[r] # None /\ jobs[rjob[r]] # None
    /\ dropped \subseteq Jobs /\ disturbed \subseteq Jobs
    /\ cut \subseteq [job : Jobs, number : Nat]
    /\ faults \in Nat

\* Two handlers never execute the same job at once, whichever deliveries,
\* crashes, exceptions and expiries come in between, as long as no handler
\* outlives its lock: the purpose of the per-job lock
\* (job-processor.service.ts:49-53, 112-114).
MutualExclusion ==
    \A v, w \in Workers : \A j \in Jobs : HeldBy(v, j) /\ HeldBy(w, j) => v = w

\* While a handler executes a job nobody else frees its lock: neither the TTL,
\* nor the finally block of another delivery, nor a failing Redis call
\* (redis-lock.service.ts:8-15).
HolderKeepsLock ==
    \A w \in Workers : \A j \in Jobs : HeldBy(w, j) => lock[j]

\* Someone is still going to decide job j: a message waits for a worker, a
\* handler is on its way to the final save or to its nack, or a request is
\* about to enqueue a message.
Undecided == {"lock", "load", "start", "claim", "announce", "auditstart", "attempt", "run",
              "selectcompleted", "selectfailed", "savecompleted", "savefailed"}

Backed(j) ==
    \/ queue[j] > 0
    \/ \E w \in Workers :
          /\ wjob[w] = j
          /\ \/ wpc[w] \in Undecided
             \/ wpc[w] \in {"release", "settle"} /\ ~wack[w]
    \/ \E r \in Requests : rjob[r] = j /\ rpc[r] \in BeforeEnqueue

Pending(row) == row.status \in {"queued", "processing"}

\* A row that says queued or processing is never left behind by a crash, a
\* redelivery or a stale save: unless the code gave up a message or an enqueue
\* of that job (busy lock, nack, aborted request), or the message never got to
\* the broker, somebody still works on it.  This is what acknowledging only after
\* the handler buys (rabbitmq.service.ts:73-79, job.service.ts:98, 238).
WorkConserved ==
    \A j \in Jobs : jobs[j] # None /\ Pending(jobs[j]) => Backed(j) \/ j \in dropped

\* Once the last attempt a job may make has failed, it has its incident, or that
\* is still coming, or the code gave up on the job, whatever stale saves have made
\* of the row's status: a crash between the decision of the attempt and the insert
\* of the incident does not lose the escalation, because the redelivered message
\* runs the job again (job-processor.service.ts:168-205).
EscalationConserved ==
    \A j \in Jobs :
        LET n == jobs[j].attemptCount IN
        jobs[j] # None /\ Exhausted(jobs[j]) /\ Attempt(j, n, "failed") \in attempts =>
            \/ [job |-> j, number |-> n] \in incidents
            \/ \E w \in Workers : /\ wjob[w] = j /\ wpc[w] \in {"alert", "incident"}
                                 /\ went[w].attemptCount = n
            \/ Backed(j)
            \/ j \in dropped

\* A decided row has an execution behind it: some attempt of the job came out the
\* way the row says.  It is the attempt the row counts unless a message of the job
\* was redelivered or two retries of it overlapped; then a late save may leave its
\* status next to the count of another execution, which came out differently
\* (job-processor.service.ts:118-128, 168-179).
RowsTruthful ==
    \A j \in Jobs : jobs[j] # None /\ jobs[j].status \in {"completed", "failed"} =>
        LET outcome == IF jobs[j].status = "completed" THEN "succeeded" ELSE "failed" IN
        /\ \E a \in attempts : a.job = j /\ a.status = outcome
        /\ j \notin disturbed => Attempt(j, jobs[j].attemptCount, outcome) \in attempts

\* No execution is silent: an attempt row exists only after the execution was
\* audited under its number and its job's creation was audited, although the
\* one is written by a worker and the other by the API
\* (job.service.ts:76-98, job-processor.service.ts:78-91).
ExecutionAudited ==
    \A a \in attempts :
        /\ Entry("job.processing", a.job, a.number) \in audit
        /\ \E e \in audit : e.action = "job.created" /\ e.job = a.job

\* A subscriber that reads the database after a lifecycle event finds what the
\* event announced, and its audit entry: the rows of an outcome are written
\* before its events are published, and nothing overwrites them
\* (job-processor.service.ts:118-160, 168-283).
EventsFollowCommits ==
    \A e \in events :
        /\ e.topic = "job.completed" =>
              /\ Attempt(e.job, e.number, "succeeded") \in attempts
              /\ Entry("job.completed", e.job, e.number) \in audit
        /\ e.topic = "job.failed" =>
              /\ Attempt(e.job, e.number, "failed") \in attempts
              /\ Entry("job.failed", e.job, e.number) \in audit
              /\ \E a \in alerts : a.job = e.job /\ a.number = e.number
        /\ e.topic = "notification.created" =>
              \E n \in notifications : n.job = e.job /\ n.number = e.number
        /\ e.topic = "incident.updated" =>
              /\ [job |-> e.job, number |-> e.number] \in incidents
              /\ [job |-> e.job, number |-> e.number, severity |-> "critical"] \in alerts

\* No outcome goes unrecorded: a decided attempt is audited and notified, or its
\* handler is about to, or the execution was broken off in between.  A handler
\* that another one overtakes still records its own (job-processor.service.ts:
\* 117-161, 168-253).
OutcomesOnRecord ==
    \A a \in attempts : a.status # "started" =>
        LET status == IF a.status = "failed" THEN "failed" ELSE "completed"
            action == IF a.status = "failed" THEN "job.failed" ELSE "job.completed"
        IN
        \/ /\ Entry(status, a.job, a.number) \in notifications
           /\ Entry(action, a.job, a.number) \in audit
        \/ \E w \in Workers : /\ wpc[w] \in {"selectcompleted", "selectfailed",
                                             "savecompleted", "savefailed", "alert", "incident",
                                             "notify", "auditjob"}
                               /\ wjob[w] = a.job /\ went[w].attemptCount = a.number
        \/ [job |-> a.job, number |-> a.number] \in cut

\* Even when handlers outlive their locks and run the same job side by side,
\* no two of them own the same attempt: the unique index on (jobId,
\* attemptNumber) stands in for the lock that was lost
\* (processing-attempt.entity.ts:14, job-processor.service.ts:91-101).
AttemptOwnership ==
    \A v, w \in Workers :
        v # w /\ wpc[v] \in Owning /\ wpc[w] \in Owning /\ wjob[v] = wjob[w]
            => went[v].attemptCount # went[w].attemptCount

\* Whoever executes an attempt finds its own row there, still undecided until it
\* decides it: no other handler finished it in the meantime
\* (job-processor.service.ts:91-122, 168-174).
OwnAttempt ==
    \A w \in Workers : wpc[w] \in Owning =>
        LET n == went[w].attemptCount IN
        /\ AttemptRows(wjob[w], n) # {}
        /\ wpc[w] = "run" => AttemptRows(wjob[w], n) = {Attempt(wjob[w], n, "started")}

\* The outcome of an attempt is final, even under redelivery and stale saves
\* (job-processor.service.ts:118-122, 168-174).
AttemptFinal ==
    [][\A a \in attempts : a.status # "started" => a \in attempts']_vars

\* A row that says queued has a message or a request behind it, and one that
\* says processing an execution (README.md:84 "queued --> processing: worker
\* consumes jobs.processing").
NoStrandedJob == \A j \in Jobs : jobs[j] # None /\ Pending(jobs[j]) => Backed(j)

\* A completed job is never touched again (README.md:88 "completed --> [*]").
CompletedIsTerminal ==
    [][\A j \in Jobs : jobs[j] # None =>
          (jobs[j].status = "completed" => jobs'[j] = jobs[j])]_vars

\* No job runs more often than its maxAttempts (README.md:131 "gated by
\* attemptCount < maxAttempts").
AttemptsWithinLimit ==
    \A j \in Jobs : jobs[j] # None => jobs[j].attemptCount <= jobs[j].maxAttempts

\* A lock that is set is always freed in the end, by its holder or by the TTL
\* when the holder crashed (job-processor.service.ts:50, 112-114).
LockFreed == \A j \in Jobs : lock[j] ~> ~lock[j]

\* A job that was accepted is executed to a decision, or the code gave up a
\* message or an enqueue of it, or its message never got to the broker, or no
\* consumer is left that listens (job-processor.service.ts:48-115).
WorkDecided ==
    \A j \in Jobs : (jobs[j] # None /\ Pending(jobs[j]))
                       ~> (j \in dropped \/ Deaf \/ (jobs[j] # None /\ ~Pending(jobs[j])))

\* The rows as JobLifecycle sees them.
LifecycleRow(row) ==
    IF row = None THEN None
    ELSE [status |-> row.status, attemptCount |-> row.attemptCount, maxAttempts |-> row.maxAttempts]

Lifecycle == INSTANCE JobLifecycle
    WITH rows <- [j \in Jobs |-> LifecycleRow(jobs[j])], loose <- disturbed

\* No undisturbed job runs more often than its maxAttempts, and while it is
\* queued it has an attempt left, even when handlers outlive their locks
\* (job.service.ts:193-202 against job-processor.service.ts:63-70).
WithinLimit == Lifecycle!WithinLimit

\* Redelivery and overlapping retries are the only ways out of the life cycle
\* the documentation draws: slow handlers, exceptions, lost and repeated lock
\* commands and interrupted requests never are (job.service.ts:186-202,
\* job-processor.service.ts:58-70).
ImplementsLifecycle == Lifecycle!Spec
=============================================================================
