-------------------------- MODULE JobLifecycle_proofs --------------------------
(***************************************************************************)
(* The rows of jobs under JobPipeline, for every number of jobs, workers   *)
(* and requests and every bound on faults: an undisturbed row has at most  *)
(* one agent, which knows what it says, so that it lives the life of       *)
(* JobLifecycle and stays within its limit.                                *)
(***************************************************************************)
EXTENDS JobRecords_proofs

\* A handler on its way to decide job j.
Awaits(w, j) == wjob[w] = j /\ wpc[w] \in Undecided

\* A request on its way to have job j executed.
Asks(r, j) == rjob[r] = j /\ rpc[r] \in BeforeSave \cup BeforeEnqueue

\* The row of j exists and has status s.
Has(j, s) == jobs[j] # None /\ jobs[j].status = s

\* At most one message, handler or request works for j.
Alone(j) ==
    /\ queue[j] <= 1
    /\ queue[j] > 0 => /\ \A w \in Workers : ~Awaits(w, j)
                       /\ \A r \in Requests : ~Asks(r, j)
    /\ \A v, w \in Workers : Awaits(v, j) /\ Awaits(w, j) => v = w
    /\ \A w \in Workers : \A r \in Requests : ~(Awaits(w, j) /\ Asks(r, j))
    /\ \A q, r \in Requests : Asks(q, j) /\ Asks(r, j) => q = r

\* The entity is the row but for the columns in which the two differ.
Prepared(entity, columns, row) ==
    /\ columns = Diff(entity, row)
    /\ entity.maxAttempts = row.maxAttempts
    /\ entity.payload = row.payload

\* The UPDATE of a row nobody touched since its SELECT makes it the entity.
LEMMA UpdatedWhole ==
    ASSUME NEW row \in Row, NEW entity \in Row, NEW columns, Prepared(entity, columns, row)
    PROVE  Updated(row, entity, columns) = entity
<1>1. \A c \in DOMAIN row : (IF c \in columns THEN entity[c] ELSE row[c]) = entity[c]
  BY DEF Prepared, Diff, Row, Columns
<1>2. DOMAIN row = DOMAIN entity /\ entity = [c \in DOMAIN entity |-> entity[c]]
  BY DEF Row
<1> QED
  BY <1>1, <1>2 DEF Updated

\* The handler's attempt is counted and not decided yet, or the decision not saved.
Executing == {"announce", "auditstart", "attempt", "run", "selectcompleted", "selectfailed"}

\* What the row of j says while handler w works for it, and what w knows of it.
Claimed(w, j) ==
    /\ wpc[w] \in {"lock", "load"} => Has(j, "queued")
    /\ wpc[w] = "start" => Has(j, "queued") /\ went[w] = jobs[j]
    /\ wpc[w] = "claim" => /\ Has(j, "queued") /\ Prepared(went[w], wdiff[w], jobs[j])
                           /\ went[w].status = "processing"
                           /\ went[w].attemptCount = jobs[j].attemptCount + 1
    /\ wpc[w] \in Executing => Has(j, "processing") /\ went[w] = jobs[j]
    /\ wpc[w] \in {"savecompleted", "savefailed"} =>
          /\ Has(j, "processing") /\ Prepared(went[w], wdiff[w], jobs[j])
          /\ went[w].attemptCount = jobs[j].attemptCount

\* The same for request r.
Requested(r, j) ==
    /\ rpc[r] \in BeforeSave =>
          /\ Has(j, "failed") /\ Retryable(jobs[j])
          /\ rent[r].status = "queued" /\ rent[r].attemptCount = jobs[j].attemptCount
          /\ rent[r].maxAttempts = jobs[j].maxAttempts /\ rent[r].payload = jobs[j].payload
    /\ rpc[r] = "save" => rdiff[r] = Diff(rent[r], jobs[j])
    /\ rpc[r] \in BeforeEnqueue => Has(j, "queued")

\* The attempts the row of j counts are within the limit.
Within(j) ==
    jobs[j] # None => /\ jobs[j].attemptCount <= jobs[j].maxAttempts
                      /\ jobs[j].status = "queued" => jobs[j].attemptCount < jobs[j].maxAttempts

\* Whoever works for j is the only one and knows the row.
Tidy(j) ==
    /\ Alone(j)
    /\ queue[j] > 0 => Has(j, "queued")
    /\ \A w \in Workers : Awaits(w, j) => Claimed(w, j)
    /\ \A r \in Requests : Asks(r, j) => Requested(r, j)
    /\ Within(j)

\* Every undisturbed job is tidy.
TidyInv == TypeOK /\ \A j \in Jobs \ disturbed : Tidy(j)

\* A job stays tidy while its row stays and nobody comes to work for it.
LEMMA TidyKept ==
    ASSUME NEW j \in Jobs, Tidy(j), queue[j] \in Nat, queue'[j] \in Nat,
           queue'[j] <= queue[j], jobs'[j] = jobs[j],
           \A w \in Workers : Awaits(w, j)' =>
              /\ Awaits(w, j) /\ went'[w] = went[w] /\ wdiff'[w] = wdiff[w]
              /\ \/ wpc'[w] = wpc[w]
                 \/ wpc'[w] = "load" /\ wpc[w] = "lock"
                 \/ {wpc[w], wpc'[w]} \subseteq Executing,
           \A r \in Requests : Asks(r, j)' =>
              /\ Asks(r, j) /\ rent'[r] = rent[r] /\ rdiff'[r] = rdiff[r]
              /\ rpc'[r] = rpc[r] \/ {rpc[r], rpc'[r]} \subseteq BeforeEnqueue
    PROVE  Tidy(j)'
<1>1. \A s : Has(j, s)' = Has(j, s)
  BY DEF Has
<1>2. Alone(j)'
  <2>1. queue'[j] <= 1 /\ (queue'[j] > 0 => queue[j] > 0)
    BY DEF Tidy, Alone
  <2> QED
    BY <2>1 DEF Tidy, Alone
<1>3. queue'[j] > 0 => Has(j, "queued")'
  <2>1. queue'[j] > 0 => queue[j] > 0
    OBVIOUS
  <2> QED
    BY <1>1, <2>1 DEF Tidy
<1>4. ASSUME NEW w \in Workers, Awaits(w, j)' PROVE Claimed(w, j)'
  <2>1. Claimed(w, j)
    BY <1>4 DEF Tidy
  <2> QED
    BY <1>1, <1>4, <2>1 DEF Claimed, Executing, Prepared, Diff
<1>5. ASSUME NEW r \in Requests, Asks(r, j)' PROVE Requested(r, j)'
  <2>1. Requested(r, j)
    BY <1>5 DEF Tidy
  <2> QED
    BY <1>1, <1>5, <2>1 DEF Requested, Retryable, BeforeSave, BeforeEnqueue, Diff
<1>6. Within(j)'
  BY DEF Tidy, Within
<1> QED
  BY <1>2, <1>3, <1>4, <1>5, <1>6 DEF Tidy

\* Nothing is there to be untidy.
LEMMA TidyInit == Init => TidyInv
<1> SUFFICES ASSUME Init PROVE TidyInv
  OBVIOUS
<1>1. \A j \in Jobs : /\ queue[j] = 0 /\ jobs[j] = None
                      /\ \A w \in Workers : ~Awaits(w, j)
                      /\ \A r \in Requests : ~Asks(r, j)
  BY NoneAssumption DEF Init, Awaits, Asks
<1> QED
  BY <1>1, TypeInit DEF TidyInv, Tidy, Alone, Within

\* A job that came loose stays so.
LEMMA DisturbedGrows == ASSUME [Next]_vars PROVE disturbed \subseteq disturbed'
<1>1. ASSUME NEW w \in Workers, Acts(w) PROVE disturbed \subseteq disturbed'
  BY <1>1 DEF Acts, WorkerStep, Deliver, AcquireLock, LockBusy, LoadJob, SelectProcessing,
         SaveProcessing, AnnounceProcessing, AuditProcessing, InsertAttempt, AttemptConflict,
         FinishAttempt, SelectCompleted, SaveCompleted, SelectFailed, SaveFailed, RaiseAlert,
         OpenIncident, NotifyOutcome, AuditOutcome, AuditAlert, AuditIncident, PublishOutcome,
         PublishRefused, Release, Settle, HandlerThrows, RedisThrows, Crash, EndsWith, Redeliver,
         SetResent, DelResent, ConsumerCancelled, handling, history
<1>2. ASSUME NEW r \in Requests, Serves(r) PROVE disturbed \subseteq disturbed'
  BY <1>2 DEF Serves, RequestStep, Create, RetryLoad, RetryReject, RetrySelect, RetrySave,
         RecordCommand, NotifyQueued, Enqueue, Emit, SendRefused, RequestAborts, EnqueueLost,
         serving, history
<1>3. CASE Passes
  BY <1>3 DEF Passes, BrokerShutsDown, LockExpires, Finished, vars, history
<1> QED
  BY <1>1, <1>2, <1>3, StepKinds

\* Where the handler of w stands after a step that neither took a message nor
\* read or wrote a row.
LEMMA HandlerMoves ==
    ASSUME TypeOK, NEW w \in Workers, Acts(w),
           \A j \in Jobs : ~Deliver(w, j),
           ~LoadJob(w), ~SelectProcessing(w), ~SelectCompleted(w), ~SelectFailed(w),
           ~SaveProcessing(w), ~SaveCompleted(w), ~SaveFailed(w)
    PROVE  /\ UNCHANGED jobs
           /\ wpc'[w] \in Undecided =>
                 /\ wjob'[w] = wjob[w] /\ went'[w] = went[w] /\ wdiff'[w] = wdiff[w]
                 /\ wpc[w] \in Undecided
                 /\ \/ wpc'[w] = wpc[w]
                    \/ wpc'[w] = "load" /\ wpc[w] = "lock"
                    \/ {wpc[w], wpc'[w]} \subseteq Executing
<1> USE DEF TypeOK, Goto, handling, storeVars, Undecided, Executing
<1>1. CASE AcquireLock(w) \/ LockBusy(w)
  BY <1>1 DEF AcquireLock, LockBusy
<1>2. CASE \/ AnnounceProcessing(w) \/ AuditProcessing(w) \/ InsertAttempt(w)
           \/ \E f \in BOOLEAN : FinishAttempt(w, f)
  BY <1>2 DEF AnnounceProcessing, AuditProcessing, InsertAttempt, FinishAttempt
<1>3. CASE \/ RaiseAlert(w) \/ OpenIncident(w) \/ NotifyOutcome(w) \/ AuditOutcome(w)
           \/ AuditAlert(w) \/ AuditIncident(w) \/ PublishOutcome(w)
  <2>1. wpc'[w] \in {"incident", "notify", "publish", "release"} \cup Auditing
    BY <1>3 DEF RaiseAlert, OpenIncident, NotifyOutcome, AuditOutcome, AuditAlert, AuditIncident,
                PublishOutcome, Auditing
  <2>2. UNCHANGED jobs
    BY <1>3 DEF RaiseAlert, OpenIncident, NotifyOutcome, AuditOutcome, AuditAlert, AuditIncident,
                PublishOutcome
  <2> QED
    BY <2>1, <2>2 DEF Auditing
<1>4. CASE \/ AttemptConflict(w) \/ PublishRefused(w) \/ HandlerThrows(w) \/ Release(w)
           \/ RedisThrows(w) \/ SetResent(w)
  BY <1>4 DEF AttemptConflict, PublishRefused, HandlerThrows, Throw, Release, RedisThrows, SetResent
<1>5. CASE Settle(w) \/ Crash(w) \/ EndsWith(w)
  BY <1>5 DEF Settle, Crash, EndsWith, Vacate
<1>6. CASE DelResent(w) \/ ConsumerCancelled(w)
  BY <1>6 DEF DelResent, ConsumerCancelled, workerVars
<1> QED
  BY <1>1, <1>2, <1>3, <1>4, <1>5, <1>6 DEF Acts, WorkerStep

\* A handler changes the messages that wait by taking one or by leaving its own
\* behind.
LEMMA HandlerQueue ==
    ASSUME TypeOK, NEW w \in Workers, Acts(w), NEW j \in Jobs, j \notin disturbed',
           ~Deliver(w, j)
    PROVE  queue'[j] = queue[j]
<1>1. ASSUME NEW i \in Jobs, Deliver(w, i) PROVE queue'[j] = queue[j]
  BY <1>1 DEF Deliver, TypeOK
<1>2. CASE Crash(w)
  BY <1>2 DEF Crash, Redeliver, TypeOK
<1> QED
  BY <1>1, <1>2 DEF Acts, WorkerStep, AcquireLock, LockBusy, LoadJob, SelectProcessing,
       SaveProcessing, AnnounceProcessing, AuditProcessing, InsertAttempt, AttemptConflict,
       FinishAttempt, SelectCompleted, SaveCompleted, SelectFailed, SaveFailed, RaiseAlert,
       OpenIncident, NotifyOutcome, AuditOutcome, AuditAlert, AuditIncident, PublishOutcome,
       PublishRefused, Release, Settle, HandlerThrows, RedisThrows, EndsWith, SetResent, DelResent,
       ConsumerCancelled, handling

\* The SELECT of a save prepares it.
LEMMA TidySelects ==
    ASSUME TypeOK, NEW w \in Workers, NEW j \in Jobs, wjob[w] = j, Tidy(j),
           SelectProcessing(w) \/ SelectCompleted(w) \/ SelectFailed(w)
    PROVE  /\ Awaits(w, j) /\ Claimed(w, j)'
           /\ UNCHANGED <<jobs, queue, wjob>>
<1>1. /\ UNCHANGED <<jobs, queue, wjob>>
      /\ SelectProcessing(w) => wpc[w] = "start" /\ wpc'[w] = "claim"
      /\ ~SelectProcessing(w) => /\ wpc[w] \in {"selectcompleted", "selectfailed"}
                                 /\ wpc'[w] \in {"savecompleted", "savefailed"}
  BY DEF SelectProcessing, SelectCompleted, SelectFailed, Goto, handling, storeVars, TypeOK
<1>2. Awaits(w, j)
  BY <1>1 DEF Awaits, Undecided
<1>3. /\ went[w] = jobs[j]
      /\ SelectProcessing(w) => Has(j, "queued")
      /\ ~SelectProcessing(w) => Has(j, "processing")
  BY <1>1, <1>2 DEF Tidy, Claimed, Executing
<1>4. /\ wdiff'[w] = Diff(went'[w], jobs[j])
      /\ went'[w].maxAttempts = went[w].maxAttempts /\ went'[w].payload = went[w].payload
      /\ SelectProcessing(w) => /\ went'[w].status = "processing"
                                /\ went'[w].attemptCount = went[w].attemptCount + 1
      /\ ~SelectProcessing(w) => went'[w].attemptCount = went[w].attemptCount
  BY Selects DEF TypeOK
<1>5. Prepared(went'[w], wdiff'[w], jobs'[j])
  BY <1>1, <1>3, <1>4 DEF Prepared
<1>6. \A s : Has(j, s)' = Has(j, s)
  BY <1>1 DEF Has
<1>7. Claimed(w, j)'
  BY <1>1, <1>3, <1>4, <1>5, <1>6 DEF Claimed, Executing
<1> QED
  BY <1>1, <1>2, <1>7

\* The UPDATE that follows leaves the whole entity.
LEMMA TidySaves ==
    ASSUME TypeOK, NEW w \in Workers, NEW j \in Jobs, wjob[w] = j, Tidy(j),
           SaveProcessing(w) \/ SaveCompleted(w) \/ SaveFailed(w)
    PROVE  /\ Awaits(w, j)
           /\ jobs[j] \in Row /\ went[w] \in Row
           /\ Prepared(went[w], wdiff[w], jobs[j])
           /\ jobs' = [jobs EXCEPT ![j] = went[w]] /\ jobs'[j] = went[w]
           /\ SaveProcessing(w) => /\ Has(j, "queued") /\ went[w].status = "processing"
                                   /\ went[w].attemptCount = jobs[j].attemptCount + 1
           /\ ~SaveProcessing(w) => /\ Has(j, "processing")
                                    /\ went[w].status \in {"completed", "failed"}
                                    /\ went[w].attemptCount = jobs[j].attemptCount
<1>1. /\ SaveProcessing(w) => wpc[w] = "claim"
      /\ ~SaveProcessing(w) => wpc[w] \in {"savecompleted", "savefailed"}
  BY DEF SaveProcessing, SaveCompleted, SaveFailed
<1>2. Awaits(w, j)
  BY <1>1 DEF Awaits, Undecided
<1>3. Claimed(w, j)
  BY <1>2 DEF Tidy
<1>4. Prepared(went[w], wdiff[w], jobs[j])
  BY <1>1, <1>3 DEF Claimed
<1>5. /\ went[w] \in Row /\ jobs[j] \in Row
      /\ jobs' = [jobs EXCEPT ![j] = Updated(jobs[j], went[w], wdiff[w])]
  BY Saves
<1>6. Updated(jobs[j], went[w], wdiff[w]) = went[w]
  BY <1>4, <1>5, UpdatedWhole
<1>7. jobs' = [jobs EXCEPT ![j] = went[w]] /\ jobs'[j] = went[w]
  BY <1>5, <1>6 DEF TypeOK
<1>8. ~SaveProcessing(w) => went[w].status \in {"completed", "failed"}
  BY <1>1 DEF TypeOK
<1> QED
  BY <1>1, <1>2, <1>3, <1>4, <1>5, <1>7, <1>8 DEF Claimed

\* What a handler does leaves an undisturbed job tidy.
LEMMA TidyActs ==
    ASSUME TypeOK, NEW w \in Workers, Acts(w), NEW j \in Jobs, Tidy(j), j \notin disturbed'
    PROVE  Tidy(j)'
<1>0. /\ \A v \in Workers \ {w} : wpc'[v] = wpc[v] /\ wjob'[v] = wjob[v] /\ went'[v] = went[v]
                                  /\ wdiff'[v] = wdiff[v]
      /\ UNCHANGED <<rpc, rjob, rent, rdiff>>
      /\ queue[j] \in Nat
  BY ActsFrame DEF TypeOK
<1>1. \A r \in Requests : /\ Asks(r, j)' = Asks(r, j) /\ rpc'[r] = rpc[r]
                          /\ rent'[r] = rent[r] /\ rdiff'[r] = rdiff[r]
  BY <1>0 DEF Asks
<1>2. \A v \in Workers \ {w} : Awaits(v, j)' = Awaits(v, j)
  BY <1>0 DEF Awaits
<1>3. CASE Deliver(w, j)
  <2>1. queue[j] = 1 /\ queue'[j] = 0
    BY <1>0, <1>3 DEF Deliver, TypeOK, Tidy, Alone
  <2>2. wpc'[w] = "lock" /\ UNCHANGED jobs
    BY <1>3 DEF Deliver, Goto, TypeOK, storeVars
  <2>3. /\ \A v \in Workers \ {w} : ~Awaits(v, j)'
        /\ \A r \in Requests : ~Asks(r, j)'
    BY <1>1, <1>2, <2>1 DEF Tidy, Alone
  <2>4. Has(j, "queued")' /\ Within(j)'
    BY <2>1, <2>2 DEF Tidy, Has, Within
  <2>5. Claimed(w, j)'
    BY <2>2, <2>4 DEF Claimed, Executing
  <2>6. Alone(j)'
    BY <2>1, <2>3 DEF Alone
  <2> QED
    BY <2>1, <2>3, <2>4, <2>5, <2>6 DEF Tidy
<1>4. CASE ~Deliver(w, j) /\ wjob[w] # j
  <2>1. queue'[j] = queue[j]
    BY <1>4, HandlerQueue
  <2>2. ~Awaits(w, j)'
    <3>1. CASE UNCHANGED wjob
      BY <1>4, <3>1 DEF Awaits
    <3>2. ASSUME NEW i \in Jobs, Deliver(w, i) PROVE ~Awaits(w, j)'
      BY <1>4, <3>2 DEF Deliver, Awaits, TypeOK
    <3>3. CASE Settle(w) \/ Crash(w) \/ EndsWith(w)
      BY <3>3 DEF Settle, Crash, EndsWith, Vacate, Goto, Awaits, Undecided, TypeOK
    <3> QED
      BY <3>1, <3>2, <3>3 DEF Acts, WorkerStep, AcquireLock, LockBusy, LoadJob, SelectProcessing,
         SaveProcessing, AnnounceProcessing, AuditProcessing, InsertAttempt, AttemptConflict,
         FinishAttempt, SelectCompleted, SaveCompleted, SelectFailed, SaveFailed, RaiseAlert,
         OpenIncident, NotifyOutcome, AuditOutcome, AuditAlert, AuditIncident, PublishOutcome,
         PublishRefused, Release, HandlerThrows, RedisThrows, SetResent, DelResent,
         ConsumerCancelled, handling, workerVars
  <2>3. jobs'[j] = jobs[j]
    <3>1. CASE SaveProcessing(w) \/ SaveCompleted(w) \/ SaveFailed(w)
      BY <1>4, <3>1, Saves DEF TypeOK
    <3>2. CASE UNCHANGED jobs
      BY <3>2
    <3> QED
      BY <3>1, <3>2, HandlerMoves DEF Deliver, LoadJob, SelectProcessing, SelectCompleted,
                                  SelectFailed, storeVars
  <2> QED
    BY <1>0, <1>1, <1>2, <2>1, <2>2, <2>3, TidyKept
<1>5. CASE LoadJob(w) /\ wjob[w] = j
  <2>1. /\ wpc[w] = "load" /\ wpc'[w] = "start" /\ went'[w] = jobs[j]
        /\ UNCHANGED <<jobs, queue, wjob>>
    BY <1>5 DEF LoadJob, Goto, handling, TypeOK, storeVars
  <2>2. Awaits(w, j) /\ Awaits(w, j)'
    BY <1>5, <2>1 DEF Awaits, Undecided
  <2>3. Has(j, "queued") /\ Alone(j) /\ Within(j)
    BY <2>1, <2>2 DEF Tidy, Claimed
  <2>4. \A v \in Workers \ {w} : ~Awaits(v, j)'
    BY <1>2, <2>2, <2>3 DEF Alone
  <2>5. Claimed(w, j)' /\ Has(j, "queued")' /\ Within(j)'
    BY <2>1, <2>3 DEF Claimed, Executing, Has, Within
  <2>6. \A r \in Requests : ~Asks(r, j)'
    BY <1>1, <2>2, <2>3 DEF Alone
  <2>7. queue'[j] = 0
    BY <1>0, <2>1, <2>2, <2>3 DEF Alone
  <2>8. Alone(j)'
    BY <2>4, <2>6, <2>7 DEF Alone
  <2> QED
    BY <2>4, <2>5, <2>6, <2>7, <2>8 DEF Tidy
<1>6. CASE /\ SelectProcessing(w) \/ SelectCompleted(w) \/ SelectFailed(w)
           /\ wjob[w] = j
  <2>1. Awaits(w, j) /\ Claimed(w, j)' /\ UNCHANGED <<jobs, queue, wjob>>
    BY <1>6, TidySelects
  <2>2. Alone(j)
    BY DEF Tidy
  <2>3. /\ \A v \in Workers \ {w} : ~Awaits(v, j)'
        /\ \A r \in Requests : ~Asks(r, j)'
        /\ queue'[j] = 0
    BY <1>0, <1>1, <1>2, <2>1, <2>2 DEF Alone
  <2>4. Alone(j)'
    BY <2>3 DEF Alone
  <2>5. Within(j)'
    BY <2>1 DEF Tidy, Within
  <2> QED
    BY <2>1, <2>3, <2>4, <2>5 DEF Tidy
<1>7. CASE /\ SaveProcessing(w) \/ SaveCompleted(w) \/ SaveFailed(w)
           /\ wjob[w] = j
  <2>1. /\ Awaits(w, j) /\ jobs[j] \in Row /\ went[w] \in Row
        /\ Prepared(went[w], wdiff[w], jobs[j]) /\ jobs'[j] = went[w]
        /\ SaveProcessing(w) => /\ Has(j, "queued") /\ went[w].status = "processing"
                                /\ went[w].attemptCount = jobs[j].attemptCount + 1
        /\ ~SaveProcessing(w) => /\ went[w].status \in {"completed", "failed"}
                                 /\ went[w].attemptCount = jobs[j].attemptCount
    BY <1>7, TidySaves
  <2>2. Alone(j) /\ Within(j)
    BY DEF Tidy
  <2>3. /\ UNCHANGED <<queue, went>> /\ wpc'[w] \in {"announce", "notify", "alert"}
        /\ ~SaveProcessing(w) => wpc'[w] # "announce"
    BY <1>7 DEF SaveProcessing, SaveCompleted, SaveFailed, handling, Goto, TypeOK
  <2>4. /\ \A v \in Workers \ {w} : ~Awaits(v, j)'
        /\ \A r \in Requests : ~Asks(r, j)'
        /\ queue'[j] = 0
    BY <1>0, <1>1, <1>2, <2>1, <2>2, <2>3 DEF Alone
  <2>5. Alone(j)'
    BY <2>4 DEF Alone
  <2>6. Within(j)'
    <3>1. jobs[j].attemptCount \in Nat /\ jobs[j].maxAttempts \in Nat
      BY <2>1, LimitsAssumption DEF Row
    <3>2. jobs'[j].maxAttempts = jobs[j].maxAttempts
      BY <2>1 DEF Prepared
    <3> QED
      BY <2>1, <2>2, <3>1, <3>2, NoneAssumption DEF Within, Has
  <2>7. Awaits(w, j)' => Claimed(w, j)'
    <3>1. CASE SaveProcessing(w)
      <4>1. wpc'[w] = "announce"
        BY <3>1 DEF SaveProcessing, Goto, TypeOK
      <4>2. Has(j, "processing")' /\ went'[w] = jobs'[j]
        BY <2>1, <2>3, <3>1, NoneAssumption DEF Has
      <4> QED
        BY <4>1, <4>2 DEF Claimed, Executing
    <3>2. CASE ~SaveProcessing(w)
      BY <2>3, <3>2 DEF Awaits, Undecided
    <3> QED
      BY <3>1, <3>2
  <2> QED
    BY <2>4, <2>5, <2>6, <2>7 DEF Tidy
<1>8. CASE /\ ~Deliver(w, j) /\ wjob[w] = j
           /\ ~LoadJob(w) /\ ~SelectProcessing(w) /\ ~SelectCompleted(w) /\ ~SelectFailed(w)
           /\ ~SaveProcessing(w) /\ ~SaveCompleted(w) /\ ~SaveFailed(w)
  <2>1. queue'[j] = queue[j]
    BY <1>8, HandlerQueue
  <2>2. CASE \E i \in Jobs : Deliver(w, i)
    <3>1. UNCHANGED jobs /\ ~Awaits(w, j)'
      BY <1>8, <2>2 DEF Deliver, Awaits, TypeOK, storeVars
    <3> QED
      BY <1>0, <1>1, <1>2, <2>1, <3>1, TidyKept
  <2>3. CASE \A i \in Jobs : ~Deliver(w, i)
    <3>1. /\ UNCHANGED jobs
          /\ wpc'[w] \in Undecided =>
                /\ wjob'[w] = wjob[w] /\ went'[w] = went[w] /\ wdiff'[w] = wdiff[w]
                /\ wpc[w] \in Undecided
                /\ \/ wpc'[w] = wpc[w]
                   \/ wpc'[w] = "load" /\ wpc[w] = "lock"
                   \/ {wpc[w], wpc'[w]} \subseteq Executing
      BY <1>8, <2>3, HandlerMoves
    <3>2. Awaits(w, j)' =>
             /\ Awaits(w, j) /\ went'[w] = went[w] /\ wdiff'[w] = wdiff[w]
             /\ \/ wpc'[w] = wpc[w]
                \/ wpc'[w] = "load" /\ wpc[w] = "lock"
                \/ {wpc[w], wpc'[w]} \subseteq Executing
      BY <1>8, <3>1 DEF Awaits
    <3> QED
      BY <1>0, <1>1, <1>2, <2>1, <3>1, <3>2, TidyKept
  <2> QED
    BY <2>2, <2>3
<1> QED
  BY <1>3, <1>4, <1>5, <1>6, <1>7, <1>8

\* Where request r stands after a step that neither read nor wrote a row and
\* sent no message.
LEMMA RequestMoves ==
    ASSUME TypeOK, NEW r \in Requests, Serves(r),
           \A j \in Jobs : ~Create(r, j) /\ ~RetryLoad(r, j),
           ~RetrySelect(r), ~RetrySave(r), ~Enqueue(r)
    PROVE  /\ UNCHANGED <<jobs, queue>>
           /\ rpc'[r] \in BeforeSave \cup BeforeEnqueue =>
                 /\ rjob'[r] = rjob[r] /\ rent'[r] = rent[r] /\ rdiff'[r] = rdiff[r]
                 /\ {rpc[r], rpc'[r]} \subseteq BeforeEnqueue
<1> USE DEF TypeOK, serving, storeVars, BeforeSave, BeforeEnqueue
<1>1. CASE RecordCommand(r) \/ NotifyQueued(r)
  BY <1>1 DEF RecordCommand, NotifyQueued
<1>2. CASE \/ Emit(r) \/ SendRefused(r) \/ RequestAborts(r) \/ EnqueueLost(r)
           \/ \E j \in Jobs : RetryReject(r, j)
  BY <1>2 DEF Emit, SendRefused, RequestAborts, EnqueueLost, RetryReject
<1> QED
  BY <1>1, <1>2 DEF Serves, RequestStep

\* The UPDATE of a retry leaves the whole entity.
LEMMA TidyRetries ==
    ASSUME TypeOK, NEW r \in Requests, NEW j \in Jobs, rjob[r] = j, Tidy(j), RetrySave(r)
    PROVE  /\ Asks(r, j) /\ Has(j, "failed") /\ Retryable(jobs[j])
           /\ jobs[j] \in Row /\ rent[r] \in Row
           /\ Prepared(rent[r], rdiff[r], jobs[j])
           /\ rent[r].status = "queued" /\ rent[r].attemptCount = jobs[j].attemptCount
           /\ jobs' = [jobs EXCEPT ![j] = rent[r]] /\ jobs'[j] = rent[r]
<1>1. rpc[r] = "save"
  BY DEF RetrySave
<1>2. Asks(r, j)
  BY <1>1 DEF Asks, BeforeSave
<1>3. Requested(r, j)
  BY <1>2 DEF Tidy
<1>4. /\ Has(j, "failed") /\ Retryable(jobs[j])
      /\ Prepared(rent[r], rdiff[r], jobs[j])
      /\ rent[r].status = "queued" /\ rent[r].attemptCount = jobs[j].attemptCount
  BY <1>1, <1>3 DEF Requested, BeforeSave, Prepared
<1>5. /\ rent[r] \in Row /\ jobs[j] \in Row
      /\ jobs' = [jobs EXCEPT ![j] = Updated(jobs[j], rent[r], rdiff[r])]
  BY RetrySaves
<1>6. Updated(jobs[j], rent[r], rdiff[r]) = rent[r]
  BY <1>4, <1>5, UpdatedWhole
<1>7. jobs' = [jobs EXCEPT ![j] = rent[r]] /\ jobs'[j] = rent[r]
  BY <1>5, <1>6 DEF TypeOK
<1> QED
  BY <1>2, <1>4, <1>5, <1>7

\* What a request does leaves an undisturbed job tidy.
LEMMA TidyServes ==
    ASSUME TypeOK, NEW r \in Requests, Serves(r), NEW j \in Jobs, Tidy(j), j \notin disturbed'
    PROVE  Tidy(j)'
<1>0. /\ \A q \in Requests \ {r} : rpc'[q] = rpc[q] /\ rjob'[q] = rjob[q] /\ rent'[q] = rent[q]
                                   /\ rdiff'[q] = rdiff[q]
      /\ UNCHANGED <<wpc, wjob, went, wdiff>>
      /\ queue[j] \in Nat
  BY ServesFrame DEF TypeOK
<1>1. \A w \in Workers : /\ Awaits(w, j)' = Awaits(w, j) /\ wpc'[w] = wpc[w]
                         /\ went'[w] = went[w] /\ wdiff'[w] = wdiff[w]
  BY <1>0 DEF Awaits
<1>2. \A q \in Requests \ {r} : Asks(q, j)' = Asks(q, j)
  BY <1>0 DEF Asks
<1>3. CASE Create(r, j)
  <2>1. jobs[j] = None /\ UNCHANGED queue
    BY <1>3 DEF Create
  <2>2. queue[j] = 0
    BY <1>0, <2>1 DEF Tidy, Has
  <2>3. \A w \in Workers : ~Awaits(w, j)'
    BY <1>1, <2>1 DEF Tidy, Claimed, Has, Awaits, Undecided, Executing
  <2>4. \A q \in Requests \ {r} : ~Asks(q, j)'
    BY <1>2, <2>1 DEF Tidy, Requested, Has, Asks, BeforeSave
  <2>5. PICK p \in Payloads, m \in AttemptLimits :
           jobs'[j] = [status |-> "queued", attemptCount |-> 0, maxAttempts |-> m, payload |-> p]
    BY <1>3 DEF Create, TypeOK
  <2>6. jobs'[j] \in Row /\ jobs'[j].status = "queued" /\ jobs'[j].attemptCount = 0
        /\ jobs'[j].maxAttempts \in Nat \ {0}
    BY <2>5, LimitsAssumption DEF Row, Status
  <2>7. Has(j, "queued")' /\ Within(j)'
    BY <2>6, NoneAssumption DEF Has, Within
  <2>8. rpc'[r] = "record"
    BY <1>3 DEF Create, TypeOK
  <2>9. Requested(r, j)'
    BY <2>7, <2>8 DEF Requested, BeforeSave, BeforeEnqueue
  <2>10. Alone(j)'
    BY <2>1, <2>2, <2>3, <2>4 DEF Alone
  <2> QED
    BY <2>1, <2>2, <2>3, <2>4, <2>7, <2>9, <2>10 DEF Tidy
<1>4. CASE RetryLoad(r, j)
  <2>0. jobs[j] \in Row
    BY <1>4 DEF RetryLoad, TypeOK
  <2>1. /\ Has(j, "failed") /\ Retryable(jobs[j]) /\ UNCHANGED <<jobs, queue>>
        /\ rpc'[r] = "select" /\ rent'[r] = [jobs[j] EXCEPT !.status = "queued"]
    BY <1>4 DEF RetryLoad, Retryable, Has, TypeOK, storeVars
  <2>2. \A q \in Requests : ~(rpc[q] \in BeforeSave /\ rjob[q] = j)
    BY <1>4 DEF RetryLoad
  <2>3. queue[j] = 0
    BY <1>0, <2>1 DEF Tidy, Has
  <2>4. \A w \in Workers : ~Awaits(w, j)'
    BY <1>1, <2>1 DEF Tidy, Claimed, Has, Awaits, Undecided, Executing
  <2>5. \A q \in Requests \ {r} : ~Asks(q, j)'
    BY <1>2, <2>1, <2>2 DEF Tidy, Requested, Has, Asks, BeforeSave
  <2>6. Requested(r, j)' /\ Within(j)'
    <3>1. /\ rent'[r].status = "queued" /\ rent'[r].attemptCount = jobs[j].attemptCount
          /\ rent'[r].maxAttempts = jobs[j].maxAttempts /\ rent'[r].payload = jobs[j].payload
      BY <2>0, <2>1 DEF Row
    <3> QED
      BY <2>1, <3>1 DEF Requested, Has, Retryable, Within, Tidy, BeforeEnqueue
  <2>7. Alone(j)'
    BY <2>1, <2>3, <2>4, <2>5 DEF Alone
  <2> QED
    BY <2>1, <2>3, <2>4, <2>5, <2>6, <2>7 DEF Tidy
<1>5. CASE RetrySelect(r) /\ rjob[r] = j
  <2>1. /\ Asks(r, j) /\ Asks(r, j)' /\ rpc[r] = "select" /\ rpc'[r] = "save"
        /\ UNCHANGED <<jobs, queue, rjob, rent>> /\ rdiff'[r] = Diff(rent[r], jobs[j])
    BY <1>5 DEF RetrySelect, Asks, BeforeSave, TypeOK, storeVars
  <2>2. Requested(r, j) /\ Alone(j) /\ Within(j)
    BY <2>1 DEF Tidy
  <2>3. Requested(r, j)' /\ Within(j)'
    BY <2>1, <2>2 DEF Requested, Has, Within, BeforeSave, BeforeEnqueue, Diff
  <2>4. /\ \A w \in Workers : ~Awaits(w, j)'
        /\ \A q \in Requests \ {r} : ~Asks(q, j)'
        /\ queue'[j] = 0
    BY <1>0, <1>1, <1>2, <2>1, <2>2 DEF Alone
  <2>5. Alone(j)'
    BY <2>4 DEF Alone
  <2> QED
    BY <2>3, <2>4, <2>5 DEF Tidy
<1>6. CASE RetrySave(r) /\ rjob[r] = j
  <2>1. /\ Asks(r, j) /\ Has(j, "failed") /\ Retryable(jobs[j]) /\ jobs[j] \in Row
        /\ jobs'[j] \in Row /\ jobs'[j].status = "queued"
        /\ jobs'[j].attemptCount = jobs[j].attemptCount
        /\ jobs'[j].maxAttempts = jobs[j].maxAttempts
    BY <1>6, TidyRetries DEF Prepared
  <2>2. Alone(j) /\ Within(j)
    BY DEF Tidy
  <2>4. UNCHANGED <<queue, rjob>> /\ rpc'[r] = "record"
    BY <1>6 DEF RetrySave, TypeOK
  <2>6. Has(j, "queued")' /\ Within(j)'
    BY <2>1, <2>2, NoneAssumption DEF Has, Within, Retryable
  <2>7. queue[j] = 0
    BY <1>0, <2>1, <2>2 DEF Alone
  <2>8. \A w \in Workers : ~Awaits(w, j)'
    BY <1>1, <2>1, <2>2 DEF Alone
  <2>9. \A q \in Requests \ {r} : ~Asks(q, j)'
    BY <1>2, <2>1, <2>2 DEF Alone
  <2>10. Requested(r, j)'
    BY <2>4, <2>6 DEF Requested, BeforeSave
  <2>11. Alone(j)'
    BY <2>4, <2>7, <2>8, <2>9 DEF Alone
  <2> QED
    BY <2>4, <2>6, <2>7, <2>8, <2>9, <2>10, <2>11 DEF Tidy
<1>7. CASE Enqueue(r) /\ rjob[r] = j
  <2>1. Asks(r, j) /\ rpc[r] = "enqueue"
    BY <1>7 DEF Enqueue, Asks, BeforeEnqueue
  <2>2. Has(j, "queued") /\ Alone(j) /\ Within(j)
    BY <2>1 DEF Tidy, Requested, BeforeEnqueue
  <2>3. queue[j] = 0
    BY <1>0, <2>1, <2>2 DEF Alone
  <2>4. queue'[j] = 1 /\ UNCHANGED jobs /\ rpc'[r] = "emit"
    BY <1>7, <2>3 DEF Enqueue, serving, TypeOK
  <2>5. \A w \in Workers : ~Awaits(w, j)'
    BY <1>1, <2>1, <2>2 DEF Alone
  <2>6. \A q \in Requests : ~Asks(q, j)'
    BY <1>2, <2>1, <2>2, <2>4 DEF Alone, Asks, BeforeSave, BeforeEnqueue
  <2>7. Has(j, "queued")' /\ Within(j)'
    BY <2>2, <2>4 DEF Has, Within
  <2>8. Alone(j)'
    BY <2>4, <2>5, <2>6 DEF Alone
  <2> QED
    BY <2>5, <2>6, <2>7, <2>8 DEF Tidy
<1>8. CASE \/ \E i \in Jobs \ {j} : Create(r, i) \/ RetryLoad(r, i)
           \/ (RetrySelect(r) \/ RetrySave(r) \/ Enqueue(r)) /\ rjob[r] # j
  <2>1. jobs'[j] = jobs[j] /\ queue'[j] = queue[j]
    BY <1>8 DEF Create, RetryLoad, RetrySelect, RetrySave, Enqueue, serving, storeVars, TypeOK
  <2>2. rjob'[r] # j
    BY <1>8 DEF Create, RetryLoad, RetrySelect, RetrySave, Enqueue, serving, TypeOK
  <2> QED
    BY <1>0, <1>1, <1>2, <2>1, <2>2, TidyKept DEF Asks
<1>9. CASE /\ \A i \in Jobs : ~Create(r, i) /\ ~RetryLoad(r, i)
           /\ ~RetrySelect(r) /\ ~RetrySave(r) /\ ~Enqueue(r)
  <2>1. /\ UNCHANGED <<jobs, queue>>
        /\ Asks(r, j)' => /\ Asks(r, j) /\ rent'[r] = rent[r] /\ rdiff'[r] = rdiff[r]
                          /\ {rpc[r], rpc'[r]} \subseteq BeforeEnqueue
    BY <1>9, RequestMoves DEF Asks
  <2> QED
    BY <1>0, <1>1, <1>2, <2>1, TidyKept
<1> QED
  BY <1>3, <1>4, <1>5, <1>6, <1>7, <1>8, <1>9

\* A broker that shuts down returns messages of jobs that come loose by it.
LEMMA TidyPasses ==
    ASSUME TypeOK, Passes, NEW j \in Jobs, Tidy(j), j \notin disturbed'
    PROVE  Tidy(j)'
<1>1. /\ UNCHANGED <<jobs, wpc, wjob, went, wdiff, rpc, rjob, rent, rdiff>>
      /\ queue[j] \in Nat
  BY PassesFrame DEF storeVars, TypeOK
<1>2. queue'[j] = queue[j]
  <2>1. CASE BrokerShutsDown
    <3> DEFINE c == Cardinality(Unacknowledged(j))
    <3>1. Unacknowledged(j) = {}
      BY <2>1 DEF BrokerShutsDown
    <3>2. c = 0
      BY <3>1, FS_EmptySet
    <3>3. queue'[j] = queue[j] + c
      BY <2>1 DEF BrokerShutsDown
    <3> HIDE DEF c
    <3> QED
      BY <1>1, <3>2, <3>3
  <2>2. CASE UNCHANGED queue
    BY <2>2
  <2> QED
    BY <2>1, <2>2 DEF Passes, LockExpires, Finished, vars
<1> QED
  BY <1>1, <1>2, TidyKept DEF Awaits, Asks

\* Tidiness is inductive.
LEMMA TidyStep == TidyInv /\ [Next]_vars => TidyInv'
<1> SUFFICES ASSUME TidyInv, [Next]_vars PROVE TidyInv'
  OBVIOUS
<1>1. TypeOK /\ TypeOK'
  BY TypeStep DEF TidyInv
<1>2. ASSUME NEW j \in Jobs, j \notin disturbed' PROVE Tidy(j)'
  <2>1. Tidy(j)
    BY <1>2, DisturbedGrows DEF TidyInv
  <2> QED
    BY <1>1, <1>2, <2>1, StepKinds, TidyActs, TidyServes, TidyPasses
<1> QED
  BY <1>1, <1>2 DEF TidyInv

\* No job runs more often than it may, unless a message of it was redelivered or
\* two retries of it overlapped.
THEOREM LimitIsKept == Spec => []WithinLimit
<1>1. TidyInv => WithinLimit
  <2> SUFFICES ASSUME TidyInv, NEW j \in Jobs \ disturbed, LifecycleRow(jobs[j]) # None
               PROVE  LET row == LifecycleRow(jobs[j])
                      IN  /\ row.attemptCount <= row.maxAttempts
                          /\ row.status = "queued" => row.attemptCount < row.maxAttempts
    BY DEF WithinLimit, Lifecycle!WithinLimit
  <2> QED
    BY DEF TidyInv, Tidy, Within, LifecycleRow
<1> QED
  BY <1>1, TidyInit, TidyStep, PTL DEF Spec

-----------------------------------------------------------------------------
(* The rows live the life of JobLifecycle. *)

\* The columns of a row are a row of JobLifecycle, and not None.
LEMMA RowColumns ==
    ASSUME NEW row \in Row
    PROVE  /\ row # None /\ LifecycleRow(row) # None
           /\ LifecycleRow(row) = [status |-> row.status, attemptCount |-> row.attemptCount,
                                   maxAttempts |-> row.maxAttempts]
           /\ LifecycleRow(row) \in Lifecycle!Row
<1>1. LifecycleRow(row) = [status |-> row.status, attemptCount |-> row.attemptCount,
                           maxAttempts |-> row.maxAttempts]
  BY NoneAssumption DEF LifecycleRow
<1>2. LifecycleRow(row) \in LifecycleColumns
  BY <1>1 DEF LifecycleColumns, Row
<1> QED
  BY <1>1, <1>2, NoneAssumption DEF LifecycleColumns, Lifecycle!Row, Status

\* One step changes one row, by an INSERT or an UPDATE, and no row comes loose meanwhile.
LEMMA RowChanges ==
    ASSUME TypeOK, [Next]_vars, jobs' # jobs
    PROVE  /\ UNCHANGED disturbed
           /\ \E j \in Jobs :
                 /\ jobs' = [jobs EXCEPT ![j] = jobs'[j]]
                 /\ \/ \E r \in Requests : Create(r, j)
                    \/ \E w \in Workers : wjob[w] = j
                          /\ (SaveProcessing(w) \/ SaveCompleted(w) \/ SaveFailed(w))
                    \/ \E r \in Requests : rjob[r] = j /\ RetrySave(r)
<1> USE DEF TypeOK
<1>1. ASSUME NEW r \in Requests, NEW j \in Jobs, Create(r, j)
      PROVE  UNCHANGED disturbed /\ jobs' = [jobs EXCEPT ![j] = jobs'[j]]
  BY <1>1 DEF Create, history
<1>2. ASSUME NEW w \in Workers, SaveProcessing(w) \/ SaveCompleted(w) \/ SaveFailed(w)
      PROVE  /\ UNCHANGED disturbed /\ wjob[w] \in Jobs
             /\ jobs' = [jobs EXCEPT ![wjob[w]] = jobs'[wjob[w]]]
  BY <1>2, Saves DEF SaveProcessing, SaveCompleted, SaveFailed, handling, history
<1>3. ASSUME NEW r \in Requests, RetrySave(r)
      PROVE  /\ UNCHANGED disturbed /\ rjob[r] \in Jobs
             /\ jobs' = [jobs EXCEPT ![rjob[r]] = jobs'[rjob[r]]]
  BY <1>3, RetrySaves DEF RetrySave, history
<1>4. \/ \E r \in Requests, j \in Jobs : Create(r, j)
      \/ \E w \in Workers : SaveProcessing(w) \/ SaveCompleted(w) \/ SaveFailed(w)
      \/ \E r \in Requests : RetrySave(r)
  BY ZenonT(30) DEF Next, WorkerStep, Deliver, AcquireLock, LockBusy, LoadJob, SelectProcessing,
         AnnounceProcessing, AuditProcessing, InsertAttempt, AttemptConflict, FinishAttempt,
         SelectCompleted, SelectFailed, RaiseAlert, OpenIncident, NotifyOutcome, AuditOutcome,
         AuditAlert, AuditIncident, PublishOutcome, PublishRefused, Release, Settle, HandlerThrows,
         RedisThrows, Crash, EndsWith, SetResent, DelResent, ConsumerCancelled, BrokerShutsDown,
         RetryLoad, RetryReject, RequestStep, RetrySelect, RecordCommand,
         NotifyQueued, Enqueue, Emit, SendRefused, RequestAborts, EnqueueLost, LockExpires,
         Finished, serving, handling, storeVars, vars
<1> QED
  BY <1>1, <1>2, <1>3, <1>4

\* The columns of a row whose next attempt starts.
Started(row) == [row EXCEPT !.status = "processing", !.attemptCount = @ + 1]

\* Starting an attempt, column by column.
LEMMA ColumnsStart ==
    ASSUME NEW row, NEW s, NEW n, NEW m,
           row = [status |-> s, attemptCount |-> n, maxAttempts |-> m]
    PROVE  Started(row) = [status |-> "processing", attemptCount |-> n + 1, maxAttempts |-> m]
<1>1. [row EXCEPT !.status = "processing", !.attemptCount = @ + 1]
        = [[row EXCEPT !.status = "processing"] EXCEPT !.attemptCount = @ + 1]
  OBVIOUS
<1> DEFINE first == [row EXCEPT !.status = "processing"]
<1>2. first = [status |-> "processing", attemptCount |-> n, maxAttempts |-> m]
  OBVIOUS
<1> HIDE DEF first
<1>3. [first EXCEPT !.attemptCount = @ + 1]
        = [status |-> "processing", attemptCount |-> n + 1, maxAttempts |-> m]
  BY <1>2
<1> QED
  BY <1>1, <1>3 DEF first, Started

\* A step that changes the row of j is one of its life, or a drift if it came
\* loose.
LEMMA RowStep ==
    ASSUME TidyInv, [Next]_vars, NEW j \in Jobs, UNCHANGED disturbed,
           jobs' = [jobs EXCEPT ![j] = jobs'[j]],
           \/ \E r \in Requests : Create(r, j)
           \/ \E w \in Workers : wjob[w] = j
                 /\ (SaveProcessing(w) \/ SaveCompleted(w) \/ SaveFailed(w))
           \/ \E r \in Requests : rjob[r] = j /\ RetrySave(r)
    PROVE  Lifecycle!Next
<1> DEFINE before == LifecycleRow(jobs[j])
           after  == LifecycleRow(jobs'[j])
           rows   == [i \in Jobs |-> LifecycleRow(jobs[i])]
<1>0. TypeOK /\ TypeOK'
  BY TypeStep DEF TidyInv
<1>1. rows' = [rows EXCEPT ![j] = after] /\ rows[j] = before /\ rows'[j] = after
  BY <1>0 DEF TypeOK
<1>2. CASE \E r \in Requests : Create(r, j)
  <2>1. jobs[j] = None
    BY <1>2 DEF Create
  <2>2. PICK p \in Payloads, m \in AttemptLimits :
           jobs'[j] = [status |-> "queued", attemptCount |-> 0, maxAttempts |-> m, payload |-> p]
    BY <1>0, <1>2 DEF Create, TypeOK
  <2>3. jobs'[j] \in Row
    BY <2>2 DEF Row, Status
  <2>4. before = None
    BY <2>1 DEF LifecycleRow
  <2>5. after = [status |-> "queued", attemptCount |-> 0, maxAttempts |-> m]
    BY <2>2, <2>3, RowColumns
  <2>6. Lifecycle!Submit(j, m)
    BY <1>1, <2>4, <2>5 DEF Lifecycle!Submit
  <2> QED
    BY <2>6 DEF Lifecycle!Next
<1>3. CASE jobs'[j] \in Row /\ j \in disturbed
  <2>1. after \in Lifecycle!Row
    BY <1>3, RowColumns
  <2>2. Lifecycle!Drift(j)
    BY <1>1, <1>3, <2>1 DEF Lifecycle!Drift
  <2> QED
    BY <2>2 DEF Lifecycle!Next
<1>4. ASSUME NEW w \in Workers, wjob[w] = j,
             SaveProcessing(w) \/ SaveCompleted(w) \/ SaveFailed(w)
      PROVE  Lifecycle!Next
  <2>1. jobs'[j] \in Row
    BY <1>0, <1>4, Saves
  <2>2. ASSUME j \notin disturbed PROVE Lifecycle!Next
    <3>1. /\ jobs[j] \in Row
          /\ Prepared(went[w], wdiff[w], jobs[j]) /\ jobs'[j] = went[w]
          /\ SaveProcessing(w) => /\ Has(j, "queued") /\ went[w].status = "processing"
                                  /\ went[w].attemptCount = jobs[j].attemptCount + 1
          /\ ~SaveProcessing(w) => /\ Has(j, "processing")
                                   /\ went[w].status \in {"completed", "failed"}
                                   /\ went[w].attemptCount = jobs[j].attemptCount
      BY <1>0, <1>4, <2>2, TidySaves DEF TidyInv
    <3>2. /\ before # None
          /\ before = [status |-> jobs[j].status, attemptCount |-> jobs[j].attemptCount,
                       maxAttempts |-> jobs[j].maxAttempts]
      BY <3>1, RowColumns
    <3>3. after = [status |-> jobs'[j].status, attemptCount |-> jobs'[j].attemptCount,
                   maxAttempts |-> jobs[j].maxAttempts]
      BY <2>1, <3>1, RowColumns DEF Prepared
    <3>4. CASE SaveProcessing(w)
      <4>1. before.status = "queued"
        BY <3>1, <3>2, <3>4 DEF Has
      <4>2. after = [status |-> "processing", attemptCount |-> jobs[j].attemptCount + 1,
                     maxAttempts |-> jobs[j].maxAttempts]
        BY <3>1, <3>3, <3>4
      <4> HIDE DEF before, after
      <4>3. after = [before EXCEPT !.status = "processing", !.attemptCount = @ + 1]
        <5>1. after = Started(before)
          BY <3>2, <4>2, ColumnsStart
        <5> QED
          BY <5>1 DEF Started
      <4>4. rows' = [rows EXCEPT ![j].status = "processing", ![j].attemptCount = @ + 1]
        BY <1>1, <4>3
      <4>5. Lifecycle!Start(j)
        BY <1>1, <3>2, <4>1, <4>4 DEF Lifecycle!Start
      <4> QED
        BY <4>5 DEF Lifecycle!Next
    <3>5. CASE ~SaveProcessing(w)
      <4> DEFINE verdict == went[w].status
      <4>1. before.status = "processing" /\ verdict \in {"completed", "failed"}
        BY <3>1, <3>2, <3>5 DEF Has
      <4>2. after = [before EXCEPT !.status = verdict]
        BY <3>1, <3>2, <3>3, <3>5
      <4> HIDE DEF before, after, verdict
      <4>3. Lifecycle!Decide(j, verdict)
        BY <1>1, <3>2, <4>1, <4>2 DEF Lifecycle!Decide
      <4> QED
        BY <4>1, <4>3 DEF Lifecycle!Next
    <3> QED
      BY <3>4, <3>5
  <2> QED
    BY <1>3, <2>1, <2>2
<1>5. ASSUME NEW r \in Requests, rjob[r] = j, RetrySave(r) PROVE Lifecycle!Next
  <2>1. jobs'[j] \in Row
    BY <1>0, <1>5, RetrySaves
  <2>2. ASSUME j \notin disturbed PROVE Lifecycle!Next
    <3>1. /\ jobs[j] \in Row /\ Has(j, "failed") /\ Retryable(jobs[j])
          /\ Prepared(rent[r], rdiff[r], jobs[j]) /\ jobs'[j] = rent[r]
          /\ rent[r].status = "queued" /\ rent[r].attemptCount = jobs[j].attemptCount
      BY <1>0, <1>5, <2>2, TidyRetries DEF TidyInv
    <3>2. /\ before # None
          /\ before = [status |-> jobs[j].status, attemptCount |-> jobs[j].attemptCount,
                       maxAttempts |-> jobs[j].maxAttempts]
      BY <3>1, RowColumns
    <3>3. before.status = "failed" /\ before.attemptCount < before.maxAttempts
      BY <3>1, <3>2 DEF Has, Retryable
    <3>4. after = [before EXCEPT !.status = "queued"]
      <4>1. after = [status |-> "queued", attemptCount |-> jobs[j].attemptCount,
                     maxAttempts |-> jobs[j].maxAttempts]
        BY <2>1, <3>1, RowColumns DEF Prepared
      <4> QED
        BY <3>2, <4>1
    <3> HIDE DEF before, after
    <3>5. Lifecycle!Requeue(j)
      BY <1>1, <3>2, <3>3, <3>4 DEF Lifecycle!Requeue
    <3> QED
      BY <3>5 DEF Lifecycle!Next
  <2> QED
    BY <1>3, <2>1, <2>2
<1> QED
  BY <1>2, <1>4, <1>5

\* Every step is a step of JobLifecycle, or none.
LEMMA LifecycleStep == TidyInv /\ [Next]_vars => [Lifecycle!Next]_Lifecycle!vars
<1> SUFFICES ASSUME TidyInv, [Next]_vars PROVE [Lifecycle!Next]_Lifecycle!vars
  OBVIOUS
<1>1. CASE jobs' = jobs
  <2>1. disturbed' = disturbed \cup disturbed' /\ disturbed' \in SUBSET Jobs
    BY TypeStep, DisturbedGrows DEF TidyInv, TypeOK
  <2>2. Lifecycle!Loosen(disturbed')
    BY <1>1, <2>1 DEF Lifecycle!Loosen
  <2> QED
    BY <2>1, <2>2 DEF Lifecycle!Next
<1>2. CASE jobs' # jobs
  BY <1>2, RowChanges, RowStep DEF TidyInv
<1> QED
  BY <1>1, <1>2

\* Redelivery and overlapping retries are the only ways out of the life cycle
\* that the documentation draws.
THEOREM RowsLiveTheirLife == Spec => ImplementsLifecycle
<1>1. Init => Lifecycle!Init
  BY DEF Init, Lifecycle!Init, LifecycleRow
<1>2. TidyInv /\ [Next]_vars => [Lifecycle!Next]_Lifecycle!vars
  BY LifecycleStep
<1> QED
  BY <1>1, <1>2, TidyInit, TidyStep, PTL DEF Spec, ImplementsLifecycle, Lifecycle!Spec

-----------------------------------------------------------------------------
(* A job that failed for good is escalated. *)

\* The entity of every handler has the limit of its row, which never changes.
KeptInv ==
    /\ TypeOK
    /\ \A w \in Workers : wpc[w] \in InTry \ {"load"} =>
          jobs[wjob[w]] # None /\ went[w].maxAttempts = jobs[wjob[w]].maxAttempts

\* Nobody has an entity at first.
LEMMA KeptInit == Init => KeptInv
  BY TypeInit DEF Init, KeptInv, InTry, Owning, Auditing

\* Rows stay, with their limits.
LEMMA LimitKept ==
    ASSUME KeptInv, [Next]_vars, NEW j \in Jobs, jobs[j] # None
    PROVE  jobs'[j] # None /\ jobs'[j].maxAttempts = jobs[j].maxAttempts
<1>0. TypeOK
  BY DEF KeptInv
<1>1. CASE jobs' = jobs
  BY <1>1
<1>2. ASSUME NEW w \in Workers, wjob[w] = j, SaveProcessing(w) \/ SaveCompleted(w) \/ SaveFailed(w)
      PROVE  jobs'[j] # None /\ jobs'[j].maxAttempts = jobs[j].maxAttempts
  BY <1>0, <1>2, Saves, NoneAssumption
<1>3. ASSUME NEW r \in Requests, rjob[r] = j, RetrySave(r)
      PROVE  jobs'[j] # None /\ jobs'[j].maxAttempts = jobs[j].maxAttempts
  BY <1>0, <1>3, RetrySaves, NoneAssumption
<1>4. CASE jobs' # jobs
  <2>1. PICK i \in Jobs :
           /\ jobs' = [jobs EXCEPT ![i] = jobs'[i]]
           /\ \/ \E r \in Requests : Create(r, i)
              \/ \E w \in Workers : wjob[w] = i
                    /\ (SaveProcessing(w) \/ SaveCompleted(w) \/ SaveFailed(w))
              \/ \E r \in Requests : rjob[r] = i /\ RetrySave(r)
    BY <1>0, <1>4, RowChanges
  <2>2. i # j => jobs'[j] = jobs[j]
    BY <1>0, <2>1 DEF TypeOK
  <2>3. i = j => \A r \in Requests : ~Create(r, i)
    BY DEF Create
  <2> QED
    BY <1>2, <1>3, <2>1, <2>2, <2>3
<1> QED
  BY <1>1, <1>4

\* What a handler read it keeps, apart from the columns it sets.
LEMMA EntityKept ==
    ASSUME KeptInv, [Next]_vars, NEW w \in Workers, Acts(w), wpc'[w] \in InTry \ {"load"}
    PROVE  jobs'[wjob'[w]] # None /\ went'[w].maxAttempts = jobs'[wjob'[w]].maxAttempts
<1>0. TypeOK
  BY DEF KeptInv
<1>1. CASE LoadJob(w)
  BY <1>0, <1>1 DEF LoadJob, handling, storeVars, TypeOK
<1>2. CASE SaveProcessing(w) \/ SaveCompleted(w) \/ SaveFailed(w)
  <2>1. wpc[w] \in InTry \ {"load"} /\ wjob'[w] = wjob[w] /\ went'[w] = went[w]
    BY <1>2 DEF SaveProcessing, SaveCompleted, SaveFailed, InTry, Owning, handling
  <2>2. /\ wjob[w] \in Jobs /\ jobs[wjob[w]] # None
        /\ went[w].maxAttempts = jobs[wjob[w]].maxAttempts
    BY <1>0, <1>2, <2>1, Saves, NoneAssumption DEF KeptInv
  <2> QED
    BY <2>1, <2>2, LimitKept
<1>4. CASE SelectProcessing(w) \/ SelectCompleted(w) \/ SelectFailed(w)
  <2>1. /\ wpc[w] \in InTry \ {"load"}
        /\ UNCHANGED <<jobs, wjob>>
    BY <1>4 DEF SelectProcessing, SelectCompleted, SelectFailed, InTry, Owning, handling, storeVars
  <2>2. /\ jobs[wjob[w]] # None
        /\ went[w].maxAttempts = jobs[wjob[w]].maxAttempts
        /\ went'[w].maxAttempts = went[w].maxAttempts
    BY <1>0, <1>4, <2>1, Selects DEF KeptInv
  <2> QED
    BY <2>1, <2>2
<1>3. CASE /\ ~LoadJob(w) /\ ~SelectProcessing(w) /\ ~SelectCompleted(w) /\ ~SelectFailed(w)
           /\ ~SaveProcessing(w) /\ ~SaveCompleted(w) /\ ~SaveFailed(w)
  <2>1. wpc[w] \in InTry \ {"load"} /\ wjob'[w] = wjob[w] /\ went'[w] = went[w]
    <3> USE <1>0 DEF TypeOK, Goto, handling
    <3>1. CASE DelResent(w) \/ ConsumerCancelled(w)
      BY <3>1 DEF DelResent, ConsumerCancelled, workerVars
    <3>2. CASE \/ AnnounceProcessing(w) \/ AuditProcessing(w) \/ InsertAttempt(w)
               \/ \E f \in BOOLEAN : FinishAttempt(w, f)
      BY <3>2 DEF AnnounceProcessing, AuditProcessing, InsertAttempt, FinishAttempt, InTry, Owning
    <3>3. CASE \/ RaiseAlert(w) \/ OpenIncident(w) \/ NotifyOutcome(w) \/ AuditOutcome(w)
               \/ AuditAlert(w) \/ AuditIncident(w)
      BY <3>3 DEF RaiseAlert, OpenIncident, NotifyOutcome, AuditOutcome, AuditAlert, AuditIncident,
         InTry, Owning, Auditing
    <3>4. CASE \/ \E j \in Jobs : Deliver(w, j)
               \/ AcquireLock(w) \/ LockBusy(w) \/ AttemptConflict(w) \/ PublishOutcome(w)
               \/ PublishRefused(w) \/ Release(w) \/ Settle(w)
               \/ HandlerThrows(w) \/ RedisThrows(w) \/ Crash(w) \/ EndsWith(w) \/ SetResent(w)
      <4>1. wpc'[w] \in {"idle", "lock", "load", "release", "settle"}
        BY <3>4 DEF Deliver, AcquireLock, LockBusy, AttemptConflict, PublishOutcome,
           PublishRefused, Throw, Release, Settle, Vacate, HandlerThrows, RedisThrows, Crash,
           EndsWith, SetResent
      <4> QED
        BY <4>1 DEF InTry, Owning, Auditing
    <3> QED
      BY <1>3, <3>1, <3>2, <3>3, <3>4 DEF Acts, WorkerStep
  <2>2. wjob[w] \in Jobs /\ jobs[wjob[w]] # None
        /\ went[w].maxAttempts = jobs[wjob[w]].maxAttempts
    BY <1>0, <2>1 DEF KeptInv, TypeOK, InTry, Owning, Auditing
  <2> QED
    BY <2>1, <2>2, LimitKept
<1> QED
  BY <1>1, <1>2, <1>3, <1>4

\* Limits are kept by every step.
LEMMA KeptStep == KeptInv /\ [Next]_vars => KeptInv'
<1> SUFFICES ASSUME KeptInv, [Next]_vars PROVE KeptInv'
  OBVIOUS
<1>0. TypeOK /\ TypeOK'
  BY TypeStep DEF KeptInv
<1>1. ASSUME NEW w \in Workers, wpc'[w] \in InTry \ {"load"}
      PROVE  jobs'[wjob'[w]] # None /\ went'[w].maxAttempts = jobs'[wjob'[w]].maxAttempts
  <2>1. CASE UNCHANGED <<wpc[w], wjob[w], went[w]>>
    <3>1. wjob[w] \in Jobs
      BY <1>0, <1>1, <2>1 DEF TypeOK, InTry, Owning, Auditing
    <3> QED
      BY <1>1, <2>1, <3>1, LimitKept DEF KeptInv
  <2>2. Acts(w) \/ UNCHANGED <<wpc[w], wjob[w], went[w]>>
    BY <1>0, StepKinds, ActsFrame, ServesFrame, PassesFrame
  <2> QED
    BY <1>1, <2>1, <2>2, EntityKept
<1> QED
  BY <1>0, <1>1 DEF KeptInv

\* Handler w is going to leave the row of j with the count of an attempt of its own
\* to show for it, or is going to give up the message.  At its final UPDATE that is
\* so if the row counts this attempt already, or the UPDATE writes the count.
Follows(w, j) ==
    /\ wjob[w] = j
    /\ \/ wpc[w] \in Undecided \ {"savecompleted", "savefailed"}
       \/ /\ wpc[w] \in {"savecompleted", "savefailed"}
          /\ went[w].attemptCount = jobs[j].attemptCount \/ "attemptCount" \in wdiff[w]
       \/ wpc[w] \in {"release", "settle"} /\ ~wack[w]

\* Some execution is still going to follow the failure that the row of j counts.
Followed(j) ==
    \/ queue[j] > 0
    \/ \E w \in Workers : Follows(w, j)
    \/ \E r \in Requests : rjob[r] = j /\ rpc[r] \in BeforeEnqueue

\* The handler of w decides job j, and the row then counts its attempt.
DecidesCounted(w, j) ==
    /\ wjob[w] = j /\ (SaveCompleted(w) \/ SaveFailed(w))
    /\ went[w].attemptCount = jobs'[j].attemptCount

\* A handler that leaves the rows and its entity alone goes on following.
LEMMA FollowsOn ==
    ASSUME TypeOK, NEW w \in Workers, NEW j \in Jobs, Follows(w, j),
           UNCHANGED <<wpc[w], wjob[w], went[w], wdiff[w], wack[w]>>,
           jobs'[j].attemptCount = jobs[j].attemptCount
    PROVE  Follows(w, j)'
  BY DEF Follows

\* A step of a handler that follows j keeps j followed, gives it up or decides it.
LEMMA FollowerActs ==
    ASSUME TypeOK, NEW w \in Workers, Acts(w), NEW j \in Jobs, Follows(w, j),
           jobs'[j].attemptCount = jobs[j].attemptCount
    PROVE  Followed(j)' \/ j \in dropped' \/ DecidesCounted(w, j)
<1> USE DEF TypeOK, Goto
<1>0. wjob[w] = j /\ wpc[w] # "idle"
  BY DEF Follows, Undecided
<1>1. CASE \/ AcquireLock(w) \/ LoadJob(w) \/ AnnounceProcessing(w) \/ AuditProcessing(w)
           \/ InsertAttempt(w) \/ \E f \in BOOLEAN : FinishAttempt(w, f)
           \/ SelectProcessing(w) \/ SaveProcessing(w)
  <2>1. wjob'[w] = j /\ wpc'[w] \in Undecided \ {"savecompleted", "savefailed"}
    BY <1>0, <1>1 DEF AcquireLock, LoadJob, AnnounceProcessing, AuditProcessing, InsertAttempt,
       FinishAttempt, SelectProcessing, SaveProcessing, handling, Undecided
  <2> QED
    BY <2>1 DEF Follows, Followed
<1>2. CASE SelectCompleted(w) \/ SelectFailed(w)
  <2>1. wjob'[w] = j /\ wpc'[w] \in {"savecompleted", "savefailed"} /\ UNCHANGED jobs
    BY <1>0, <1>2 DEF SelectCompleted, SelectFailed, handling, storeVars
  <2>2. PICK entity \in Row : /\ jobs[j] \in Row /\ went'[w] = entity
                              /\ wdiff'[w] = Diff(entity, jobs[j])
    BY <1>0, <1>2, Selects
  <2>3. went'[w].attemptCount = jobs[j].attemptCount \/ "attemptCount" \in wdiff'[w]
    BY <2>2, DiffColumns
  <2> QED
    BY <2>1, <2>3 DEF Follows, Followed
<1>3. CASE SaveCompleted(w) \/ SaveFailed(w)
  <2>1. wpc[w] \in {"savecompleted", "savefailed"}
    BY <1>3 DEF SaveCompleted, SaveFailed
  <2>2. went[w].attemptCount = jobs[j].attemptCount \/ "attemptCount" \in wdiff[w]
    BY <2>1 DEF Follows, Undecided
  <2>3. went[w].attemptCount = jobs'[j].attemptCount
    BY <1>0, <1>3, <2>2, Saves
  <2> QED
    BY <1>0, <1>3, <2>3 DEF DecidesCounted
<1>4. CASE AttemptConflict(w) \/ PublishRefused(w) \/ HandlerThrows(w) \/ RedisThrows(w)
  <2>1. wjob'[w] = j /\ wpc'[w] \in {"release", "settle"} /\ ~wack'[w]
    BY <1>0, <1>4 DEF AttemptConflict, PublishRefused, HandlerThrows, RedisThrows, Throw
  <2> QED
    BY <2>1 DEF Follows, Followed
<1>5. CASE Release(w)
  <2>1. wjob'[w] = j /\ wpc'[w] = "settle" /\ ~wack'[w]
    BY <1>0, <1>5 DEF Release, Follows, Undecided
  <2> QED
    BY <2>1 DEF Follows, Followed
<1>6. CASE LockBusy(w) \/ SetResent(w) \/ Settle(w) \/ EndsWith(w)
  BY <1>0, <1>6 DEF LockBusy, SetResent, Settle, EndsWith, Follows, Undecided
<1>7. CASE Crash(w)
  <2>1. CASE wlink[w] = "closed"
    BY <1>0, <1>7, <2>1 DEF Crash
  <2>2. CASE wlink[w] # "closed"
    <3>1. queue'[j] = queue[j] + 1 /\ queue[j] \in Nat
      BY <1>0, <1>7, <2>2 DEF Crash, Redeliver
    <3> QED
      BY <3>1 DEF Followed
  <2> QED
    BY <2>1, <2>2
<1>8. CASE DelResent(w) \/ ConsumerCancelled(w)
  <2>1. UNCHANGED <<wpc[w], wjob[w], went[w], wdiff[w], wack[w]>>
    BY <1>8 DEF DelResent, ConsumerCancelled, workerVars
  <2> QED
    BY <2>1, FollowsOn DEF Followed
<1>9. CASE \/ \E i \in Jobs : Deliver(w, i)
           \/ RaiseAlert(w) \/ OpenIncident(w) \/ NotifyOutcome(w) \/ AuditOutcome(w)
           \/ AuditAlert(w) \/ AuditIncident(w) \/ PublishOutcome(w)
  BY <1>0, <1>9 DEF Deliver, RaiseAlert, OpenIncident, NotifyOutcome, AuditOutcome, AuditAlert,
     AuditIncident, PublishOutcome, Follows, Undecided
<1> QED
  BY <1>1, <1>2, <1>3, <1>4, <1>5, <1>6, <1>7, <1>8, <1>9 DEF Acts, WorkerStep

\* The message or the request of a followed job follows it on.
LEMMA MessageFollows ==
    ASSUME TypeOK, [Next]_vars, NEW j \in Jobs,
           queue[j] > 0 \/ \E r \in Requests : rjob[r] = j /\ rpc[r] \in BeforeEnqueue
    PROVE  Followed(j)' \/ j \in dropped'
<1> USE DEF TypeOK
<1>1. ASSUME NEW w \in Workers, Acts(w) PROVE Followed(j)' \/ j \in dropped'
  <2>1. CASE Deliver(w, j)
    <3>1. wjob'[w] = j /\ wpc'[w] = "lock"
      BY <2>1 DEF Deliver, Goto
    <3> QED
      BY <3>1 DEF Followed, Follows, Undecided
  <2>2. CASE ~Deliver(w, j)
    <3>1. queue[j] > 0 => queue'[j] > 0
      <4>1. CASE Crash(w)
        BY <4>1 DEF Crash, Redeliver
      <4>2. CASE \E i \in Jobs : Deliver(w, i)
        <5>1. PICK i \in Jobs : Deliver(w, i)
          BY <4>2
        <5>2. i # j
          BY <2>2, <5>1
        <5> QED
          BY <5>1, <5>2 DEF Deliver
      <4>3. CASE UNCHANGED queue
        BY <4>3
      <4> QED
        BY <1>1, <4>1, <4>2, <4>3 DEF Acts, WorkerStep, AcquireLock, LockBusy, LoadJob, SelectProcessing,
           SaveProcessing, AnnounceProcessing, AuditProcessing, InsertAttempt, AttemptConflict,
           FinishAttempt, SelectCompleted, SaveCompleted, SelectFailed, SaveFailed, RaiseAlert,
           OpenIncident, NotifyOutcome, AuditOutcome, AuditAlert, AuditIncident, PublishOutcome,
           PublishRefused, Release, Settle, HandlerThrows, RedisThrows, EndsWith, SetResent,
           DelResent, ConsumerCancelled, handling
    <3>2. UNCHANGED <<rpc, rjob>>
      BY <1>1, ActsFrame
    <3> QED
      BY <3>1, <3>2 DEF Followed
  <2> QED
    BY <2>1, <2>2
<1>2. ASSUME NEW r \in Requests, Serves(r) PROVE Followed(j)' \/ j \in dropped'
  <2>1. /\ queue[j] \in Nat
        /\ queue[j] > 0 => queue'[j] > 0
    BY <1>2 DEF Serves, RequestStep, Create, RetryLoad, RetryReject, RetrySelect, RetrySave,
       RecordCommand, NotifyQueued, Enqueue, Emit, SendRefused, RequestAborts, EnqueueLost, serving
  <2>2. CASE rjob[r] = j /\ rpc[r] \in BeforeEnqueue
    <3>1. CASE RecordCommand(r) \/ NotifyQueued(r)
      <4>1. rjob'[r] = j /\ rpc'[r] \in BeforeEnqueue
        BY <2>2, <3>1 DEF RecordCommand, NotifyQueued, serving, BeforeEnqueue
      <4> QED
        BY <4>1 DEF Followed
    <3>2. CASE Enqueue(r)
      <4>1. queue'[j] = queue[j] + 1
        BY <2>2, <3>2 DEF Enqueue
      <4> QED
        BY <2>1, <4>1 DEF Followed
    <3>3. CASE SendRefused(r) \/ RequestAborts(r) \/ EnqueueLost(r)
      BY <2>2, <3>3 DEF SendRefused, RequestAborts, EnqueueLost, BeforeEnqueue
    <3> QED
      BY <1>2, <2>2, <3>1, <3>2, <3>3 DEF Serves, RequestStep, Create, RetryLoad, RetryReject,
         RetrySelect, RetrySave, Emit, BeforeEnqueue
  <2>3. ASSUME NEW q \in Requests \ {r}, rjob[q] = j /\ rpc[q] \in BeforeEnqueue
        PROVE  Followed(j)'
    <3>1. rjob'[q] = j /\ rpc'[q] \in BeforeEnqueue
      BY <1>2, <2>3, ServesFrame
    <3> QED
      BY <3>1 DEF Followed
  <2>4. CASE queue[j] > 0
    BY <2>1, <2>4 DEF Followed
  <2> QED
    BY <2>2, <2>3, <2>4
<1>3. CASE Passes
  <2>1. queue[j] > 0 => queue'[j] > 0
    BY <1>3, Requeued DEF Passes, BrokerShutsDown, LockExpires, Finished, vars
  <2>2. UNCHANGED <<rpc, rjob>>
    BY <1>3, PassesFrame
  <2> QED
    BY <2>1, <2>2 DEF Followed
<1> QED
  BY <1>1, <1>2, <1>3, StepKinds

\* Who follows a job hands it on, gives it up, or decides it.
LEMMA FollowedKept ==
    ASSUME TypeOK, [Next]_vars, NEW j \in Jobs, Followed(j),
           jobs'[j].attemptCount = jobs[j].attemptCount
    PROVE  Followed(j)' \/ j \in dropped' \/ \E w \in Workers : DecidesCounted(w, j)
<1>1. ASSUME NEW w \in Workers, Follows(w, j)
      PROVE  Followed(j)' \/ j \in dropped' \/ \E v \in Workers : DecidesCounted(v, j)
  <2>1. CASE Acts(w)
    BY <1>1, <2>1, FollowerActs
  <2>2. CASE UNCHANGED <<wpc[w], wjob[w], went[w], wdiff[w], wack[w]>>
    BY <1>1, <2>2, FollowsOn DEF Followed
  <2>3. Acts(w) \/ UNCHANGED <<wpc[w], wjob[w], went[w], wdiff[w], wack[w]>>
    BY StepKinds, ActsFrame, ServesFrame, PassesFrame
  <2> QED
    BY <2>1, <2>2, <2>3
<1> QED
  BY <1>1, MessageFollows DEF Followed

\* The handler of w is about to escalate the failure that the row of j counts.
Escalates(w, j) ==
    /\ wjob[w] = j /\ wpc[w] \in {"alert", "incident"}
    /\ went[w].attemptCount = jobs[j].attemptCount

\* What EscalationConserved asks for j, of those who follow it.
Escalated(j) ==
    \/ [job |-> j, number |-> jobs[j].attemptCount] \in incidents
    \/ \E w \in Workers : Escalates(w, j)
    \/ Followed(j)
    \/ j \in dropped

\* The last attempt that job j may make has failed.
FailedForGood(j) ==
    /\ jobs[j] # None /\ Exhausted(jobs[j])
    /\ Attempt(j, jobs[j].attemptCount, "failed") \in attempts

\* What the escalations rest on.
EscalationInv ==
    /\ KeptInv /\ RecordInv /\ Unique
    /\ \A j \in Jobs : FailedForGood(j) => Escalated(j)

\* Who follows a job backs it.
LEMMA EscalatedBacks == EscalationInv => EscalationConserved
<1> SUFFICES ASSUME EscalationInv, NEW j \in Jobs, FailedForGood(j)
             PROVE  \/ [job |-> j, number |-> jobs[j].attemptCount] \in incidents
                    \/ \E w \in Workers : /\ wjob[w] = j /\ wpc[w] \in {"alert", "incident"}
                                          /\ went[w].attemptCount = jobs[j].attemptCount
                    \/ Backed(j)
                    \/ j \in dropped
  BY DEF EscalationConserved, FailedForGood
<1>1. Followed(j) => Backed(j)
  BY DEF Followed, Follows, Backed, Undecided
<1> QED
  BY <1>1 DEF EscalationInv, Escalated, Escalates

\* Jobs that the code gave up on stay given up.
LEMMA DroppedGrows == ASSUME [Next]_vars PROVE dropped \subseteq dropped'
<1>1. ASSUME NEW w \in Workers, Acts(w) PROVE dropped \subseteq dropped'
  BY <1>1 DEF Acts, WorkerStep, Deliver, AcquireLock, LockBusy, LoadJob, SelectProcessing,
         SaveProcessing, AnnounceProcessing, AuditProcessing, InsertAttempt, AttemptConflict,
         FinishAttempt, SelectCompleted, SaveCompleted, SelectFailed, SaveFailed, RaiseAlert,
         OpenIncident, NotifyOutcome, AuditOutcome, AuditAlert, AuditIncident, PublishOutcome,
         PublishRefused, Release, Settle, HandlerThrows, RedisThrows, Crash, EndsWith, SetResent,
         DelResent, ConsumerCancelled, handling, history
<1>2. ASSUME NEW r \in Requests, Serves(r) PROVE dropped \subseteq dropped'
  BY <1>2 DEF Serves, RequestStep, Create, RetryLoad, RetryReject, RetrySelect, RetrySave,
         RecordCommand, NotifyQueued, Enqueue, Emit, SendRefused, RequestAborts, EnqueueLost,
         serving, history
<1>3. CASE Passes
  BY <1>3 DEF Passes, BrokerShutsDown, LockExpires, Finished, vars, history
<1> QED
  BY <1>1, <1>2, <1>3, StepKinds

\* A handler that is about to escalate does, or leaves the job to its message.
LEMMA EscalatesOn ==
    ASSUME KeptInv, [Next]_vars, NEW w \in Workers, Acts(w), NEW j \in Jobs,
           Escalates(w, j), jobs[j] # None, Exhausted(jobs[j]),
           jobs'[j].attemptCount = jobs[j].attemptCount
    PROVE  Escalated(j)'
<1>0. TypeOK /\ went[w].maxAttempts = jobs[j].maxAttempts
  BY DEF KeptInv, Escalates, InTry, Owning
<1>1. CASE RaiseAlert(w)
  <2>1. Exhausted(went[w])
    BY <1>0 DEF Exhausted, Escalates
  <2>2. wpc'[w] = "incident" /\ UNCHANGED <<wjob, went>>
    BY <1>0, <1>1, <2>1 DEF RaiseAlert, Goto, handling, TypeOK
  <2> QED
    BY <2>2 DEF Escalates, Escalated
<1>2. CASE OpenIncident(w)
  BY <1>2 DEF OpenIncident, Escalates, Escalated
<1>3. CASE HandlerThrows(w)
  <2>1. wjob'[w] = j /\ wpc'[w] = "release" /\ ~wack'[w]
    BY <1>0, <1>3 DEF HandlerThrows, Throw, Goto, TypeOK, Escalates
  <2> QED
    BY <2>1 DEF Follows, Followed, Escalated
<1>4. CASE Crash(w)
  <2>1. CASE wlink[w] = "closed"
    BY <1>4, <2>1 DEF Crash, Escalates, Escalated
  <2>2. CASE wlink[w] # "closed"
    <3>1. queue'[j] = queue[j] + 1 /\ queue[j] \in Nat
      BY <1>0, <1>4, <2>2 DEF Crash, Redeliver, TypeOK, Escalates
    <3> QED
      BY <3>1 DEF Followed, Escalated
  <2> QED
    BY <2>1, <2>2
<1>5. CASE ConsumerCancelled(w)
  BY <1>5 DEF ConsumerCancelled, Escalates, Escalated
<1>6. CASE EndsWith(w)
  BY <1>6 DEF EndsWith, Escalates, Escalated
<1> QED
  BY <1>1, <1>2, <1>3, <1>4, <1>5, <1>6 DEF Escalates, Acts, WorkerStep, Deliver, AcquireLock, LockBusy,
     LoadJob, SelectProcessing, SaveProcessing, AnnounceProcessing, AuditProcessing,
     InsertAttempt, AttemptConflict, FinishAttempt, SelectCompleted, SaveCompleted, SelectFailed,
     SaveFailed, NotifyOutcome, AuditOutcome, AuditAlert, AuditIncident, PublishOutcome,
     PublishRefused, Publishing, Release, Settle, RedisThrows, SetResent, DelResent, Auditing

\* A save that changes the count of a row is that of somebody who follows the job,
\* or decides it.
LEMMA CountChanges ==
    ASSUME TypeOK, [Next]_vars, NEW j \in Jobs, jobs'[j] # None, Exhausted(jobs'[j]),
           jobs[j] = None \/ jobs'[j].attemptCount # jobs[j].attemptCount
    PROVE  Followed(j)' \/ \E w \in Workers : DecidesCounted(w, j)
<1>1. PICK i \in Jobs :
         /\ jobs' = [jobs EXCEPT ![i] = jobs'[i]]
         /\ \/ \E r \in Requests : Create(r, i)
            \/ \E w \in Workers : wjob[w] = i
                  /\ (SaveProcessing(w) \/ SaveCompleted(w) \/ SaveFailed(w))
            \/ \E r \in Requests : rjob[r] = i /\ RetrySave(r)
  BY RowChanges
<1>2. i = j
  BY <1>1 DEF TypeOK
<1>3. ASSUME NEW r \in Requests, Create(r, j) PROVE FALSE
  <2>1. PICK p \in Payloads, m \in AttemptLimits :
           jobs'[j] = [status |-> "queued", attemptCount |-> 0, maxAttempts |-> m, payload |-> p]
    BY <1>3 DEF Create, TypeOK
  <2>2. jobs'[j].attemptCount = 0 /\ jobs'[j].maxAttempts = m
    BY <2>1
  <2>3. m \in Nat \ {0}
    BY LimitsAssumption
  <2> QED
    BY <2>2, <2>3 DEF Exhausted
<1>4. ASSUME NEW w \in Workers, wjob[w] = j, SaveProcessing(w) PROVE Followed(j)'
  <2>1. wjob'[w] = j /\ wpc'[w] = "announce"
    BY <1>4 DEF SaveProcessing, Goto, handling, TypeOK
  <2> QED
    BY <2>1 DEF Followed, Follows, Undecided
<1>5. ASSUME NEW w \in Workers, wjob[w] = j, SaveCompleted(w) \/ SaveFailed(w)
      PROVE  DecidesCounted(w, j)
  <2>1. went[w].attemptCount = jobs'[j].attemptCount
    BY <1>5, Saves, NoneAssumption
  <2> QED
    BY <1>5, <2>1 DEF DecidesCounted
<1>6. ASSUME NEW r \in Requests, rjob[r] = j, RetrySave(r) PROVE Followed(j)'
  <2>1. rjob'[r] = j /\ rpc'[r] = "record"
    BY <1>6 DEF RetrySave, TypeOK
  <2> QED
    BY <2>1 DEF Followed, BeforeEnqueue
<1> QED
  BY <1>1, <1>2, <1>3, <1>4, <1>5, <1>6

\* A handler that decides a job which failed for good is about to escalate.
LEMMA DeciderEscalates ==
    ASSUME RecordInv, Unique', [Next]_vars, NEW w \in Workers, NEW j \in Jobs,
           DecidesCounted(w, j), FailedForGood(j)'
    PROVE  Escalates(w, j)'
<1>0. TypeOK /\ OwnerInv
  BY DEF RecordInv, OwnerInv
<1>1. CASE SaveFailed(w)
  <2>1. wpc'[w] = "alert" /\ UNCHANGED <<wjob, went>>
    BY <1>0, <1>1 DEF SaveFailed, Goto, handling, TypeOK
  <2> QED
    BY <2>1 DEF DecidesCounted, Escalates
<1>2. CASE SaveCompleted(w)
  <2> DEFINE n == jobs'[j].attemptCount
  <2>1. Attempt(j, n, "succeeded") \in attempts
    BY <1>2 DEF SaveCompleted, DecidesCounted, RecordInv, Recorded
  <2>2. Attempt(j, n, "succeeded") \in attempts'
    BY <1>0, <2>1, FinalStep DEF Attempt
  <2>3. Attempt(j, n, "failed") \in attempts'
    BY DEF FailedForGood, Attempt
  <2> QED
    BY <2>2, <2>3 DEF Unique, Attempt
<1> QED
  BY <1>1, <1>2 DEF DecidesCounted

\* Escalations are conserved by every step, faults included.
LEMMA EscalationStep == EscalationInv /\ [Next]_vars => EscalationInv'
<1> SUFFICES ASSUME EscalationInv, [Next]_vars PROVE EscalationInv'
  OBVIOUS
<1>0. KeptInv /\ RecordInv /\ Unique /\ OwnerInv /\ TypeOK
  BY DEF EscalationInv, RecordInv, OwnerInv
<1>1. KeptInv' /\ RecordInv' /\ Unique'
  BY <1>0, KeptStep, RecordStep, UniqueStep
<1>2. ASSUME NEW j \in Jobs, FailedForGood(j)' PROVE Escalated(j)'
  <2>0. jobs'[j] # None /\ Exhausted(jobs'[j])
    BY <1>2 DEF FailedForGood, Exhausted
  <2>1. ASSUME NEW w \in Workers, DecidesCounted(w, j) PROVE Escalated(j)'
    BY <1>0, <1>1, <1>2, <2>1, DeciderEscalates DEF Escalated
  <2>2. CASE jobs[j] = None \/ jobs'[j].attemptCount # jobs[j].attemptCount
    BY <1>0, <2>0, <2>1, <2>2, CountChanges DEF Escalated
  <2>3. ASSUME jobs[j] # None, jobs'[j].attemptCount = jobs[j].attemptCount PROVE Escalated(j)'
    <3> DEFINE n == jobs[j].attemptCount
    <3>1. Exhausted(jobs[j])
      BY <1>0, <2>0, <2>3, LimitKept DEF Exhausted
    <3>2. CASE Attempt(j, n, "failed") \notin attempts
      <4>1. Attempt(j, n, "failed") \in attempts'
        BY <1>2, <2>3 DEF FailedForGood, Attempt
      <4>2. PICK w \in Workers, f \in BOOLEAN : FinishAttempt(w, f) /\ j = wjob[w]
        BY <1>0, <3>2, <4>1, DecidedAttempts DEF Attempt
      <4>3. wjob'[w] = j /\ wpc'[w] \in {"selectcompleted", "selectfailed"}
        BY <1>0, <4>2 DEF FinishAttempt, Goto, handling, TypeOK
      <4> QED
        BY <4>3 DEF Escalated, Followed, Follows, Undecided
    <3>3. CASE Attempt(j, n, "failed") \in attempts
      <4>1. Escalated(j)
        BY <2>3, <3>1, <3>3 DEF EscalationInv, FailedForGood
      <4>2. CASE [job |-> j, number |-> n] \in incidents
        BY <1>0, <2>3, <4>2, RecordsGrow DEF Escalated
      <4>3. ASSUME NEW w \in Workers, Escalates(w, j) PROVE Escalated(j)'
        <5>1. CASE UNCHANGED <<wpc[w], wjob[w], went[w]>>
          BY <2>3, <4>3, <5>1 DEF Escalates, Escalated
        <5>2. Acts(w) \/ UNCHANGED <<wpc[w], wjob[w], went[w]>>
          BY <1>0, StepKinds, ActsFrame, ServesFrame, PassesFrame
        <5> QED
          BY <1>0, <2>3, <3>1, <4>3, <5>1, <5>2, EscalatesOn
      <4>4. CASE Followed(j)
        BY <1>0, <2>1, <2>3, <4>4, FollowedKept DEF Escalated
      <4>5. CASE j \in dropped
        BY <4>5, DroppedGrows DEF Escalated
      <4> QED
        BY <4>1, <4>2, <4>3, <4>4, <4>5 DEF Escalated
    <3> QED
      BY <3>2, <3>3
  <2> QED
    BY <2>2, <2>3
<1> QED
  BY <1>1, <1>2 DEF EscalationInv

\* A crash between the decision of the last attempt and the insert of its incident
\* does not lose the escalation, nor does a late save that leaves another status,
\* or another count, next to it.
THEOREM EscalationsAreConserved == Spec => []EscalationConserved
<1>1. Init => EscalationInv
  <2>1. Init => Unique /\ \A j \in Jobs : ~FailedForGood(j)
    BY DEF Init, Unique, FailedForGood
  <2> QED
    BY <2>1, KeptInit, RecordInit DEF EscalationInv
<1> QED
  BY <1>1, EscalationStep, EscalatedBacks, PTL DEF Spec

-----------------------------------------------------------------------------
(* Rows, alerts and retries agree with the attempts. *)

\* Where a handler is that set out to count an attempt and did not insert its row.
BeforeInsert == {"claim", "announce", "auditstart", "attempt"}

\* Where it comes from otherwise it keeps its entity.
LEMMA EntityStays ==
    ASSUME TypeOK, NEW w \in Workers, Acts(w), ~SelectProcessing(w), wpc'[w] \in BeforeInsert
    PROVE  /\ wpc[w] \in BeforeInsert /\ UNCHANGED <<wjob[w], went[w]>>
           /\ wpc'[w] = "claim" => wpc[w] = "claim"
<1> USE DEF BeforeInsert, TypeOK, Goto, handling
<1>1. CASE DelResent(w) \/ ConsumerCancelled(w)
  BY <1>1 DEF DelResent, ConsumerCancelled, workerVars
<1>2. CASE SaveProcessing(w) \/ AnnounceProcessing(w) \/ AuditProcessing(w)
  BY <1>2 DEF SaveProcessing, AnnounceProcessing, AuditProcessing
<1>3. CASE \/ \E j \in Jobs : Deliver(w, j)
           \/ AcquireLock(w) \/ LockBusy(w) \/ LoadJob(w) \/ InsertAttempt(w)
           \/ AttemptConflict(w) \/ (\E f \in BOOLEAN : FinishAttempt(w, f))
           \/ SelectCompleted(w) \/ SelectFailed(w)
           \/ SaveCompleted(w) \/ SaveFailed(w) \/ RaiseAlert(w) \/ OpenIncident(w)
           \/ NotifyOutcome(w) \/ AuditOutcome(w) \/ AuditAlert(w) \/ AuditIncident(w)
           \/ PublishOutcome(w) \/ PublishRefused(w) \/ Release(w) \/ Settle(w)
           \/ HandlerThrows(w) \/ RedisThrows(w) \/ Crash(w) \/ EndsWith(w) \/ SetResent(w)
  <2>1. wpc'[w] \notin BeforeInsert
    BY <1>3 DEF Deliver, AcquireLock, LockBusy, LoadJob, InsertAttempt, AttemptConflict,
       FinishAttempt, SelectCompleted, SaveCompleted, SelectFailed, SaveFailed, RaiseAlert,
       OpenIncident, NotifyOutcome, AuditOutcome, AuditAlert, AuditIncident, PublishOutcome,
       PublishRefused, Throw, Release, Settle, Vacate, HandlerThrows, RedisThrows, Crash,
       EndsWith, SetResent
  <2> QED
    BY <2>1
<1> QED
  BY <1>1, <1>2, <1>3 DEF Acts, WorkerStep

\* A decided row has an execution behind it, whose outcome is on record for good;
\* whoever saves another status says so in its entity.
RowsInv ==
    /\ RecordInv /\ TidyInv /\ RowsTruthful
    /\ \A w \in Workers : wpc[w] = "claim" => went[w].status = "processing"
    /\ \A r \in Requests : rpc[r] \in BeforeSave => rent[r].status = "queued"

\* There are no rows at first.
LEMMA RowsInit == Init => RowsInv
  BY RecordInit, TidyInit DEF Init, RowsInv, RowsTruthful, BeforeSave

\* The status of an entity says what its save is about.
LEMMA EntitiesNamed ==
    ASSUME RowsInv, [Next]_vars
    PROVE  /\ \A w \in Workers : wpc'[w] = "claim" => went'[w].status = "processing"
           /\ \A r \in Requests : rpc'[r] \in BeforeSave => rent'[r].status = "queued"
<1>0. TypeOK
  BY DEF RowsInv, TidyInv
<1>1. ASSUME NEW w \in Workers, wpc'[w] = "claim" PROVE went'[w].status = "processing"
  <2>1. CASE SelectProcessing(w)
    BY <1>0, <2>1, Selects
  <2>2. CASE wpc[w] = "claim" /\ UNCHANGED went[w]
    BY <2>2 DEF RowsInv
  <2>3. ASSUME Acts(w), ~SelectProcessing(w) PROVE wpc[w] = "claim" /\ UNCHANGED went[w]
    BY <1>0, <1>1, <2>3, EntityStays DEF BeforeInsert
  <2> QED
    BY <1>0, <1>1, <2>1, <2>2, <2>3, StepKinds, ActsFrame, ServesFrame, PassesFrame
<1>2. ASSUME NEW r \in Requests, rpc'[r] \in BeforeSave PROVE rent'[r].status = "queued"
  <2>1. ASSUME NEW j \in Jobs, RetryLoad(r, j) PROVE rent'[r].status = "queued"
    BY <1>0, <2>1, NoneAssumption DEF RetryLoad, TypeOK, Row
  <2>2. CASE rpc[r] \in BeforeSave /\ UNCHANGED rent[r]
    BY <2>2 DEF RowsInv
  <2>3. ASSUME Serves(r), \A j \in Jobs : ~RetryLoad(r, j)
        PROVE  rpc[r] \in BeforeSave /\ UNCHANGED rent[r]
    BY <1>0, <1>2, <2>3
       DEF Serves, RequestStep, Create, RetryReject, RetrySelect, RetrySave, RecordCommand,
           NotifyQueued, Enqueue, Emit, SendRefused, RequestAborts, EnqueueLost, serving, BeforeSave,
           TypeOK
  <2> QED
    BY <1>0, <1>2, <2>1, <2>2, <2>3, StepKinds, ActsFrame, ServesFrame, PassesFrame
<1> QED
  BY <1>1, <1>2

\* Outcomes reach the row of a job after its attempt, which never changes again.
LEMMA RowsStep == RowsInv /\ [Next]_vars => RowsInv'
<1> SUFFICES ASSUME RowsInv, [Next]_vars PROVE RowsInv'
  OBVIOUS
<1>0. RecordInv /\ OwnerInv /\ TidyInv /\ TypeOK
  BY DEF RowsInv, RecordInv, OwnerInv
<1>1. RecordInv' /\ TidyInv' /\ disturbed \subseteq disturbed'
  BY <1>0, RecordStep, TidyStep, DisturbedGrows
<1>2. \A a \in attempts : a.status # "started" => a \in attempts'
  BY <1>0, FinalStep
<1>3. ASSUME NEW j \in Jobs, NEW status \in {"completed", "failed"}, NEW outcome,
             outcome = (IF status = "completed" THEN "succeeded" ELSE "failed"),
             Has(j, status)'
      PROVE  /\ \E a \in attempts' : a.job = j /\ a.status = outcome
             /\ j \notin disturbed' => Attempt(j, jobs'[j].attemptCount, outcome) \in attempts'
  <2>1. ASSUME Has(j, status) PROVE \E a \in attempts' : a.job = j /\ a.status = outcome
    <3>1. PICK a \in attempts : a.job = j /\ a.status = outcome
      BY <1>3, <2>1 DEF RowsInv, RowsTruthful, Has
    <3> QED
      BY <1>2, <1>3, <3>1
  <2>2. CASE jobs'[j] = jobs[j]
    <3>1. Has(j, status)
      BY <1>3, <2>2 DEF Has
    <3>2. j \notin disturbed => Attempt(j, jobs[j].attemptCount, outcome) \in attempts
      BY <1>3, <3>1 DEF RowsInv, RowsTruthful, Has
    <3>3. j \notin disturbed => Attempt(j, jobs[j].attemptCount, outcome) \in attempts'
      BY <1>2, <1>3, <3>2 DEF Attempt
    <3> QED
      BY <1>1, <2>1, <2>2, <3>1, <3>3
  <2>3. ASSUME NEW w \in Workers, wjob[w] = j, SaveProcessing(w) \/ SaveCompleted(w) \/ SaveFailed(w)
        PROVE  /\ \E a \in attempts' : a.job = j /\ a.status = outcome
               /\ j \notin disturbed => Attempt(j, jobs'[j].attemptCount, outcome) \in attempts'
    <3>1. jobs'[j].status = IF "status" \in wdiff[w] THEN went[w].status ELSE jobs[j].status
      BY <1>0, <2>3, Saves
    <3>2. SaveProcessing(w) => went[w].status = "processing"
      BY DEF SaveProcessing, RowsInv
    <3>3. went[w].status = status /\ ~SaveProcessing(w)
          => Attempt(j, went[w].attemptCount, outcome) \in attempts
      <4>1. ~SaveProcessing(w) => wpc[w] \in {"savecompleted", "savefailed"}
        BY <2>3 DEF SaveCompleted, SaveFailed
      <4>2. Recorded(w)
        BY <1>0 DEF RecordInv
      <4> QED
        BY <1>3, <2>3, <4>1, <4>2 DEF Recorded
    <3>4. CASE "status" \in wdiff[w]
      <4>1. went[w].status = status /\ ~SaveProcessing(w)
        BY <1>3, <3>1, <3>2, <3>4 DEF Has
      <4>2. Attempt(j, went[w].attemptCount, outcome) \in attempts'
        BY <1>2, <1>3, <3>3, <4>1 DEF Attempt
      <4>3. j \notin disturbed => jobs'[j] = went[w]
        BY <1>0, <2>3, TidySaves DEF TidyInv
      <4> QED
        BY <4>2, <4>3 DEF Attempt
    <3>5. CASE "status" \notin wdiff[w]
      <4>1. Has(j, status)
        <5>1. jobs[j] \in Row
          BY <1>0, <2>3, Saves
        <5> QED
          BY <1>3, <3>1, <3>5, <5>1, NoneAssumption DEF Has
      <4>2. ASSUME j \notin disturbed PROVE FALSE
        <5>1. Tidy(j)
          BY <1>0, <4>2 DEF TidyInv
        <5>2. Has(j, "queued") \/ Has(j, "processing")
          BY <1>0, <2>3, <5>1, TidySaves
        <5> QED
          BY <1>3, <4>1, <5>2 DEF Has
      <4> QED
        BY <2>1, <4>1, <4>2
    <3> QED
      BY <3>4, <3>5
  <2>4. ASSUME NEW r \in Requests, rjob[r] = j, RetrySave(r)
        PROVE  Has(j, status) /\ j \in disturbed
    <3>1. /\ jobs[j] \in Row
          /\ jobs'[j].status = IF "status" \in rdiff[r] THEN rent[r].status ELSE jobs[j].status
      BY <1>0, <2>4, RetrySaves
    <3>2. rent[r].status = "queued"
      BY <2>4 DEF RetrySave, BeforeSave, RowsInv
    <3>3. Has(j, status)
      BY <1>3, <3>1, <3>2, NoneAssumption DEF Has
    <3>4. ASSUME j \notin disturbed PROVE FALSE
      <4>1. Tidy(j)
        BY <1>0, <3>4 DEF TidyInv
      <4>2. jobs'[j] = rent[r]
        BY <1>0, <2>4, <4>1, TidyRetries
      <4> QED
        BY <1>3, <3>2, <4>2 DEF Has
    <3> QED
      BY <3>3, <3>4
  <2>5. ASSUME NEW r \in Requests, Create(r, j) PROVE FALSE
    BY <1>0, <1>3, <2>5 DEF Create, TypeOK, Has
  <2>6. ASSUME jobs'[j] # jobs[j]
        PROVE  /\ UNCHANGED disturbed
               /\ \/ \E r \in Requests : Create(r, j)
                  \/ \E w \in Workers : wjob[w] = j
                        /\ (SaveProcessing(w) \/ SaveCompleted(w) \/ SaveFailed(w))
                  \/ \E r \in Requests : rjob[r] = j /\ RetrySave(r)
    BY <1>0, <2>6, RowChanges DEF TypeOK
  <2> QED
    BY <2>1, <2>2, <2>3, <2>4, <2>5, <2>6
<1>4. RowsTruthful'
  BY <1>3 DEF RowsTruthful, Has
<1> QED
  BY <1>1, <1>4, EntitiesNamed DEF RowsInv

\* A decided row is backed by an execution that came out that way, by the one it
\* counts unless its job is disturbed, however many handlers save it.
THEOREM RowsAreTruthful == Spec => []RowsTruthful
<1>1. RowsInv => RowsTruthful
  BY DEF RowsInv
<1> QED
  BY <1>1, RowsInit, RowsStep, PTL DEF Spec

\* Alerts are critical from the last allowed attempt on and not before, and only
\* then is there an incident: what a handler computes from the entity it read at
\* the start is right by the row of today (job-processor.service.ts:176-205).
EscalationsJustified ==
    /\ \A a \in alerts :
          /\ jobs[a.job] # None
          /\ a.severity = "critical" <=> a.number >= jobs[a.job].maxAttempts
    /\ \A i \in incidents : jobs[i.job] # None /\ i.number >= jobs[i.job].maxAttempts

\* The limit a handler knows is that of the row.
JustifiedInv == KeptInv /\ RecordInv /\ EscalationsJustified

\* There is nothing to justify at first.
LEMMA JustifiedInit == Init => JustifiedInv
  BY KeptInit, RecordInit DEF Init, JustifiedInv, EscalationsJustified

\* Alerts and incidents are justified when they are written and stay so.
LEMMA JustifiedStep == JustifiedInv /\ [Next]_vars => JustifiedInv'
<1> SUFFICES ASSUME JustifiedInv, [Next]_vars PROVE JustifiedInv'
  OBVIOUS
<1>0. KeptInv /\ RecordInv /\ TypeOK /\ TypeOK'
  BY KeptStep DEF JustifiedInv, KeptInv
<1>1. KeptInv' /\ RecordInv'
  BY <1>0, KeptStep, RecordStep
<1>2. ASSUME NEW w \in Workers, wpc[w] \in {"alert", "incident"}
      PROVE  /\ wjob[w] \in Jobs
             /\ jobs'[wjob[w]] # None /\ went[w].maxAttempts = jobs'[wjob[w]].maxAttempts
  <2>1. /\ wjob[w] \in Jobs /\ jobs[wjob[w]] # None
        /\ went[w].maxAttempts = jobs[wjob[w]].maxAttempts
    BY <1>0, <1>2 DEF KeptInv, TypeOK, InTry, Owning
  <2> QED
    BY <1>0, <2>1, LimitKept
<1>3. ASSUME NEW a \in alerts'
      PROVE  /\ jobs'[a.job] # None
             /\ a.severity = "critical" <=> a.number >= jobs'[a.job].maxAttempts
  <2>1. CASE a \in alerts
    <3>1. a.job \in Jobs
      BY <1>0, <2>1 DEF TypeOK
    <3>2. /\ jobs[a.job] # None
          /\ a.severity = "critical" <=> a.number >= jobs[a.job].maxAttempts
      BY <2>1 DEF JustifiedInv, EscalationsJustified
    <3>3. jobs'[a.job] # None /\ jobs'[a.job].maxAttempts = jobs[a.job].maxAttempts
      BY <1>0, <3>1, <3>2, LimitKept
    <3> QED
      BY <3>2, <3>3
  <2>2. ASSUME NEW w \in Workers, RaiseAlert(w), a = AlertRow(w)
        PROVE  /\ jobs'[a.job] # None
               /\ a.severity = "critical" <=> a.number >= jobs'[a.job].maxAttempts
    <3>1. wpc[w] = "alert"
      BY <2>2 DEF RaiseAlert
    <3>2. /\ a.job = wjob[w] /\ a.number = went[w].attemptCount
          /\ a.severity = Severity(went[w])
      BY <2>2 DEF AlertRow
    <3> QED
      BY <1>2, <3>1, <3>2 DEF Severity, Exhausted
  <2> QED
    BY <2>1, <2>2, NoticeOrigins
<1>4. ASSUME NEW i \in incidents'
      PROVE  jobs'[i.job] # None /\ i.number >= jobs'[i.job].maxAttempts
  <2>1. CASE i \in incidents
    <3>1. i.job \in Jobs
      BY <1>0, <2>1 DEF TypeOK
    <3>2. jobs[i.job] # None /\ i.number >= jobs[i.job].maxAttempts
      BY <2>1 DEF JustifiedInv, EscalationsJustified
    <3>3. jobs'[i.job] # None /\ jobs'[i.job].maxAttempts = jobs[i.job].maxAttempts
      BY <1>0, <3>1, <3>2, LimitKept
    <3> QED
      BY <3>2, <3>3
  <2>2. ASSUME NEW w \in Workers, OpenIncident(w), i = IncidentRow(w)
        PROVE  jobs'[i.job] # None /\ i.number >= jobs'[i.job].maxAttempts
    <3>1. wpc[w] = "incident"
      BY <2>2 DEF OpenIncident
    <3>2. i.job = wjob[w] /\ i.number = went[w].attemptCount
      BY <2>2 DEF IncidentRow
    <3>3. Exhausted(went[w])
      BY <1>0, <3>1 DEF RecordInv, Recorded
    <3> QED
      BY <1>2, <3>1, <3>2, <3>3 DEF Exhausted
  <2> QED
    BY <2>1, <2>2, NoticeOrigins
<1> QED
  BY <1>1, <1>3, <1>4 DEF JustifiedInv, EscalationsJustified

\* Nothing is escalated before its time, nor played down.
THEOREM EscalationsAreJustified == Spec => []EscalationsJustified
<1>1. JustifiedInv => EscalationsJustified
  BY DEF JustifiedInv
<1> QED
  BY <1>1, JustifiedInit, JustifiedStep, PTL DEF Spec

-----------------------------------------------------------------------------
(* What holds of a job as long as none of its messages was redelivered and no *)
(* two of its retries overlapped, however slow its handlers are.             *)

\* One handler at a time is on its way to decide an undisturbed job, even when it
\* outlives its lock: there is one message, and a retry waits for the failure
\* (job.service.ts:186-202, job-processor.service.ts:49-53).
OneExecutor ==
    \A j \in Jobs \ disturbed : \A v, w \in Workers : Awaits(v, j) /\ Awaits(w, j) => v = w

\* An undisturbed job is executed by one handler at a time without its lock.
THEOREM OneHandlerExecutes == Spec => []OneExecutor
<1>1. TidyInv => OneExecutor
  BY DEF TidyInv, Tidy, Alone, OneExecutor
<1> QED
  BY <1>1, TidyInit, TidyStep, PTL DEF Spec

\* save(job) reads the row anew and updates only the columns that differ, outside
\* any transaction; but on an undisturbed job these are still the ones that differ
\* when the UPDATE runs, and it leaves the row as its writer computed it: the read
\* and the save are as good as one transaction, and no row is mixed from two
\* entities (job-processor.service.ts:58-70, 124-130, 176-181,
\* job.service.ts:186-202).
SavesFresh ==
    /\ \A w \in Workers :
          LET j == wjob[w] IN
          j \notin disturbed /\ (SaveProcessing(w) \/ SaveCompleted(w) \/ SaveFailed(w))
          => wdiff[w] = Diff(went[w], jobs[j]) /\ jobs'[j] = went[w]
    /\ \A r \in Requests :
          LET j == rjob[r] IN
          j \notin disturbed /\ RetrySave(r)
          => rdiff[r] = Diff(rent[r], jobs[j]) /\ jobs'[j] = rent[r]

\* No save of an undisturbed job is stale.
THEOREM NoSaveIsStale == Spec => [][SavesFresh]_vars
<1>1. ASSUME TidyInv PROVE SavesFresh
  <2>0. TypeOK
    BY <1>1 DEF TidyInv
  <2>1. ASSUME NEW w \in Workers, wjob[w] \notin disturbed,
               SaveProcessing(w) \/ SaveCompleted(w) \/ SaveFailed(w)
        PROVE  wdiff[w] = Diff(went[w], jobs[wjob[w]]) /\ jobs'[wjob[w]] = went[w]
    <3>1. wjob[w] \in Jobs
      BY <2>0, <2>1, Saves
    <3>2. Tidy(wjob[w])
      BY <1>1, <2>1, <3>1 DEF TidyInv
    <3> QED
      BY <2>0, <2>1, <3>1, <3>2, TidySaves DEF Prepared
  <2>2. ASSUME NEW r \in Requests, rjob[r] \notin disturbed, RetrySave(r)
        PROVE  rdiff[r] = Diff(rent[r], jobs[rjob[r]]) /\ jobs'[rjob[r]] = rent[r]
    <3>1. rjob[r] \in Jobs
      BY <2>0, <2>2, RetrySaves
    <3>2. Tidy(rjob[r])
      BY <1>1, <2>2, <3>1 DEF TidyInv
    <3> QED
      BY <2>0, <2>2, <3>1, <3>2, TidyRetries DEF Prepared
  <2> QED
    BY <2>1, <2>2 DEF SavesFresh
<1> QED
  BY <1>1, TidyInit, TidyStep, PTL DEF Spec

\* A completed job is never touched again, and no attempt is ever uncounted, while
\* the job is undisturbed (README.md:88 "completed --> [*]",
\* job-processor.service.ts:69).
CompletedStays ==
    \A j \in Jobs \ disturbed : jobs[j] # None =>
        /\ jobs[j].status = "completed" => jobs'[j] = jobs[j]
        /\ jobs[j].attemptCount <= jobs'[j].attemptCount

\* Every save of an undisturbed job finds it in the status before.
LEMMA CompletedStep ==
    ASSUME TidyInv, [Next]_vars, NEW j \in Jobs \ disturbed, jobs[j] # None
    PROVE  /\ jobs[j].status = "completed" => jobs'[j] = jobs[j]
           /\ jobs[j].attemptCount <= jobs'[j].attemptCount
<1>0. TypeOK /\ jobs[j] \in Row
  BY DEF TidyInv, TypeOK
<1>1. CASE jobs'[j] = jobs[j]
  BY <1>0, <1>1 DEF Row
<1>2. CASE jobs'[j] # jobs[j]
  <2>1. \/ \E r \in Requests : Create(r, j)
        \/ \E w \in Workers : wjob[w] = j
              /\ (SaveProcessing(w) \/ SaveCompleted(w) \/ SaveFailed(w))
        \/ \E r \in Requests : rjob[r] = j /\ RetrySave(r)
    BY <1>0, <1>2, RowChanges DEF TypeOK
  <2>2. ASSUME NEW r \in Requests, rjob[r] = j, RetrySave(r)
        PROVE  jobs[j].status = "failed" /\ jobs[j].attemptCount <= jobs'[j].attemptCount
    <3>1. Has(j, "failed") /\ jobs'[j].attemptCount = jobs[j].attemptCount
      BY <1>0, <2>2, TidyRetries DEF TidyInv
    <3> QED
      BY <1>0, <3>1 DEF Row, Has
  <2>3. ASSUME NEW w \in Workers, wjob[w] = j, SaveProcessing(w) \/ SaveCompleted(w) \/ SaveFailed(w)
        PROVE  /\ jobs[j].status \in {"queued", "processing"}
               /\ jobs[j].attemptCount <= jobs'[j].attemptCount
    <3>1. /\ Has(j, "queued") \/ Has(j, "processing")
          /\ jobs'[j].attemptCount \in {jobs[j].attemptCount, jobs[j].attemptCount + 1}
      BY <1>0, <2>3, TidySaves DEF TidyInv
    <3> QED
      BY <1>0, <3>1 DEF Row, Has
  <2>4. \A r \in Requests : ~Create(r, j)
    BY DEF Create
  <2> QED
    BY <1>0, <2>1, <2>2, <2>3, <2>4
<1> QED
  BY <1>1, <1>2

\* The end of the state diagram is the end, for an undisturbed job.
THEOREM CompletedIsFinal == Spec => [][CompletedStays]_vars
<1>1. TidyInv /\ [Next]_vars => CompletedStays
  BY CompletedStep DEF CompletedStays
<1> QED
  BY <1>1, TidyInit, TidyStep, PTL DEF Spec

-----------------------------------------------------------------------------
(* The attempts of a job are numbered, and there are no more than it may have. *)

\* A handler gets its number from the SELECT of the save that counts the attempt.
LEMMA InsertMoves ==
    ASSUME TypeOK, [Next]_vars, NEW w \in Workers, wpc'[w] \in BeforeInsert
    PROVE  \/ SelectProcessing(w)
           \/ wpc[w] \in BeforeInsert /\ UNCHANGED <<wjob[w], went[w]>>
<1>1. Acts(w) \/ UNCHANGED <<wpc[w], wjob[w], went[w]>>
  BY StepKinds, ActsFrame, ServesFrame, PassesFrame
<1> QED
  BY <1>1, EntityStays

\* A row of processing_attempts was there under its number, or it was inserted.
LEMMA NumberOrigins ==
    ASSUME OwnerInv, [Next]_vars, NEW a \in attempts'
    PROVE  \/ \E b \in attempts : b.job = a.job /\ b.number = a.number
           \/ \E w \in Workers : /\ InsertAttempt(w)
                                 /\ a.job = wjob[w] /\ a.number = went[w].attemptCount
<1>1. ASSUME NEW w \in Workers, InsertAttempt(w), a \notin attempts
      PROVE  a.job = wjob[w] /\ a.number = went[w].attemptCount
  BY <1>1 DEF InsertAttempt, Attempt
<1>2. ASSUME NEW w \in Workers, NEW f \in BOOLEAN, FinishAttempt(w, f), a \notin attempts
      PROVE  \E b \in attempts : b.job = a.job /\ b.number = a.number
  <2>1. a.job = wjob[w] /\ a.number = went[w].attemptCount /\ wpc[w] \in Owning
    BY <1>2 DEF FinishAttempt, Attempt, Owning
  <2>2. AttemptRows(wjob[w], went[w].attemptCount) # {}
    BY <2>1 DEF OwnerInv, OwnAttempt
  <2> QED
    BY <2>1, <2>2 DEF AttemptRows
<1>3. \/ UNCHANGED attempts
      \/ \E w \in Workers : InsertAttempt(w) \/ \E f \in BOOLEAN : FinishAttempt(w, f)
  BY ZenonT(30) DEF Next, WorkerStep, Deliver, AcquireLock, LockBusy, LoadJob, SelectProcessing,
         SaveProcessing, AnnounceProcessing, AuditProcessing, AttemptConflict, SelectCompleted,
         SaveCompleted, SelectFailed, SaveFailed, RaiseAlert, OpenIncident, NotifyOutcome,
         AuditOutcome, AuditAlert, AuditIncident, PublishOutcome, PublishRefused, Release, Settle,
         HandlerThrows, RedisThrows, Crash, EndsWith, SetResent, DelResent, ConsumerCancelled,
         BrokerShutsDown, Create, RetryLoad, RetryReject, RequestStep, RetrySelect, RetrySave,
         RecordCommand, NotifyQueued, Enqueue, Emit, SendRefused, RequestAborts, EnqueueLost,
         LockExpires, Finished, serving, handling, storeVars, vars
<1> QED
  BY <1>1, <1>2, <1>3

\* The row of j counts every attempt of j, and a handler that counted one more
\* finds its number free.
Numbered(j) ==
    \A a \in attempts : a.job = j =>
        /\ jobs[j] # None /\ a.number > 0 /\ a.number <= jobs[j].attemptCount
        /\ \A w \in Workers : wjob[w] = j /\ wpc[w] \in BeforeInsert =>
              a.number < went[w].attemptCount

\* The rows of undisturbed jobs count their attempts.
CountInv ==
    /\ KeptInv /\ TidyInv /\ OwnerInv /\ Unique
    /\ \A w \in Workers : wpc[w] \in BeforeInsert => went[w].attemptCount > 0
    /\ \A j \in Jobs \ disturbed : Numbered(j)

\* There is nothing to count at first.
LEMMA CountInit == Init => CountInv
  BY KeptInit, TidyInit, OwnerInit DEF Init, CountInv, Unique, BeforeInsert, Numbered

\* Each attempt is counted before its row is inserted.
LEMMA CountStep == CountInv /\ [Next]_vars => CountInv'
<1> SUFFICES ASSUME CountInv, [Next]_vars PROVE CountInv'
  OBVIOUS
<1>0. KeptInv /\ TidyInv /\ OwnerInv /\ TypeOK /\ TypeOK'
  BY TypeStep DEF CountInv, KeptInv
<1>1. KeptInv' /\ TidyInv' /\ OwnerInv' /\ Unique'
  BY KeptStep, TidyStep, OwnerStep, UniqueStep DEF CountInv
<1>2. ASSUME NEW w \in Workers, SelectProcessing(w)
      PROVE  /\ went[w] \in Row /\ wjob[w] \in Jobs /\ wjob'[w] = wjob[w]
             /\ went'[w].attemptCount = went[w].attemptCount + 1 /\ UNCHANGED attempts
  BY <1>0, <1>2, Selects DEF SelectProcessing, handling, storeVars
<1>3. ASSUME NEW w \in Workers, wpc'[w] \in BeforeInsert PROVE went'[w].attemptCount > 0
  <2>1. CASE SelectProcessing(w)
    BY <1>2, <2>1 DEF Row
  <2>2. CASE wpc[w] \in BeforeInsert /\ UNCHANGED went[w]
    BY <2>2 DEF CountInv
  <2> QED
    BY <1>0, <1>3, <2>1, <2>2, InsertMoves
<1>4. ASSUME NEW w \in Workers, InsertAttempt(w), wjob[w] \notin disturbed
      PROVE  /\ wjob[w] \in Jobs /\ Awaits(w, wjob[w]) /\ UNCHANGED jobs
             /\ jobs[wjob[w]] # None /\ went[w] = jobs[wjob[w]]
             /\ went[w].attemptCount > 0 /\ wpc'[w] = "run"
  <2>1. wpc[w] = "attempt"
    BY <1>4 DEF InsertAttempt
  <2>2. wjob[w] \in Jobs /\ Awaits(w, wjob[w])
    BY <1>0, <2>1 DEF TypeOK, Awaits, Undecided
  <2>3. Claimed(w, wjob[w])
    BY <1>0, <1>4, <2>2 DEF TidyInv, Tidy
  <2>4. jobs[wjob[w]] # None /\ went[w] = jobs[wjob[w]]
    BY <2>1, <2>3 DEF Claimed, Executing, Has
  <2>5. went[w].attemptCount > 0
    BY <2>1 DEF CountInv, BeforeInsert
  <2> QED
    BY <1>0, <1>4, <2>2, <2>4, <2>5 DEF InsertAttempt, Goto, TypeOK
<1>5. ASSUME NEW j \in Jobs, j \notin disturbed', NEW a \in attempts', a.job = j
      PROVE  /\ jobs'[j] # None /\ a.number > 0 /\ a.number <= jobs'[j].attemptCount
             /\ \A w \in Workers : wjob'[w] = j /\ wpc'[w] \in BeforeInsert =>
                   a.number < went'[w].attemptCount
  <2>0. j \notin disturbed /\ a.number \in Nat
    BY <1>0, <1>5, DisturbedGrows DEF TypeOK
  <2>1. CASE \E b \in attempts : b.job = a.job /\ b.number = a.number
    <3>1. PICK b \in attempts : b.job = a.job /\ b.number = a.number
      BY <2>1
    <3>2. Numbered(j)
      BY <2>0 DEF CountInv
    <3>3. /\ jobs[j] # None /\ a.number > 0 /\ a.number <= jobs[j].attemptCount
          /\ \A w \in Workers : wjob[w] = j /\ wpc[w] \in BeforeInsert =>
                a.number < went[w].attemptCount
      BY <1>5, <3>1, <3>2 DEF Numbered
    <3>4. jobs'[j] # None /\ jobs[j].attemptCount <= jobs'[j].attemptCount
      BY <1>0, <2>0, <3>3, CompletedStep, LimitKept
    <3>5. jobs[j].attemptCount \in Nat /\ jobs'[j].attemptCount \in Nat
      BY <1>0, <3>3, <3>4 DEF TypeOK, Row
    <3>6. ASSUME NEW w \in Workers, wjob'[w] = j, wpc'[w] \in BeforeInsert
          PROVE  a.number < went'[w].attemptCount
      <4>1. CASE SelectProcessing(w)
        <5>1. wjob[w] = j /\ went[w] = jobs[j]
          <6>1. wjob[w] = j /\ wpc[w] = "start"
            BY <1>2, <3>6, <4>1 DEF SelectProcessing
          <6>2. Awaits(w, j)
            BY <6>1 DEF Awaits, Undecided
          <6> QED
            BY <1>0, <2>0, <6>1, <6>2 DEF TidyInv, Tidy, Claimed
        <5>2. went'[w].attemptCount = jobs[j].attemptCount + 1
          BY <1>2, <4>1, <5>1
        <5> QED
          BY <2>0, <3>3, <3>5, <5>2
      <4>2. CASE wpc[w] \in BeforeInsert /\ UNCHANGED <<wjob[w], went[w]>>
        BY <3>3, <3>6, <4>2
      <4> QED
        BY <1>0, <3>6, <4>1, <4>2, InsertMoves
    <3> QED
      BY <2>0, <3>3, <3>4, <3>5, <3>6
  <2>2. ASSUME NEW v \in Workers, InsertAttempt(v), a.job = wjob[v],
               a.number = went[v].attemptCount
        PROVE  /\ jobs'[j] # None /\ a.number > 0 /\ a.number <= jobs'[j].attemptCount
               /\ \A w \in Workers : wjob'[w] = j /\ wpc'[w] \in BeforeInsert =>
                     a.number < went'[w].attemptCount
    <3>1. /\ Awaits(v, j) /\ UNCHANGED jobs /\ jobs[j] # None /\ went[v] = jobs[j]
          /\ went[v].attemptCount > 0 /\ wpc'[v] = "run"
      BY <1>4, <1>5, <2>0, <2>2
    <3>2. ASSUME NEW w \in Workers, wjob'[w] = j, wpc'[w] \in BeforeInsert PROVE FALSE
      <4>1. w # v
        BY <3>1, <3>2 DEF BeforeInsert
      <4>2. wjob[w] = j /\ wpc[w] \in BeforeInsert
        <5>1. Acts(v)
          BY <2>2 DEF Acts, WorkerStep
        <5> QED
          BY <1>0, <3>2, <4>1, <5>1, ActsFrame
      <4>3. Awaits(w, j)
        BY <4>2 DEF Awaits, BeforeInsert, Undecided
      <4> QED
        BY <1>0, <2>0, <3>1, <4>1, <4>3 DEF TidyInv, Tidy, Alone
    <3> QED
      BY <2>0, <2>2, <3>1, <3>2
  <2> QED
    BY <1>0, <2>1, <2>2, NumberOrigins
<1>6. \A j \in Jobs \ disturbed' : Numbered(j)'
  BY <1>5 DEF Numbered
<1> QED
  BY <1>1, <1>3, <1>6 DEF CountInv

\* The rows of processing_attempts of j.
AttemptsOf(j) == {a \in attempts : a.job = j}

\* An undisturbed job was executed no more often than its maxAttempts, counting
\* the rows of its executions and not the column that is saved over and over;
\* they carry the numbers up to its attemptCount, and the unique index never
\* refuses the next one (processing-attempt.entity.ts:14, job.service.ts:193,
\* job-processor.service.ts:69, 91-101).
ExecutionsCounted ==
    \A j \in Jobs \ disturbed :
        /\ \A a \in AttemptsOf(j) : jobs[j] # None /\ a.number \in 1 .. jobs[j].attemptCount
        /\ jobs[j] # None => Cardinality(AttemptsOf(j)) <= jobs[j].maxAttempts
        /\ \A w \in Workers : wjob[w] = j /\ wpc[w] = "attempt" =>
              AttemptRows(j, went[w].attemptCount) = {}

\* Distinct numbers up to the limit are no more than the limit.
LEMMA ExecutionsBound == CountInv => ExecutionsCounted
<1> SUFFICES ASSUME CountInv, NEW j \in Jobs \ disturbed
             PROVE  /\ \A a \in AttemptsOf(j) :
                          jobs[j] # None /\ a.number \in 1 .. jobs[j].attemptCount
                    /\ jobs[j] # None => Cardinality(AttemptsOf(j)) <= jobs[j].maxAttempts
                    /\ \A w \in Workers : wjob[w] = j /\ wpc[w] = "attempt" =>
                          AttemptRows(j, went[w].attemptCount) = {}
  BY DEF ExecutionsCounted
<1>0. TypeOK /\ Numbered(j) /\ Tidy(j)
  BY DEF CountInv, TidyInv
<1>1. ASSUME NEW a \in AttemptsOf(j)
      PROVE  jobs[j] # None /\ a.number \in 1 .. jobs[j].attemptCount
  <2>1. a \in attempts /\ a.job = j /\ a.number \in Nat
    BY <1>0 DEF AttemptsOf, TypeOK
  <2>2. jobs[j] # None /\ a.number > 0 /\ a.number <= jobs[j].attemptCount
    BY <1>0, <2>1 DEF Numbered
  <2>3. jobs[j].attemptCount \in Nat
    BY <1>0, <2>2 DEF TypeOK, Row
  <2> QED
    BY <2>1, <2>2, <2>3
<1>2. ASSUME jobs[j] # None PROVE Cardinality(AttemptsOf(j)) <= jobs[j].maxAttempts
  <2> DEFINE n == jobs[j].attemptCount
             f == [a \in AttemptsOf(j) |-> a.number]
             c == Cardinality(AttemptsOf(j))
  <2>1. n \in Nat /\ jobs[j].maxAttempts \in Nat /\ n <= jobs[j].maxAttempts
    BY <1>0, <1>2, LimitsAssumption DEF TypeOK, Row, Tidy, Within
  <2>2. \A a \in AttemptsOf(j) : a.number \in 1 .. n
    BY <1>1
  <2> HIDE DEF n
  <2>3. IsFiniteSet(1 .. n) /\ Cardinality(1 .. n) = n
    BY <2>1, FS_Interval
  <2>4. f \in Injection(AttemptsOf(j), 1 .. n)
    <3>1. \A a, b \in AttemptsOf(j) : a.number = b.number => a = b
      BY DEF CountInv, Unique, AttemptsOf
    <3> QED
      BY <2>2, <3>1 DEF Injection, IsInjective
  <2>5. IsFiniteSet(AttemptsOf(j)) /\ c <= Cardinality(1 .. n)
    BY <2>3, <2>4, FS_Injection
  <2>6. c \in Nat
    BY <2>5, FS_CardinalityType
  <2>7. c <= n
    BY <2>3, <2>5
  <2> HIDE DEF c
  <2>8. c <= jobs[j].maxAttempts
    BY <2>1, <2>6, <2>7
  <2> QED
    BY <2>8 DEF c
<1>3. ASSUME NEW w \in Workers, wjob[w] = j, wpc[w] = "attempt",
             NEW a \in AttemptRows(j, went[w].attemptCount)
      PROVE  FALSE
  <2>1. a \in attempts /\ a.job = j /\ a.number = went[w].attemptCount
    BY <1>3 DEF AttemptRows
  <2>2. a.number < went[w].attemptCount /\ a.number \in Nat
    BY <1>0, <1>3, <2>1 DEF Numbered, BeforeInsert, TypeOK
  <2> QED
    BY <2>1, <2>2
<1> QED
  BY <1>1, <1>2, <1>3

\* The limit on attempts bounds the executions that there are on record.
THEOREM ExecutionsAreCounted == Spec => []ExecutionsCounted
  BY CountInit, CountStep, ExecutionsBound, PTL DEF Spec

-----------------------------------------------------------------------------
(* Retries are honest: what the audit trail says of them is so. *)

\* Attempt n of job j was one to retry: it was not the last allowed, a failure of
\* the job is on record, and unless the job is disturbed it is that of attempt n.
Answerable(j, n) ==
    /\ jobs[j] # None /\ n < jobs[j].maxAttempts
    /\ \E a \in attempts : a.job = j /\ a.status = "failed"
    /\ j \notin disturbed => Failed(j, n)

\* An operator's retry on record answers a failure on record and had an attempt
\* left to give, whoever else saved the job between the guards of retry and its
\* audit entry; on an undisturbed job it answers the failure of the very attempt it
\* names (job.service.ts:186-226).
RetriesHonest ==
    \A e \in audit : e.action = "job.retried" => Answerable(e.job, e.number)

\* Request r read a failed attempt, and not the last.
ReadFailure(r) ==
    rkind[r] = "job.retried" /\ rpc[r] \in BeforeSave \cup {"record"} =>
        Answerable(rjob[r], rent[r].attemptCount)

\* What a retry read stays so while it runs.
HonestInv == KeptInv /\ RowsInv /\ (\A r \in Requests : ReadFailure(r)) /\ RetriesHonest

\* Nobody retries at first.
LEMMA HonestInit == Init => HonestInv
  BY KeptInit, RowsInit DEF Init, HonestInv, ReadFailure, RetriesHonest, BeforeSave

\* The guards of retry hold of the attempt it records.
LEMMA HonestStep == HonestInv /\ [Next]_vars => HonestInv'
<1> SUFFICES ASSUME HonestInv, [Next]_vars PROVE HonestInv'
  OBVIOUS
<1>0. KeptInv /\ RowsInv /\ OwnerInv /\ TypeOK /\ TypeOK'
  BY TypeStep DEF HonestInv, RowsInv, RecordInv, KeptInv
<1>1. KeptInv' /\ RowsInv'
  BY <1>0, KeptStep, RowsStep
<1>2. ASSUME NEW j \in Jobs, NEW n, Answerable(j, n)
      PROVE  /\ jobs'[j] # None /\ n < jobs'[j].maxAttempts
             /\ \E a \in attempts' : a.job = j /\ a.status = "failed"
             /\ j \notin disturbed' => Attempt(j, n, "failed") \in attempts'
  <2>1. \A a \in attempts : a.status # "started" => a \in attempts'
    BY <1>0, FinalStep
  <2>2. jobs'[j] # None /\ n < jobs'[j].maxAttempts
    BY <1>0, <1>2, LimitKept DEF Answerable
  <2>3. \E a \in attempts' : a.job = j /\ a.status = "failed"
    BY <1>2, <2>1 DEF Answerable
  <2>4. ASSUME j \notin disturbed' PROVE Attempt(j, n, "failed") \in attempts'
    <3>1. Attempt(j, n, "failed") \in attempts
      BY <1>2, <2>4, DisturbedGrows DEF Answerable, Failed
    <3>2. Attempt(j, n, "failed").status # "started"
      BY DEF Attempt
    <3> QED
      BY <2>1, <3>1, <3>2
  <2> QED
    BY <2>2, <2>3, <2>4
<1>3. ASSUME NEW r \in Requests, rkind'[r] = "job.retried", rpc'[r] \in BeforeSave \cup {"record"}
      PROVE  /\ rjob'[r] \in Jobs
             /\ Answerable(rjob'[r], rent'[r].attemptCount)
  <2>1. CASE /\ UNCHANGED <<rjob[r], rent[r], rkind[r]>>
             /\ rpc[r] \in BeforeSave \cup {"record"}
    <3>1. rjob[r] \in Jobs
      BY <1>0, <2>1 DEF TypeOK, RequestPC, BeforeSave
    <3> QED
      BY <1>3, <2>1, <3>1 DEF HonestInv, ReadFailure
  <2>2. ASSUME NEW j \in Jobs, RetryLoad(r, j)
        PROVE  rjob'[r] \in Jobs /\ Answerable(rjob'[r], rent'[r].attemptCount)
    <3>1. /\ jobs[j] # None /\ Retryable(jobs[j]) /\ rjob'[r] = j
          /\ rent'[r] = [jobs[j] EXCEPT !.status = "queued"]
      BY <1>0, <2>2 DEF RetryLoad, TypeOK
    <3>2. rent'[r].attemptCount = jobs[j].attemptCount
      BY <1>0, <3>1 DEF TypeOK, Row
    <3>3. /\ jobs[j].attemptCount < jobs[j].maxAttempts
          /\ \E a \in attempts : a.job = j /\ a.status = "failed"
          /\ j \notin disturbed => Failed(j, jobs[j].attemptCount)
      BY <1>0, <3>1 DEF RowsInv, RowsTruthful, Retryable, Failed
    <3> QED
      BY <3>1, <3>2, <3>3 DEF Answerable
  <2>3. ASSUME Serves(r), \A j \in Jobs : ~RetryLoad(r, j)
        PROVE  /\ UNCHANGED <<rjob[r], rent[r], rkind[r]>>
               /\ rpc[r] \in BeforeSave \cup {"record"}
    BY <1>0, <1>3, <2>3
       DEF Serves, RequestStep, Create, RetryReject, RetrySelect, RetrySave, RecordCommand,
           NotifyQueued, Enqueue, Emit, SendRefused, RequestAborts, EnqueueLost, serving, TypeOK,
           BeforeSave
  <2>4. Serves(r) \/ UNCHANGED <<rpc[r], rjob[r], rent[r], rkind[r]>>
    BY <1>0, StepKinds, ActsFrame, ServesFrame, PassesFrame
  <2> QED
    BY <1>3, <2>1, <2>2, <2>3, <2>4
<1>4. ASSUME NEW e \in audit', e.action = "job.retried"
      PROVE  e.job \in Jobs /\ Answerable(e.job, e.number)
  <2>1. CASE e \in audit
    BY <1>0, <1>4, <2>1 DEF HonestInv, RetriesHonest, TypeOK
  <2>2. ASSUME NEW r \in Requests, RecordCommand(r),
               e = Entry(rkind[r], rjob[r], rent[r].attemptCount)
        PROVE  e.job \in Jobs /\ Answerable(e.job, e.number)
    <3>1. rpc[r] = "record" /\ rkind[r] = "job.retried"
      BY <1>4, <2>2 DEF RecordCommand, Entry
    <3>2. e.job = rjob[r] /\ e.number = rent[r].attemptCount /\ rjob[r] \in Jobs
      BY <1>0, <2>2, <3>1 DEF Entry, TypeOK, RequestPC
    <3>3. ReadFailure(r)
      BY DEF HonestInv
    <3> QED
      BY <3>1, <3>2, <3>3 DEF ReadFailure
  <2>3. ASSUME NEW w \in Workers,
               \/ e = Entry(OutcomeName(went[w]), wjob[w], went[w].attemptCount)
               \/ e = Entry("alert.raised", wjob[w], went[w].attemptCount)
               \/ e = Entry("incident.created", wjob[w], went[w].attemptCount)
        PROVE  FALSE
    BY <1>4, <2>3 DEF Entry, OutcomeName
  <2> QED
    BY <1>4, <2>1, <2>2, <2>3, EntryOrigins
<1>5. \A r \in Requests : ReadFailure(r)'
  BY <1>2, <1>3 DEF ReadFailure, Answerable, Failed
<1>6. RetriesHonest'
  BY <1>2, <1>4 DEF RetriesHonest, Answerable, Failed
<1> QED
  BY <1>1, <1>5, <1>6 DEF HonestInv

\* A retry on record answers a failure and was within the limit, on every job; on an
\* undisturbed one the failure is that of the attempt it names.
THEOREM RetriesAreHonest == Spec => []RetriesHonest
<1>1. HonestInv => RetriesHonest
  BY DEF HonestInv
<1> QED
  BY <1>1, HonestInit, HonestStep, PTL DEF Spec

-----------------------------------------------------------------------------
(* Without faults only a retry loses work. *)

\* An operator retried j, and that is on record.
Retried(j) == \E e \in audit : e.action = "job.retried" /\ e.job = j

\* When nothing fails, every job that was accepted and never retried has somebody
\* who works on it until it is decided, and no message of it is ever acknowledged
\* without being worked on, however slow the handlers are: a busy lock is always
\* that of the execution before a retry (job.service.ts:98,
\* job-processor.service.ts:49-53, README.md:84).
OnlyRetriesLoseWork ==
    faults = 0 => \A j \in Jobs : ~Retried(j) =>
        /\ j \notin dropped
        /\ jobs[j] # None /\ Pending(jobs[j]) => Backed(j)

\* Request r created j and did not send its message yet.
Creates(r, j) == rjob[r] = j /\ rkind[r] = "job.created" /\ rpc[r] \in BeforeEnqueue

\* Where a handler is that did not insert an attempt yet.
Early == {"lock", "load", "start"} \cup BeforeInsert

\* One message of j, handler or request that created it, and no other.
Single(j) ==
    /\ queue[j] <= 1
    /\ queue[j] > 0 => /\ \A w \in Workers : wjob[w] # j
                       /\ \A r \in Requests : ~Creates(r, j)
    /\ \A v, w \in Workers : wjob[v] = j /\ wjob[w] = j => v = w
    /\ \A w \in Workers : \A r \in Requests : ~(wjob[w] = j /\ Creates(r, j))
    /\ \A q, r \in Requests : Creates(q, j) /\ Creates(r, j) => q = r

\* Nobody inserted an attempt of j yet.
Unstarted(j) ==
    \/ jobs[j] = None \/ queue[j] > 0
    \/ \E r \in Requests : Creates(r, j)
    \/ \E w \in Workers : wjob[w] = j /\ wpc[w] \in Early

\* A job on its first way through the system.
Calm(j) ==
    /\ Single(j)
    /\ jobs[j] = None => /\ queue[j] = 0 /\ (\A w \in Workers : wjob[w] # j)
                         /\ \A r \in Requests : ~Creates(r, j)
    /\ lock[j] => \E w \in Workers : HeldBy(w, j)
    /\ \A w \in Workers : wjob[w] = j => wack[w]
    /\ Unstarted(j) => AttemptsOf(j) = {}
    /\ j \notin dropped

\* A slot with nothing to do has no job, and what is saved a second time was read.
Idle == /\ \A w \in Workers : wpc[w] = "idle" => wjob[w] = None /\ wack[w]
        /\ \A r \in Requests : rpc[r] \in BeforeSave => rkind[r] = "job.retried"

\* The channels are open, and a retry is on record before its message is sent.
Answered == /\ alink /\ \A w \in Workers : wlink[w] = "open"
            /\ \A r \in Requests : rkind[r] = "job.retried" /\ rpc[r] \in {"notify", "enqueue"} =>
                                      Retried(rjob[r])

\* Without faults jobs are calm until they are retried.
CalmInv ==
    /\ KeptInv /\ Idle
    /\ faults = 0 => Answered /\ \A j \in Jobs : ~Retried(j) => Calm(j)

\* All is calm at first.
LEMMA CalmInit == Init => CalmInv
<1> SUFFICES ASSUME Init PROVE CalmInv
  OBVIOUS
<1>1. \A j \in Jobs : Calm(j)
  BY NoneAssumption DEF Init, Calm, Single, Creates, Unstarted, AttemptsOf
<1> QED
  BY <1>1, KeptInit DEF Init, CalmInv, Idle, Answered, BeforeSave

\* A step before the first fault is none.
LEMMA NoFault ==
    ASSUME TypeOK, [Next]_vars, faults' = 0, faults = 0 => Answered
    PROVE  /\ faults = 0
           /\ \/ \E w \in Workers : (\E j \in Jobs : Deliver(w, j)) \/ WorkerStep(w)
              \/ \E r \in Requests : Serves(r) /\ ~RequestAborts(r) /\ ~EnqueueLost(r)
              \/ \E j \in Jobs : LockExpires(j)
              \/ UNCHANGED vars
<1>1. \A kind : ~Fault(kind)
  BY DEF Fault, TypeOK
<1>2. ASSUME NEW w \in Workers, EndsWith(w) PROVE FALSE
  BY <1>2 DEF EndsWith, Answered
<1>3. \/ \E w \in Workers : (\E j \in Jobs : Deliver(w, j)) \/ WorkerStep(w)
      \/ \E r \in Requests : Serves(r) /\ ~RequestAborts(r) /\ ~EnqueueLost(r)
      \/ \E j \in Jobs : LockExpires(j)
      \/ UNCHANGED vars
  BY <1>1, <1>2 DEF Next, Serves, HandlerThrows, RedisThrows, Crash, SetResent, DelResent,
     ConsumerCancelled, RequestAborts, EnqueueLost, BrokerShutsDown, Finished
<1>4. UNCHANGED faults
  BY <1>3, ZenonT(30) DEF Serves, WorkerStep, RequestStep, Deliver, AcquireLock, LockBusy,
     LoadJob, SelectProcessing, SaveProcessing, AnnounceProcessing, AuditProcessing,
     InsertAttempt, AttemptConflict, FinishAttempt, SelectCompleted, SaveCompleted, SelectFailed,
     SaveFailed, RaiseAlert, OpenIncident, NotifyOutcome, AuditOutcome, AuditAlert, AuditIncident,
     PublishOutcome, PublishRefused, Release, Settle, Create, RetryLoad, RetryReject, RetrySelect,
     RetrySave, RecordCommand, NotifyQueued, Enqueue, Emit, SendRefused, LockExpires, handling,
     serving, history, vars
<1> QED
  BY <1>3, <1>4

\* A slot that becomes idle forgets its job, and only retries are saved again.
LEMMA IdleStep == TypeOK /\ Idle /\ [Next]_vars => Idle'
<1> SUFFICES ASSUME TypeOK, Idle, [Next]_vars PROVE Idle'
  OBVIOUS
<1>1. ASSUME NEW w \in Workers, wpc'[w] = "idle" PROVE wjob'[w] = None /\ wack'[w]
  <2>1. CASE Acts(w)
    <3> USE DEF TypeOK, Goto, handling
    <3>1. CASE Settle(w) \/ Crash(w) \/ EndsWith(w)
      BY <3>1 DEF Settle, Crash, EndsWith, Vacate
    <3>2. CASE DelResent(w) \/ ConsumerCancelled(w)
      BY <1>1, <3>2 DEF DelResent, ConsumerCancelled, workerVars, Idle
    <3>3. CASE ~Settle(w) /\ ~Crash(w) /\ ~EndsWith(w) /\ ~DelResent(w) /\ ~ConsumerCancelled(w)
      <4>1. wpc'[w] # "idle"
        BY <2>1, <3>3 DEF Acts, WorkerStep, Deliver, AcquireLock, LockBusy, LoadJob,
           SelectProcessing, SaveProcessing, AnnounceProcessing, AuditProcessing, InsertAttempt,
           AttemptConflict, FinishAttempt, SelectCompleted, SaveCompleted, SelectFailed,
           SaveFailed, RaiseAlert, OpenIncident, NotifyOutcome, AuditOutcome, AuditAlert,
           AuditIncident, PublishOutcome, PublishRefused, Throw, Release, HandlerThrows,
           RedisThrows, SetResent
      <4> QED
        BY <1>1, <4>1
    <3> QED
      BY <3>1, <3>2, <3>3
  <2>2. CASE UNCHANGED <<wpc[w], wjob[w], wack[w]>>
    BY <1>1, <2>2 DEF Idle
  <2> QED
    BY <2>1, <2>2, StepKinds, ActsFrame, ServesFrame, PassesFrame
<1>2. ASSUME NEW r \in Requests, rpc'[r] \in BeforeSave PROVE rkind'[r] = "job.retried"
  <2>1. CASE Serves(r)
    BY <1>2, <2>1 DEF Serves, RequestStep, Create, RetryLoad, RetryReject, RetrySelect, RetrySave,
       RecordCommand, NotifyQueued, Enqueue, Emit, SendRefused, RequestAborts, EnqueueLost, TypeOK,
       serving, BeforeSave, Idle
  <2>2. CASE UNCHANGED <<rpc[r], rkind[r]>>
    BY <1>2, <2>2 DEF Idle
  <2> QED
    BY <2>1, <2>2, StepKinds, ActsFrame, ServesFrame, PassesFrame
<1> QED
  BY <1>1, <1>2 DEF Idle

\* A job stays calm while nothing happens to it.
LEMMA CalmKept ==
    ASSUME NEW j \in Jobs, Calm(j),
           queue'[j] = queue[j], jobs'[j] = None <=> jobs[j] = None, lock'[j] => lock[j],
           AttemptsOf(j)' = AttemptsOf(j), j \notin dropped',
           \A w \in Workers : wjob'[w] = j => wjob[w] = j,
           \A w \in Workers : wjob[w] = j =>
              wjob'[w] = j /\ wpc'[w] = wpc[w] /\ wack'[w] = wack[w],
           \A r \in Requests : Creates(r, j)' => Creates(r, j)
    PROVE  Calm(j)'
<1>1. Single(j)'
  BY DEF Calm, Single
<1>2. jobs'[j] = None => /\ queue'[j] = 0 /\ (\A w \in Workers : wjob'[w] # j)
                         /\ \A r \in Requests : ~Creates(r, j)'
  BY DEF Calm
<1>3. lock'[j] => \E w \in Workers : HeldBy(w, j)'
  BY DEF Calm, HeldBy
<1>4. \A w \in Workers : wjob'[w] = j => wack'[w]
  BY DEF Calm
<1>5. Unstarted(j)' => Unstarted(j)
  BY DEF Unstarted
<1>6. Unstarted(j)' => AttemptsOf(j)' = {}
  BY <1>5 DEF Calm
<1> QED
  BY <1>1, <1>2, <1>3, <1>4, <1>6 DEF Calm

\* A handler does nothing to other jobs.
LEMMA OtherJobs ==
    ASSUME TypeOK, NEW w \in Workers, WorkerStep(w) \/ \E i \in Jobs : Deliver(w, i),
           NEW j \in Jobs, wjob[w] # j, ~Deliver(w, j)
    PROVE  /\ wjob'[w] # j /\ queue'[j] = queue[j] /\ jobs'[j] = jobs[j] /\ lock'[j] = lock[j]
           /\ AttemptsOf(j)' = AttemptsOf(j) /\ (j \in dropped' => j \in dropped)
<1> USE DEF TypeOK, handling, storeVars, history
<1>1. CASE InsertAttempt(w)
  BY <1>1 DEF InsertAttempt, AttemptsOf, Attempt
<1>2. ASSUME NEW f \in BOOLEAN, FinishAttempt(w, f)
      PROVE  /\ wjob'[w] # j /\ queue'[j] = queue[j] /\ jobs'[j] = jobs[j] /\ lock'[j] = lock[j]
             /\ AttemptsOf(j)' = AttemptsOf(j) /\ (j \in dropped' => j \in dropped)
  BY <1>2 DEF FinishAttempt, AttemptsOf, AttemptRows, Attempt
<1>3. CASE SaveProcessing(w) \/ SaveCompleted(w) \/ SaveFailed(w)
  BY <1>3 DEF SaveProcessing, SaveCompleted, SaveFailed, SaveEntity, AttemptsOf
<1>4. CASE \/ AcquireLock(w) \/ LockBusy(w) \/ LoadJob(w) \/ AttemptConflict(w) \/ PublishRefused(w)
           \/ Release(w)
  BY <1>4 DEF AcquireLock, LockBusy, LoadJob, AttemptConflict, PublishRefused, Throw, Release,
     AttemptsOf
<1>5. CASE Settle(w)
  BY <1>5, NoneAssumption DEF Settle, Vacate, AttemptsOf
<1>6. CASE \/ AnnounceProcessing(w) \/ AuditProcessing(w) \/ RaiseAlert(w) \/ OpenIncident(w)
           \/ NotifyOutcome(w) \/ AuditOutcome(w) \/ AuditAlert(w) \/ AuditIncident(w)
           \/ PublishOutcome(w)
  BY <1>6 DEF AnnounceProcessing, AuditProcessing, RaiseAlert, OpenIncident, NotifyOutcome,
     AuditOutcome, AuditAlert, AuditIncident, PublishOutcome, AttemptsOf
<1>7. CASE SelectProcessing(w) \/ SelectCompleted(w) \/ SelectFailed(w)
  BY <1>7 DEF SelectProcessing, SelectCompleted, SelectFailed, AttemptsOf
<1>8. ASSUME NEW i \in Jobs, i # j, Deliver(w, i)
      PROVE  /\ wjob'[w] # j /\ queue'[j] = queue[j] /\ jobs'[j] = jobs[j] /\ lock'[j] = lock[j]
             /\ AttemptsOf(j)' = AttemptsOf(j) /\ (j \in dropped' => j \in dropped)
  BY <1>8 DEF Deliver, AttemptsOf
<1> QED
  BY <1>1, <1>2, <1>3, <1>4, <1>5, <1>6, <1>7, <1>8 DEF WorkerStep

\* The only handler of a calm job goes on, or is through with it, and finds its
\* lock, its attempt number and its channel as it needs them.
LEMMA OwnJob ==
    ASSUME TypeOK, Answered, NEW w \in Workers, WorkerStep(w),
           NEW j \in Jobs, wjob[w] = j, Calm(j)
    PROVE  /\ ~LockBusy(w) /\ ~AttemptConflict(w) /\ ~PublishRefused(w)
           /\ UNCHANGED <<queue, dropped>>
           /\ \/ wjob'[w] = None
              \/ wjob'[w] = j /\ wack'[w] = wack[w]
           /\ lock'[j] => HeldBy(w, j)'
           /\ wpc'[w] \in Early => UNCHANGED attempts /\ wpc[w] \in Early
<1>0. wack[w] /\ wlink[w] = "open" /\ queue[j] = 0 /\ (\A v \in Workers \ {w} : wjob[v] # j)
  <2>1. queue[j] \in Nat /\ ~(queue[j] > 0)
    BY DEF TypeOK, Calm, Single
  <2> QED
    BY <2>1 DEF Calm, Single, Answered
<1>1. lock[j] => wpc[w] \in Holding
  BY <1>0 DEF Calm, HeldBy
<1> USE DEF TypeOK, Goto, handling, history
<1>2. ~LockBusy(w) /\ ~AttemptConflict(w) /\ ~PublishRefused(w)
  <2>1. ~LockBusy(w)
    BY <1>1 DEF LockBusy, Holding, InTry, Owning, Auditing
  <2>2. ~AttemptConflict(w)
    <3>1. ASSUME wpc[w] = "attempt" PROVE AttemptRows(j, went[w].attemptCount) = {}
      BY <3>1 DEF Calm, Unstarted, Early, BeforeInsert, AttemptsOf, AttemptRows
    <3> QED
      BY <3>1 DEF AttemptConflict
  <2>3. ~PublishRefused(w)
    BY <1>0 DEF PublishRefused
  <2> QED
    BY <2>1, <2>2, <2>3
<1>3. CASE AcquireLock(w) \/ LoadJob(w)
  BY <1>1, <1>2, <1>3 DEF AcquireLock, LoadJob, HeldBy, Holding, InTry, Early, storeVars
<1>4. CASE \/ SelectProcessing(w) \/ SaveProcessing(w)
           \/ AnnounceProcessing(w) \/ AuditProcessing(w)
  BY <1>1, <1>2, <1>4 DEF SelectProcessing, SaveProcessing, SaveEntity, AnnounceProcessing,
     AuditProcessing, HeldBy, Holding, InTry, Early, BeforeInsert, storeVars
<1>5. CASE \/ InsertAttempt(w) \/ (\E f \in BOOLEAN : FinishAttempt(w, f))
           \/ SelectCompleted(w) \/ SelectFailed(w) \/ SaveCompleted(w)
           \/ SaveFailed(w) \/ RaiseAlert(w) \/ OpenIncident(w) \/ NotifyOutcome(w)
           \/ AuditOutcome(w) \/ AuditAlert(w) \/ AuditIncident(w) \/ PublishOutcome(w)
  <2>1. /\ wpc'[w] \in Owning \cup {"release"} /\ wpc'[w] \notin Early
        /\ UNCHANGED <<queue, dropped, wjob, wack, lock>>
    BY <1>5 DEF InsertAttempt, FinishAttempt, SelectCompleted, SaveCompleted, SelectFailed,
       SaveFailed, RaiseAlert, OpenIncident, NotifyOutcome, AuditOutcome, AuditAlert,
       AuditIncident, PublishOutcome, Owning, Auditing, Early, BeforeInsert
  <2> QED
    BY <1>1, <1>2, <2>1 DEF HeldBy, Holding, InTry
<1>6. CASE Release(w)
  BY <1>2, <1>6 DEF Release, Early, BeforeInsert
<1>7. CASE Settle(w)
  <2>1. ~lock[j]
    BY <1>1, <1>7 DEF Settle, Holding, InTry, Owning, Auditing
  <2>2. wpc'[w] = "idle" /\ wjob'[w] = None /\ UNCHANGED <<queue, dropped, lock>>
    BY <1>0, <1>7 DEF Settle, Vacate
  <2> QED
    BY <1>2, <2>1, <2>2 DEF Early, BeforeInsert
<1> QED
  BY <1>2, <1>3, <1>4, <1>5, <1>6, <1>7 DEF WorkerStep

\* A calm job stays calm whatever a handler does.
LEMMA CalmHandler ==
    ASSUME CalmInv, [Next]_vars, faults = 0,
           NEW w \in Workers, WorkerStep(w) \/ \E i \in Jobs : Deliver(w, i),
           NEW j \in Jobs, Calm(j)
    PROVE  Calm(j)'
<1>0. TypeOK /\ KeptInv /\ Idle /\ Answered
  BY DEF CalmInv, KeptInv
<1>1. /\ \A v \in Workers \ {w} : wpc'[v] = wpc[v] /\ wjob'[v] = wjob[v] /\ wack'[v] = wack[v]
      /\ \A r \in Requests : Creates(r, j)' = Creates(r, j)
  <2>1. Acts(w)
    BY DEF Acts
  <2> QED
    BY <1>0, <2>1, ActsFrame DEF Creates
<1>2. CASE wjob[w] # j /\ ~Deliver(w, j)
  <2>1. /\ wjob'[w] # j /\ queue'[j] = queue[j] /\ jobs'[j] = jobs[j] /\ lock'[j] = lock[j]
        /\ AttemptsOf(j)' = AttemptsOf(j) /\ (j \in dropped' => j \in dropped)
    BY <1>0, <1>2, OtherJobs
  <2>2. j \notin dropped'
    BY <2>1 DEF Calm
  <2>3. \A v \in Workers : wjob'[v] = j => wjob[v] = j
    BY <1>1, <2>1
  <2>4. \A v \in Workers : wjob[v] = j => wjob'[v] = j /\ wpc'[v] = wpc[v] /\ wack'[v] = wack[v]
    BY <1>1, <1>2
  <2> QED
    BY <1>1, <2>1, <2>2, <2>3, <2>4, CalmKept
<1>3. CASE Deliver(w, j)
  <2>1. /\ queue[j] > 0 /\ queue'[j] = 0 /\ wjob'[w] = j /\ wack'[w] /\ wpc[w] = "idle"
        /\ UNCHANGED <<jobs, lock, attempts, dropped>>
    BY <1>0, <1>3 DEF Deliver, TypeOK, Calm, Single, storeVars, history, Idle
  <2>2. (\A v \in Workers : wjob[v] # j) /\ (\A r \in Requests : ~Creates(r, j))
        /\ AttemptsOf(j) = {} /\ jobs[j] # None /\ ~lock[j]
    BY <2>1 DEF Calm, Single, Unstarted, HeldBy
  <2>3. \A v \in Workers : wjob'[v] = j <=> v = w
    BY <1>1, <2>1, <2>2
  <2>4. Single(j)'
    BY <1>1, <2>1, <2>2, <2>3 DEF Single
  <2>5. \A v \in Workers : wjob'[v] = j => wack'[v]
    BY <2>1, <2>3
  <2>6. AttemptsOf(j)' = {}
    BY <2>1, <2>2 DEF AttemptsOf
  <2> QED
    BY <2>1, <2>2, <2>4, <2>5, <2>6 DEF Calm
<1>4. CASE wjob[w] = j
  <2>0. WorkerStep(w)
    BY <1>0, <1>4, NoneAssumption DEF Deliver, Idle
  <2>1. /\ UNCHANGED <<queue, dropped>>
        /\ wjob'[w] = None \/ (wjob'[w] = j /\ wack'[w] = wack[w])
        /\ lock'[j] => HeldBy(w, j)'
        /\ wpc'[w] \in Early => UNCHANGED attempts /\ wpc[w] \in Early
    BY <1>0, <1>4, <2>0, OwnJob
  <2>2. /\ wack[w] /\ (\A v \in Workers \ {w} : wjob[v] # j) /\ ~(queue[j] > 0)
        /\ (\A r \in Requests : ~Creates(r, j)) /\ jobs[j] # None /\ j \notin dropped
    BY <1>4 DEF Calm, Single
  <2>3. \A v \in Workers : wjob'[v] = j => v = w
    BY <1>1, <2>2
  <2>4. jobs'[j] # None
    BY <1>0, <2>2, LimitKept
  <2>5. Single(j)'
    <3>1. queue'[j] <= 1 /\ ~(queue'[j] > 0)
      BY <2>1, <2>2 DEF Calm, Single
    <3> QED
      BY <1>1, <2>2, <2>3, <3>1 DEF Single
  <2>6. \A v \in Workers : wjob'[v] = j => wack'[v]
    BY <2>1, <2>2, <2>3, NoneAssumption
  <2>7. Unstarted(j)' => AttemptsOf(j)' = {}
    <3>1. Unstarted(j)' => wpc'[w] \in Early
      BY <1>1, <2>1, <2>2, <2>3, <2>4 DEF Unstarted
    <3>2. wpc'[w] \in Early => Unstarted(j) /\ UNCHANGED attempts
      BY <1>4, <2>1 DEF Unstarted
    <3> QED
      BY <3>1, <3>2 DEF Calm, AttemptsOf
  <2> QED
    BY <2>1, <2>2, <2>4, <2>5, <2>6, <2>7 DEF Calm
<1> QED
  BY <1>2, <1>3, <1>4

\* And whatever a request does, unless it is a retry of it.
LEMMA CalmServes ==
    ASSUME CalmInv, [Next]_vars, faults = 0,
           NEW r \in Requests, Serves(r), ~RequestAborts(r) /\ ~EnqueueLost(r),
           NEW j \in Jobs, Calm(j), ~Retried(j), ~Retried(j)'
    PROVE  Calm(j)'
<1>0. TypeOK /\ KeptInv /\ Idle /\ Answered
  BY DEF CalmInv, KeptInv
<1>1. /\ \A q \in Requests \ {r} : Creates(q, j)' = Creates(q, j)
      /\ UNCHANGED <<wpc, wjob, wack, attempts>>
  BY <1>0, ServesFrame DEF Creates
<1>2. UNCHANGED lock
  BY DEF Serves, RequestStep, Create, RetryLoad, RetryReject, RetrySelect, RetrySave,
     RecordCommand, NotifyQueued, Enqueue, Emit, SendRefused, RequestAborts, EnqueueLost, serving
<1>3. UNCHANGED dropped
  <2>1. ~SendRefused(r)
    BY <1>0 DEF SendRefused, Answered
  <2> QED
    BY <2>1 DEF Serves, RequestStep, Create, RetryLoad, RetryReject, RetrySelect, RetrySave,
     RecordCommand, NotifyQueued, Enqueue, Emit, serving, history
<1>4. j \notin dropped'
  BY <1>3 DEF Calm
<1>5. AttemptsOf(j)' = AttemptsOf(j)
  BY <1>1 DEF AttemptsOf
<1>6. CASE Create(r, j)
  <2>1. /\ jobs[j] = None /\ jobs'[j] # None /\ UNCHANGED queue
        /\ rpc'[r] = "record" /\ rjob'[r] = j /\ rkind'[r] = "job.created"
    <3>1. jobs'[j] \in Row
      <4>1. PICK p \in Payloads, m \in AttemptLimits :
               jobs'[j] = [status |-> "queued", attemptCount |-> 0, maxAttempts |-> m,
                           payload |-> p]
        BY <1>0, <1>6 DEF Create, TypeOK
      <4> QED
        BY <4>1 DEF Row, Status
    <3> QED
      BY <1>0, <1>6, <3>1, NoneAssumption DEF Create, TypeOK
  <2>2. queue[j] = 0 /\ (\A w \in Workers : wjob[w] # j) /\ (\A q \in Requests : ~Creates(q, j))
        /\ AttemptsOf(j) = {} /\ ~lock[j]
    BY <2>1 DEF Calm, Unstarted, HeldBy
  <2>3. Single(j)'
    BY <1>1, <2>1, <2>2 DEF Single
  <2> QED
    BY <1>1, <1>2, <1>4, <1>5, <2>1, <2>2, <2>3 DEF Calm
<1>7. CASE Enqueue(r) /\ rjob[r] = j
  <2>1. rpc[r] = "enqueue" /\ queue'[j] = queue[j] + 1 /\ rpc'[r] = "emit" /\ UNCHANGED jobs
    BY <1>0, <1>7 DEF Enqueue, serving, TypeOK
  <2>2. rkind[r] = "job.created"
    BY <1>0, <1>7, <2>1 DEF Answered, TypeOK
  <2>3. Creates(r, j)
    BY <1>7, <2>1, <2>2 DEF Creates, BeforeEnqueue
  <2>4. queue[j] = 0 /\ (\A w \in Workers : wjob[w] # j)
        /\ (\A q \in Requests \ {r} : ~Creates(q, j)) /\ AttemptsOf(j) = {} /\ jobs[j] # None
        /\ ~lock[j]
    <3>1. queue[j] \in Nat /\ ~(queue[j] > 0)
      BY <1>0, <2>3 DEF TypeOK, Calm, Single
    <3> QED
      BY <2>3, <3>1 DEF Calm, Single, Unstarted, HeldBy
  <2>5. ~Creates(r, j)'
    BY <2>1 DEF Creates, BeforeEnqueue
  <2>6. Single(j)'
    <3>1. queue'[j] = 1
      BY <2>1, <2>4
    <3> QED
      BY <1>1, <2>4, <2>5, <3>1 DEF Single
  <2> QED
    BY <1>1, <1>2, <1>4, <1>5, <2>1, <2>4, <2>6 DEF Calm
<1>8. CASE ~Create(r, j) /\ ~(Enqueue(r) /\ rjob[r] = j)
  <2>1. queue'[j] = queue[j]
    BY <1>0, <1>8 DEF Serves, RequestStep, Create, RetryLoad, RetryReject, RetrySelect, RetrySave,
       RecordCommand, NotifyQueued, Enqueue, Emit, SendRefused, RequestAborts, EnqueueLost,
       serving, TypeOK
  <2>2. jobs'[j] = None <=> jobs[j] = None
    <3>1. CASE jobs[j] # None
      BY <1>0, <3>1, LimitKept
    <3>2. CASE jobs[j] = None /\ jobs'[j] # jobs[j]
      <4>1. ASSUME NEW q \in Requests, Create(q, j) PROVE FALSE
        <5>1. q # r
          BY <1>8, <4>1
        <5>2. Serves(q) /\ rpc[q] = "idle" /\ rpc'[q] = "record"
          BY <1>0, <4>1 DEF Serves, Create, TypeOK
        <5> QED
          BY <1>0, <5>1, <5>2, ServesFrame
      <4>2. ASSUME NEW w \in Workers, SaveProcessing(w) \/ SaveCompleted(w) \/ SaveFailed(w)
            PROVE  FALSE
        BY <1>0, <1>1, <4>2 DEF SaveProcessing, SaveCompleted, SaveFailed, Goto, TypeOK
      <4>3. ASSUME NEW q \in Requests, rjob[q] = j, RetrySave(q) PROVE FALSE
        BY <1>0, <3>2, <4>3, RetrySaves, NoneAssumption
      <4> QED
        BY <1>0, <3>2, <4>1, <4>2, <4>3, RowChanges DEF TypeOK
    <3> QED
      BY <3>1, <3>2
  <2>3. Creates(r, j)' => Creates(r, j)
    BY <1>0, <1>8 DEF Creates, BeforeEnqueue, Serves, RequestStep, Create, RetryLoad, RetryReject,
       RetrySelect, RetrySave, RecordCommand, NotifyQueued, Enqueue, Emit, SendRefused,
       RequestAborts, EnqueueLost, serving, TypeOK, Idle, BeforeSave
  <2> QED
    BY <1>1, <1>2, <1>4, <1>5, <2>1, <2>2, <2>3, CalmKept
<1> QED
  BY <1>6, <1>7, <1>8

\* Before the first fault jobs stay calm until they are retried.
LEMMA CalmStep == CalmInv /\ [Next]_vars => CalmInv'
<1> SUFFICES ASSUME CalmInv, [Next]_vars PROVE CalmInv'
  OBVIOUS
<1>0. TypeOK /\ KeptInv /\ Idle
  BY DEF CalmInv, KeptInv
<1>1. KeptInv' /\ Idle'
  BY <1>0, KeptStep, IdleStep
<1>2. \A j : Retried(j) => Retried(j)'
  BY <1>0, RecordsGrow DEF Retried
<1>3. ASSUME faults' = 0 PROVE Answered' /\ \A j \in Jobs : ~Retried(j)' => Calm(j)'
  <2>1. faults = 0 /\ Answered /\ \A j \in Jobs : ~Retried(j) => Calm(j)
    BY <1>0, <1>3, NoFault DEF CalmInv
  <2>2. ASSUME NEW w \in Workers, WorkerStep(w) \/ \E i \in Jobs : Deliver(w, i)
        PROVE  Answered' /\ \A j \in Jobs : ~Retried(j)' => Calm(j)'
    <3>1. UNCHANGED <<alink, rpc, rjob, rkind>> /\ \A v \in Workers : wlink'[v] = wlink[v]
      BY <1>0, <2>1, <2>2 DEF Answered, WorkerStep, Deliver, AcquireLock, LockBusy, LoadJob,
         SelectProcessing, SaveProcessing, AnnounceProcessing, AuditProcessing, InsertAttempt,
         AttemptConflict, FinishAttempt, SelectCompleted, SaveCompleted, SelectFailed, SaveFailed,
         RaiseAlert, OpenIncident, NotifyOutcome, AuditOutcome, AuditAlert, AuditIncident,
         PublishOutcome, PublishRefused, Release, Settle, handling, requestVars, TypeOK
    <3>2. Answered'
      BY <1>2, <2>1, <3>1 DEF Answered
    <3> QED
      BY <1>2, <2>1, <2>2, <3>2, CalmHandler
  <2>3. ASSUME NEW r \in Requests, Serves(r), ~RequestAborts(r) /\ ~EnqueueLost(r)
        PROVE  Answered' /\ \A j \in Jobs : ~Retried(j)' => Calm(j)'
    <3>1. UNCHANGED <<alink, wlink>>
      BY <2>3 DEF Serves, RequestStep, Create, RetryLoad, RetryReject, RetrySelect, RetrySave,
         RecordCommand, NotifyQueued, Enqueue, Emit, SendRefused, RequestAborts, EnqueueLost,
         serving, workerVars
    <3>2. ASSUME rkind'[r] = "job.retried", rpc'[r] \in {"notify", "enqueue"}
          PROVE  \E e \in audit' : e.action = "job.retried" /\ e.job = rjob'[r]
      <4>1. CASE RecordCommand(r)
        <5>1. /\ UNCHANGED <<rkind, rjob, rent>>
              /\ Entry(rkind[r], rjob[r], rent[r].attemptCount) \in audit'
          BY <4>1 DEF RecordCommand, serving
        <5> QED
          BY <3>2, <5>1 DEF Entry
      <4>2. CASE NotifyQueued(r)
        <5>1. UNCHANGED <<rkind, rjob, audit>> /\ rpc[r] = "notify"
          BY <4>2 DEF NotifyQueued, serving
        <5> QED
          BY <2>1, <3>2, <5>1 DEF Answered, Retried
      <4>3. CASE ~RecordCommand(r) /\ ~NotifyQueued(r)
        BY <1>0, <2>3, <3>2, <4>3 DEF Serves, RequestStep, Create, RetryLoad, RetryReject,
           RetrySelect, RetrySave, Enqueue, Emit, SendRefused, RequestAborts, EnqueueLost, TypeOK
      <4> QED
        BY <4>1, <4>2, <4>3
    <3>3. ASSUME NEW q \in Requests \ {r},
                 rkind'[q] = "job.retried", rpc'[q] \in {"notify", "enqueue"}
          PROVE  \E e \in audit' : e.action = "job.retried" /\ e.job = rjob'[q]
      <4>1. UNCHANGED <<rkind[q], rpc[q], rjob[q]>>
        BY <1>0, <2>3, ServesFrame
      <4>2. Retried(rjob[q])
        BY <2>1, <3>3, <4>1 DEF Answered
      <4> QED
        BY <1>0, <4>1, <4>2, RecordsGrow DEF Retried
    <3>4. Answered'
      BY <2>1, <3>1, <3>2, <3>3 DEF Answered, Retried
    <3> QED
      BY <1>2, <2>1, <2>3, <3>4, CalmServes
  <2>4. CASE UNCHANGED vars \/ \E i \in Jobs : LockExpires(i)
    <3>1. /\ UNCHANGED <<jobs, attempts, audit, queue, wpc, wjob, wack, wlink, rpc, rjob, rkind,
                         alink, dropped>>
          /\ \A j \in Jobs : lock'[j] => lock[j]
      BY <1>0, <2>4 DEF LockExpires, vars, storeVars, workerVars, requestVars, history, TypeOK
    <3>2. Answered'
      BY <2>1, <3>1 DEF Answered, Retried
    <3>3. ASSUME NEW j \in Jobs, Calm(j) PROVE Calm(j)'
      BY <3>1, <3>3, CalmKept DEF AttemptsOf, Creates, Calm
    <3> QED
      BY <1>2, <2>1, <3>2, <3>3
  <2> QED
    BY <1>0, <1>3, <2>2, <2>3, <2>4, NoFault DEF CalmInv
<1> QED
  BY <1>1, <1>3 DEF CalmInv

\* Without faults and retries every accepted job is worked on until it is decided.
THEOREM OnlyRetriesLose == Spec => []OnlyRetriesLoseWork
<1>1. CalmInv /\ WorkConserved => OnlyRetriesLoseWork
  BY DEF CalmInv, Calm, WorkConserved, OnlyRetriesLoseWork
<1> QED
  BY <1>1, CalmInit, CalmStep, WorkIsConserved, PTL DEF Spec

-----------------------------------------------------------------------------
(* No reference to a job dangles. *)

\* Everything that was ever recorded about a job.
AllRecords == attempts \cup alerts \cup incidents \cup audit \cup notifications \cup events

\* Whoever names a job names one that has a row: messages, handlers, requests,
\* and every record.  So the worker never finds its job missing, and the foreign
\* keys from attempts and alerts to jobs never refuse an insert, although the row
\* was written by another process (job-processor.service.ts:58-61,
\* processing-attempt.entity.ts:23, alert.entity.ts:25).
JobsExist ==
    /\ \A j \in Jobs : queue[j] > 0 => jobs[j] # None
    /\ \A w \in Workers : wjob[w] # None => jobs[wjob[w]] # None
    /\ \A r \in Requests : rjob[r] # None => jobs[rjob[r]] # None
    /\ \A x \in AllRecords : jobs[x.job] # None

\* What a step records is about a job that was on record, or about that of its
\* handler or request.
LEMMA RecordOrigins ==
    ASSUME TypeOK, [Next]_vars, NEW x \in AllRecords'
    PROVE  \/ \E y \in AllRecords : y.job = x.job
           \/ \E w \in Workers : wjob[w] \in Jobs /\ x.job = wjob[w]
           \/ \E r \in Requests : rjob[r] \in Jobs /\ x.job = rjob[r]
<1> DEFINE Origin == \/ x \in AllRecords
                     \/ \E w \in Workers : wjob[w] \in Jobs /\ x.job = wjob[w]
                     \/ \E r \in Requests : rjob[r] \in Jobs /\ x.job = rjob[r]
<1> USE DEF AllRecords
<1>1. ASSUME NEW w \in Workers, InsertAttempt(w) \/ \E f \in BOOLEAN : FinishAttempt(w, f)
      PROVE  Origin
  <2>1. wjob[w] \in Jobs
    BY <1>1 DEF InsertAttempt, FinishAttempt, TypeOK
  <2>2. UNCHANGED <<alerts, incidents, audit, notifications, events>>
    BY <1>1 DEF InsertAttempt, FinishAttempt
  <2>3. \A a \in attempts' : a \in attempts \/ a.job = wjob[w]
    BY <1>1 DEF InsertAttempt, FinishAttempt, Attempt
  <2> QED
    BY <2>1, <2>2, <2>3
<1>2. ASSUME NEW w \in Workers, AnnounceProcessing(w) \/ AuditProcessing(w) \/ PublishOutcome(w)
      PROVE  Origin
  <2>1. wjob[w] \in Jobs
    BY <1>2 DEF AnnounceProcessing, AuditProcessing, PublishOutcome, TypeOK
  <2>2. UNCHANGED <<attempts, alerts, incidents, notifications>>
    BY <1>2 DEF AnnounceProcessing, AuditProcessing, PublishOutcome, storeVars
  <2>3. \A e \in audit' \cup events' : e \in audit \cup events \/ e.job = wjob[w]
    BY <1>2 DEF AnnounceProcessing, AuditProcessing, PublishOutcome, Entry, Event, storeVars
  <2> QED
    BY <2>1, <2>2, <2>3
<1>3. ASSUME NEW w \in Workers, RaiseAlert(w) \/ OpenIncident(w) \/ NotifyOutcome(w)
      PROVE  Origin
  <2>1. wjob[w] \in Jobs
    BY <1>3 DEF RaiseAlert, OpenIncident, NotifyOutcome, TypeOK
  <2>2. UNCHANGED <<attempts, audit, events>>
    BY <1>3 DEF RaiseAlert, OpenIncident, NotifyOutcome
  <2>3. \A e \in alerts' \cup incidents' \cup notifications' :
           e \in alerts \cup incidents \cup notifications \/ e.job = wjob[w]
    BY <1>3 DEF RaiseAlert, OpenIncident, NotifyOutcome, Entry
  <2> QED
    BY <2>1, <2>2, <2>3
<1>4. ASSUME NEW w \in Workers, AuditOutcome(w) \/ AuditAlert(w) \/ AuditIncident(w)
      PROVE  Origin
  <2>1. wjob[w] \in Jobs
    BY <1>4 DEF AuditOutcome, AuditAlert, AuditIncident, TypeOK
  <2>2. UNCHANGED <<attempts, alerts, incidents, notifications, events>>
    BY <1>4 DEF AuditOutcome, AuditAlert, AuditIncident
  <2>3. \A e \in audit' : e \in audit \/ e.job = wjob[w]
    BY <1>4 DEF AuditOutcome, AuditAlert, AuditIncident, Entry
  <2> QED
    BY <2>1, <2>2, <2>3
<1>5. ASSUME NEW r \in Requests, RecordCommand(r) \/ NotifyQueued(r) \/ Emit(r) PROVE Origin
  <2>1. rjob[r] \in Jobs
    BY <1>5 DEF RecordCommand, NotifyQueued, Emit, TypeOK, RequestPC
  <2>2. UNCHANGED <<attempts, alerts, incidents>>
    BY <1>5 DEF RecordCommand, NotifyQueued, Emit, serving
  <2>3. \A e \in audit' \cup notifications' \cup events' :
           e \in audit \cup notifications \cup events \/ e.job = rjob[r]
    BY <1>5 DEF RecordCommand, NotifyQueued, Emit, serving, Entry, Event
  <2> QED
    BY <2>1, <2>2, <2>3
<1>6. \/ UNCHANGED <<attempts, alerts, incidents, audit, notifications, events>>
      \/ \E w \in Workers :
            \/ InsertAttempt(w) \/ (\E f \in BOOLEAN : FinishAttempt(w, f))
            \/ AnnounceProcessing(w) \/ AuditProcessing(w) \/ PublishOutcome(w)
            \/ RaiseAlert(w) \/ OpenIncident(w) \/ NotifyOutcome(w)
            \/ AuditOutcome(w) \/ AuditAlert(w) \/ AuditIncident(w)
      \/ \E r \in Requests : RecordCommand(r) \/ NotifyQueued(r) \/ Emit(r)
  <2> USE DEF storeVars
  <2>1. ASSUME NEW w \in Workers, Acts(w)
        PROVE  \/ UNCHANGED <<attempts, alerts, incidents, audit, notifications, events>>
               \/ InsertAttempt(w) \/ (\E f \in BOOLEAN : FinishAttempt(w, f))
               \/ AnnounceProcessing(w) \/ AuditProcessing(w) \/ PublishOutcome(w)
               \/ RaiseAlert(w) \/ OpenIncident(w) \/ NotifyOutcome(w)
               \/ AuditOutcome(w) \/ AuditAlert(w) \/ AuditIncident(w)
    BY <2>1 DEF Acts, WorkerStep, Deliver, AcquireLock, LockBusy, LoadJob, SelectProcessing,
       SaveProcessing, AttemptConflict, SelectCompleted, SaveCompleted, SelectFailed, SaveFailed,
       PublishRefused, Release, Settle, HandlerThrows, RedisThrows, Crash, EndsWith, SetResent,
       DelResent, ConsumerCancelled, handling
  <2>2. ASSUME NEW r \in Requests, Serves(r)
        PROVE  \/ UNCHANGED <<attempts, alerts, incidents, audit, notifications, events>>
               \/ RecordCommand(r) \/ NotifyQueued(r) \/ Emit(r)
    BY <2>2 DEF Serves, Create, RetryLoad, RetryReject, RequestStep, RetrySelect, RetrySave,
       Enqueue, SendRefused, RequestAborts, EnqueueLost, serving
  <2>3. CASE Passes
    BY <2>3, PassesFrame
  <2> QED
    BY <2>1, <2>2, <2>3, StepKinds
<1> QED
  BY <1>1, <1>2, <1>3, <1>4, <1>5, <1>6

\* Rows are never deleted, and nobody hears of a job before it has one.
LEMMA ExistStep == KeptInv /\ JobsExist /\ [Next]_vars => JobsExist'
<1> SUFFICES ASSUME KeptInv, JobsExist, [Next]_vars PROVE JobsExist'
  OBVIOUS
<1>0. TypeOK /\ TypeOK'
  BY TypeStep DEF KeptInv
<1>1. \A j \in Jobs : jobs[j] # None => jobs'[j] # None
  BY LimitKept
<1>2. \A w \in Workers : wjob[w] \in Jobs => jobs[wjob[w]] # None
  BY NoneAssumption DEF JobsExist
<1>3. \A r \in Requests : rjob[r] \in Jobs => jobs[rjob[r]] # None
  BY NoneAssumption DEF JobsExist
<1>4. ASSUME NEW w \in Workers, wjob'[w] # None PROVE jobs'[wjob'[w]] # None
  <2>1. CASE UNCHANGED wjob[w]
    BY <1>0, <1>1, <1>2, <1>4, <2>1 DEF TypeOK
  <2>2. ASSUME NEW j \in Jobs, Deliver(w, j) PROVE jobs'[wjob'[w]] # None
    BY <1>0, <1>1, <2>2 DEF Deliver, JobsExist, TypeOK
  <2>3. CASE Settle(w) \/ Crash(w) \/ EndsWith(w)
    BY <1>0, <1>4, <2>3 DEF Settle, Crash, EndsWith, Vacate, TypeOK
  <2>4. Acts(w) \/ UNCHANGED wjob[w]
    BY <1>0, StepKinds, ActsFrame, ServesFrame, PassesFrame
  <2>5. \/ UNCHANGED wjob[w]
        \/ \E j \in Jobs : Deliver(w, j)
        \/ Settle(w) \/ Crash(w) \/ EndsWith(w)
    BY <2>4 DEF Acts, WorkerStep, AcquireLock, LockBusy, LoadJob, SelectProcessing,
       SaveProcessing, AnnounceProcessing, AuditProcessing, InsertAttempt, AttemptConflict,
       FinishAttempt, SelectCompleted, SaveCompleted, SelectFailed, SaveFailed, RaiseAlert,
       OpenIncident, NotifyOutcome, AuditOutcome, AuditAlert, AuditIncident, PublishOutcome,
       PublishRefused, Release, HandlerThrows, RedisThrows, SetResent, DelResent,
       ConsumerCancelled, workerVars, handling
  <2> QED
    BY <2>1, <2>2, <2>3, <2>5
<1>5. ASSUME NEW r \in Requests, rjob'[r] # None PROVE jobs'[rjob'[r]] # None
  <2>1. CASE UNCHANGED rjob[r]
    BY <1>0, <1>1, <1>3, <1>5, <2>1 DEF TypeOK
  <2>2. ASSUME NEW j \in Jobs, RetryLoad(r, j) PROVE jobs'[rjob'[r]] # None
    BY <1>0, <1>1, <2>2 DEF RetryLoad, TypeOK
  <2>3. ASSUME NEW j \in Jobs, Create(r, j) PROVE jobs'[rjob'[r]] # None
    <3>1. PICK p \in Payloads, m \in AttemptLimits :
             jobs'[j] = [status |-> "queued", attemptCount |-> 0, maxAttempts |-> m, payload |-> p]
      BY <1>0, <2>3 DEF Create, TypeOK
    <3>2. jobs'[j] \in Row
      BY <3>1 DEF Row, Status
    <3> QED
      BY <1>0, <2>3, <3>2, NoneAssumption DEF Create, TypeOK
  <2>4. Serves(r) \/ UNCHANGED rjob[r]
    BY <1>0, StepKinds, ActsFrame, ServesFrame, PassesFrame
  <2>5. \/ UNCHANGED rjob[r]
        \/ \E j \in Jobs : RetryLoad(r, j) \/ Create(r, j)
    BY <2>4 DEF Serves, RequestStep, RetryReject, RetrySelect, RetrySave, RecordCommand,
       NotifyQueued, Enqueue, Emit, SendRefused, RequestAborts, EnqueueLost, serving
  <2> QED
    BY <2>1, <2>2, <2>3, <2>5
<1>6. ASSUME NEW j \in Jobs, queue'[j] > 0 PROVE jobs'[j] # None
  <2>1. \/ queue[j] > 0
        \/ \E w \in Workers : wjob[w] = j
        \/ \E r \in Requests : rjob[r] = j
    <3>1. CASE \E w \in Workers : Acts(w)
      BY <1>0, <1>6, <3>1 DEF Acts, WorkerStep, Deliver, AcquireLock, LockBusy, LoadJob,
         SelectProcessing, SaveProcessing, AnnounceProcessing, AuditProcessing, InsertAttempt,
         AttemptConflict, FinishAttempt, SelectCompleted, SaveCompleted, SelectFailed, SaveFailed,
         RaiseAlert, OpenIncident, NotifyOutcome, AuditOutcome, AuditAlert, AuditIncident,
         PublishOutcome, PublishRefused, Release, Settle, HandlerThrows, RedisThrows, Crash,
         EndsWith, Redeliver, SetResent, DelResent, ConsumerCancelled, handling, TypeOK
    <3>2. CASE \E r \in Requests : Serves(r)
      BY <1>0, <1>6, <3>2 DEF Serves, RequestStep, Create, RetryLoad, RetryReject, RetrySelect,
         RetrySave, RecordCommand, NotifyQueued, Enqueue, Emit, SendRefused, RequestAborts,
         EnqueueLost, serving, TypeOK
    <3>3. CASE BrokerShutsDown
      <4> SUFFICES ASSUME Unacknowledged(j) = {} PROVE queue[j] > 0
        BY DEF Unacknowledged
      <4> DEFINE c == Cardinality(Unacknowledged(j))
      <4>1. c = 0 /\ queue'[j] = queue[j] + c /\ queue[j] \in Nat
        BY <1>0, <3>3, FS_EmptySet DEF BrokerShutsDown, TypeOK
      <4> HIDE DEF c
      <4> QED
        BY <1>6, <4>1
    <3>4. CASE UNCHANGED queue
      BY <1>6, <3>4
    <3> QED
      BY <3>1, <3>2, <3>3, <3>4, StepKinds DEF Passes, LockExpires, Finished, vars
  <2> QED
    BY <1>1, <1>2, <1>3, <2>1 DEF JobsExist
<1>7. ASSUME NEW x \in AllRecords' PROVE jobs'[x.job] # None
  <2>1. CASE \E y \in AllRecords : y.job = x.job
    <3>1. PICK y \in AllRecords : y.job = x.job
      BY <2>1
    <3>2. y.job \in Jobs /\ jobs[y.job] # None
      BY <1>0 DEF JobsExist, AllRecords, TypeOK
    <3> QED
      BY <1>1, <3>1, <3>2
  <2> QED
    BY <1>0, <1>1, <1>2, <1>3, <2>1, RecordOrigins
<1> QED
  BY <1>4, <1>5, <1>6, <1>7 DEF JobsExist

\* Nothing names a job that does not exist.
THEOREM NamedJobsExist == Spec => []JobsExist
<1>1. Init => JobsExist
  BY DEF Init, JobsExist, AllRecords
<1> QED
  BY <1>1, KeptInit, KeptStep, ExistStep, PTL DEF Spec
==============================================================================
