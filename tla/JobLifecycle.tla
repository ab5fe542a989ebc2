---------------------------- MODULE JobLifecycle ----------------------------
(***************************************************************************)
(* What the platform promises about the row of a job in PostgreSQL, with   *)
(* no worker, queue, lock or request in sight: a row is created queued,    *)
(* one execution at a time takes it to processing and decides it, and only *)
(* a failed job with attempts left goes back to the queue.  A row may come *)
(* loose: then nothing is promised about it any more.  In JobPipeline rows *)
(* come loose by a redelivered message and by overlapping retries of a     *)
(* job, and by nothing else.                                               *)
(***************************************************************************)
EXTENDS Naturals

CONSTANTS Jobs,           \* ids of the jobs that may be created
          AttemptLimits,  \* the values CreateJobDto accepts as maxAttempts
          None            \* "no row"

VARIABLES rows,  \* rows[j]: the lifecycle columns of job j
          loose  \* jobs about which nothing is promised

vars == <<rows, loose>>

Row == [status : {"queued", "processing", "completed", "failed"},
        attemptCount : Nat,
        maxAttempts : AttemptLimits]

Init == rows = [j \in Jobs |-> None] /\ loose = {}

\* POST /jobs: the row starts queued with no attempt made.
Submit(j, m) ==
    /\ rows[j] = None
    /\ rows' = [rows EXCEPT ![j] = [status |-> "queued", attemptCount |-> 0, maxAttempts |-> m]]
    /\ UNCHANGED loose

\* A worker claims a queued job; the attempt counts from here.
Start(j) ==
    /\ rows[j] # None
    /\ rows[j].status = "queued"
    /\ rows' = [rows EXCEPT ![j].status = "processing", ![j].attemptCount = @ + 1]
    /\ UNCHANGED loose

\* The execution that started the attempt decides it.
Decide(j, verdict) ==
    /\ rows[j] # None
    /\ rows[j].status = "processing"
    /\ rows' = [rows EXCEPT ![j].status = verdict]
    /\ UNCHANGED loose

\* POST /jobs/:id/retry: failed jobs only, while attempts are left.
Requeue(j) ==
    /\ rows[j] # None
    /\ rows[j].status = "failed"
    /\ rows[j].attemptCount < rows[j].maxAttempts
    /\ rows' = [rows EXCEPT ![j].status = "queued"]
    /\ UNCHANGED loose

\* Rows may come loose several at a time: a broker returns every message at once.
Loosen(js) ==
    /\ loose' = loose \cup js
    /\ UNCHANGED rows

\* Any change to the row of a job that came loose.
Drift(j) ==
    /\ j \in loose
    /\ DOMAIN rows' = Jobs
    /\ rows'[j] \in Row
    /\ \A i \in Jobs \ {j} : rows'[i] = rows[i]
    /\ UNCHANGED loose

Next ==
    \/ \E j \in Jobs : \/ \E m \in AttemptLimits : Submit(j, m)
                       \/ Start(j)
                       \/ \E verdict \in {"completed", "failed"} : Decide(j, verdict)
                       \/ Requeue(j)
                       \/ Drift(j)
    \/ \E js \in SUBSET Jobs : Loosen(js)

Spec == Init /\ [][Next]_vars

-----------------------------------------------------------------------------

TypeOK == /\ DOMAIN rows = Jobs
          /\ \A j \in Jobs : rows[j] # None => rows[j] \in Row

\* No job that did not come loose is executed more often than its maxAttempts,
\* and a queued one always has an attempt left: the retry gate (job.service.ts:193)
\* read together with the place where the worker counts attempts
\* (job-processor.service.ts:69).
WithinLimit ==
    \A j \in Jobs \ loose : rows[j] # None =>
        /\ rows[j].attemptCount <= rows[j].maxAttempts
        /\ rows[j].status = "queued" => rows[j].attemptCount < rows[j].maxAttempts
=============================================================================
