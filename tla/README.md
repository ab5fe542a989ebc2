# TLA+ verification of realtime-ops-platform

This directory holds TLA+ models of the platform's own logic, the TLC runs that
check them on small instances, and TLAPS proofs of what holds for every value of
the constants. Paths are relative to the repository root (`src/` in
`PROJECT.json`).

## The system

| Component | State | Operations | Talks to | What is hard |
| --- | --- | --- | --- | --- |
| Job service (API), `libs/application/src/jobs/job.service.ts` | `jobs`, `operator_actions`, audit and notification rows | `create`, `retry`, queries | database, work queue, event exchange | several statements without a transaction, check-then-act on a row read earlier, row saved before the message is sent |
| Job processor (worker), `job-processor.service.ts` | `jobs`, `processing_attempts`, `alerts`, `incidents`, `notifications`, audit | `process` (one delivery) | database, Redis lock, event exchange | up to ten deliveries in progress, redelivery, exceptions half way, stale entities |
| Redis lock, `libs/redis/src/redis-lock.service.ts` | one key per job, TTL 60 s | `acquireLock` (SET NX EX), `releaseLock` (DEL) | worker | expiry under a live holder, DEL without owner check, commands sent twice |
| Messaging, `libs/messaging/src/rabbitmq.service.ts` | durable work queue, `ops.events` exchange, durable gateway queue | `publishToQueue`, `publishEvent`, `consume`, `createEventConsumer` | all services | ack after the handler, nack without requeue, redelivery, no publisher confirms, nobody listens when the broker closes the connection |
| Realtime gateway, `apps/realtime-gateway/src` | Socket.IO rooms | connect, subscribe, unsubscribe, broadcast | gateway queue, clients | crash between broadcast and ack, rooms changing while events arrive, channel names looked up in an object literal |
| Alert and incident services, `alerts/`, `incidents/` | `alerts`, `incidents`, actions, audit | `create`, `acknowledge`, `resolve` | database, event exchange | read, check, save of entities by overlapping operators; two tables kept in step by two statements |
| Rate limiter, `libs/auth/src/redis-rate-limit.guard.ts` | a counter and its TTL per client and route | `canActivate` | Redis | INCR and EXPIRE are two round trips |
| Status summary, `jobs/processing-status.service.ts` | none | `getStatusSummary` | database | seven queries without a snapshot |
| Database set-up, `scripts/` | the schema and the baseline records | `db:setup`, `db:migrate`, `db:seed` | database | several processes at once, a server that is not up yet or goes away, interruptions between saves |
| Audit, notifications, health, HTTP layer, authentication | rows, or nothing | appends and reads | | see *Not modelled* |

What makes each correct:

- *Jobs*: no job is executed by two handlers at once; accepted work is not lost by
  crashes or redeliveries; a decided row has an execution behind it; a last failure gets its incident; no execution without
  an audit entry and no outcome without its record; an attempt has one owner and one
  outcome; events announce what the database already says; the documented life cycle
  and attempt limit.
- *Incidents*: critical alerts are escalated; a resolution is final; the alert
  follows its incident; whoever a row names is on record.
- *Rate limit*: at most the limit per window; windows end.
- *Fan-out*: queued events survive the gateway and are shown; connected clients miss
  nothing and see events in order.
- *Summary*: each count is one that rows justify.
- *Set-up*: a whole schema, a baseline without dangling references, seeded once; an
  interrupted setup never blocks the next; scripts end.

The hazards this code is exposed to are listed in `PROJECT.json`, each at its line
with the properties that would catch it.

## Modules

| Module | Models | Proved about in |
| --- | --- | --- |
| `JobLifecycle` | abstract: the life of a job row as the README's state diagram and `domain-model.md` describe it | `JobLifecycle_proofs` |
| `JobPipeline` | API, work queue, lock and workers together | `JobPipeline_proofs`, `JobRecords_proofs`, `JobLifecycle_proofs` |
| `IncidentLifecycle` | abstract: the transitions `docs/domain-model.md` allows an incident | |
| `IncidentResponse` | alert and incident commands, statement by statement | `IncidentResponse_proofs` |
| `RateLimit` | the rate-limiting guard and its Redis key | `RateLimit_proofs` |
| `RealtimeFanout` | event exchange, gateway queue, gateway, rooms, clients | `RealtimeFanout_proofs` |
| `StatusSummary` | the counts of `/processing/status` while rows move | `StatusSummary_proofs` |
| `DbSetup` | the three database scripts, several at once | `DbSetup_proofs` |
| `MC...` | small instances: payload sets and symmetry for TLC | |

Definitions whose comment begins "Mutant of" are deliberately wrong variants of the
definition that follows them; no specification uses them. They document which
mistake each property would notice.

### JobPipeline

*State.* `jobs` is the table of job rows (status, attemptCount, maxAttempts and what
the payload says about failing); `attempts`, `alerts`, `incidents`, `audit` and
`notifications` are sets of rows named by job and attempt number; `events` is what was
handed to the channel for the exchange (what becomes of it there is in
`RealtimeFanout`); `queue[j]` counts the messages for job `j` in `jobs.processing`; `lock[j]`
says that the key exists. A *worker* of the model is a delivery slot: RabbitMQ pushes
up to ten unacknowledged messages to a consumer (`prefetch(10)`), and their handlers
interleave at every `await`, in one process or in several. Each slot has a program
counter, the job of its message, its in-memory entity, the columns its `save` is going
to update, whether its message will be acknowledged, and the state of its AMQP channel.
Each API request has a program counter, a job, an entity and columns likewise; `alink`
is the channel of the API.

*Actions.* `Deliver`; then the body of `process`: `AcquireLock`/`LockBusy`,
`LoadJob`, `SelectProcessing`, `SaveProcessing`, `AnnounceProcessing`,
`AuditProcessing`, `InsertAttempt`/`AttemptConflict`, `FinishAttempt`, then
`SelectCompleted`, `SaveCompleted` or `SelectFailed`, `SaveFailed`, `RaiseAlert`,
`OpenIncident`, then `NotifyOutcome`, `AuditOutcome`,
`AuditAlert`, `AuditIncident`, `PublishOutcome`, `Release` (the `finally` block) and
`Settle` (ack or nack in `consume`). A request runs `Create`, or
`RetryLoad`/`RetryReject`, `RetrySelect` and `RetrySave`, then `RecordCommand`, `NotifyQueued`,
`Enqueue`, `Emit`.

*Faults.* An exception in the `try` block (`HandlerThrows`) or in a lock command
(`RedisThrows`, which may have taken effect); a lock command the Redis client repeats
after a reconnect (`SetResent`, `DelResent`: ioredis resends unanswered commands by
default); the death of a worker process (`Crash`: the message is redelivered, the lock
stays until its TTL); a request cut off (`RequestAborts`); a message that is lost after
`sendToQueue` returned (`EnqueueLost`: the channel has no publisher confirms, so what
was in a buffer of the client or the broker is gone with it and the command goes on); a broker that shuts down
(`BrokerShutsDown`: the unacknowledged messages return to the queue, handlers throw at
their next publication, idle processes stay deaf, `SendRefused` answers requests; a
handler that gets to its ack throws out of an async callback nobody awaits, which ends
the process, `Settle` for its own slot and `EndsWith` for the others of it); a cancelled consumer (`ConsumerCancelled`). `LockExpires` is not a fault. With
`SlowHolders = FALSE` it only frees the lock of a handler that is gone, that is, every
execution takes less than 60 s; with `TRUE` it may strike any time.

*Saves.* `save(entity)` of TypeORM reads the row again and then updates the columns in
which the entity differed from what it read, the first outside any transaction. The
`Select...` actions are the one statement (`wdiff`, `rdiff` the columns), the `Save...`
actions the other; whatever happens to the row in between, columns that did not differ
keep what they then hold. So rows nobody ever saved are reachable, such as `failed`
with `attemptCount` 3 where attempt 3 succeeded: attempt 2 fails, its handler selects,
its lock expires, another handler completes attempt 3, and the first one updates
nothing but `status`. Inserts have no row to compare with and are one statement; so is
the save of an attempt row, which only the handler that inserted it ever updates.

*Abstractions.* Columns no property
tells apart (name, type, priority, timestamps, lastError) are left out. The events of
one outcome are one step: `publish()` only writes to the channel, no answer is awaited
between them. The operator action and the audit entry of a request are one step.
Messages are counted per job; the order of messages of different jobs is not
represented, every delivery order is possible. The job row always exists at `LoadJob`,
because no code deletes jobs. Tables start empty: `scripts/seed-runner.ts` inserts rows
that no sequence of calls produces (a queued job without a message, jobs without
attempts), for which `WorkConserved` and `ExecutionAudited` do not hold. When the
broker shuts down every channel closes at once, that of the API too.

*Bookkeeping.* `dropped` collects the jobs of which the code gave up a message (busy
lock acknowledged, exception nacked) or an enqueue (aborted or refused request), or of
which a message never got to the broker; `cut`
the executions that were broken off after their attempt was inserted; `disturbed` the
jobs with a redelivered message or with a retry that was read during another one;
`faults` counts faults against `MaxFaults`.

### JobLifecycle

A job row is submitted, started, decided and, if it failed with attempts left, queued
again. A row may come *loose*: then nothing is promised about it. `JobPipeline` maps
its rows to this module and `disturbed` to `loose`, so `ImplementsLifecycle` says that
redelivered messages and overlapping retries are the only ways out of the documented
life cycle: slow handlers, exceptions, lost or repeated lock commands, aborted requests
and expiring locks never are. `IncidentLifecycle` plays the same part for incidents,
with the incidents that two commands handled at once (`contended`).

### IncidentResponse

A *command* is a `POST` request or a failure that a worker reports, each by an operator
of its own. `RaiseAlert` and `OpenIncident` are `AlertService.create` and the worker's
`markFailed`; `LoadIncident` is `getIncident`, the status check and the assignments to
the entity, with no `await` in between; `SelectIncident` and `SaveIncident` are the two
statements of `save`, as in `JobPipeline`; `UpdateAlert`, `RecordAction`, `RecordAudit`,
`Publish` are the other statements of `acknowledge` and `resolve`, `RecordIncidentAudit`
the second audit entry of a worker. What the worker audits and notifies of the job
itself is in `JobPipeline`. `Abort`
ends a command anywhere and notes it in `cut`. An incident has the id of its alert,
since `alertId` is unique and no code creates an incident without an alert.
`AlertService.acknowledge` is left out: no controller calls it.

### RateLimit

`count[k]` and `ttl[k]` are the Redis key; `Incr`, `Expire`, `Decide` the three
stretches of `canActivate`; `ExpireLost` the death of the process or a refused
command between the first two, `IncrResent` an INCR that Redis executed twice.
`window[k]` remembers the requests counted since the key was created.

### RealtimeFanout

`published` is the sequence of topic prefixes published and `routed` the numbers of
those the exchange put into the queue: before the gateway first bound it, or when the
publisher's connection is gone, a publication is lost. `pushed` are those the broker sent
to the gateway (no prefetch on that channel), `handled` those whose ack is on its way.
The handler of an event has no `await` before its ack, so `Broadcast` is one step: a
frame per room of `Targets` the socket is in. `Crash` empties rooms, disconnects
everyone and puts unacknowledged messages back at the head of the durable queue.
`BrokerShutsDown` puts them back too, while the gateway stays up, broadcasts what it had
been sent and hears nothing more (`listening`) until it is restarted. A payload that does not
parse cannot occur, since `publishEvent` serialises it; the nack branch is not modelled.
`CHANNEL_TO_ROOM` is an object literal, so a client may subscribe to the names it
inherits from `Object.prototype` (`Inherited`) as well as to its four channels: the
value found there serves as a room, in which nothing is ever emitted. Names it has
nothing for are skipped. A socket with a wrong token is disconnected before it joins anything and changes
nothing. There is one gateway, as in `docker-compose.yml`; several would compete for the
one queue, which nothing in the code provides for.

### StatusSummary

`status` holds the rows of jobs, alerts and incidents as far as the summary tells them
apart; `Move` is any save of the other services: late saves included, a job may go from
any status to any other. Each table has its own queries. `BeginSummary` sends the queries, `Count` answers one of them from the rows of that
moment, `CountFails` rejects the whole. `seen` remembers which statuses a row had since
the summary began.

### DbSetup

A *run* is one process of `db:setup`, `db:migrate` or `db:seed`. `Connect`/`ConnectFails`
are `AppDataSource.initialize` with the retries of `waitForDatabase`; `FindRegistry`,
`CreateRegistry`, `RegistryRefused` are the migrations table of TypeORM, which it looks
for and creates if it did not find it, two statements that two runs may interleave;
`ReadMigrations`, `Create`, `Commit`, `CreateRefused` the migration, which runs in one
transaction, so that names created in it are locked until it ends and its
statements vanish when its connection does; `CountJobs` is `seedIfEmpty`, `Save` one save
of `seedRunner`, `Throw` the `main().catch`. `Kill`, `ServerStops` and `ServerStarts` are
the environment, `ClientCreates` the services that create jobs of their own once there
are tables. `history` notes the runs whose server or process went away, those that another
one overtook when they were about to create what it created, those that counted no jobs
while another one had too, and those that connected before there was a schema.

## Runs

| Run | Checks | Instance |
| --- | --- | --- |
| `jobs_faults` | `TypeOK`, `MutualExclusion`, `HolderKeepsLock`, `ExecutionAudited`, `EventsFollowCommits`, `OutcomesOnRecord`; with fairness `LockFreed`, `WorkDecided` | 1 job, 2 slots, 2 requests, limits 1 and 2, one fault: crash, exception, abort, lost message, broker shutdown or cancelled consumer; 0.2 million states |
| `jobs_slow` | `WorkConserved`, `EscalationConserved`, `RowsTruthful`, `WithinLimit`, `AttemptOwnership`, `OwnAttempt`, `AttemptFinal`, `ImplementsLifecycle` | 1 job, 2 slots, 3 requests, slow holders, one fault: crash, exception, abort, lost message or a repeated Redis command; 2.1 million states |
| `incidents` | `TypeOK`, `EscalationComplete`, `AlertFollowsIncident`, `NamedOperatorsOnRecord`, `BroadcastsAudited`, `AlertInStep`, `ImplementsIncidentLifecycle` | 1 alert, 4 overlapping commands, each of which may be cut off; 1.1 million states |
| `rate_limit` | `TypeOK`, `WindowLimit`, `ExpiryComing`; with fairness `WindowsEnd` | 2 keys, 4 requests, limit 2, failures |
| `fanout` | `TypeOK`, `EventsKept`, `ConnectedMissNothing`, `InOrder`; with fairness `EventsShown` | 2 clients, 2 events of 2 families, a channel, an inherited and an unknown name, 2 faults |
| `status_summary` | `TypeOK`, `CountsWithin` | 1 job, 2 alerts, 1 incident; 4 million states |
| `db_setup` | `TypeOK`, `NothingDangles`, `FailuresExplained`, `SeededOnce`, `BaselineThere`; with fairness `ScriptsEnd` | 2 runs of any script, 2 tries, 2 outages, 1 kill |
| `lost_retry`, `rerun_completed`, `double_retry`, `resolution_undone`, `window_never_ends` | counterexamples, see *Findings* | |

*Bounds.* The hazards need two actors on one object, so one job (alert) with two
slots or a few commands shows every conflict; jobs share no state except the slots and
channels. Three requests are a creation and two retries, the fewest for a double retry
and for a stale save over a finished run. Limits 1 and 2, with a payload that fails the
first time (`jobs_faults`), give a failure that is the last one, one that is not, and a
success after a retry; `jobs_slow` takes one that succeeds at once and one that fails
twice, so that a third execution, which two overlapping retries or a redelivery cause,
comes out differently from the second, and a late save puts the status of the one next to
the count of the other, for either outcome. One fault in the pipeline is what TLC can afford next to every interleaving; a
fault returns the system to a state with the same components, and the theorems remove
the bound for the invariants they cover. Four commands are a creation, an
acknowledgement and two resolutions, or any other mix. Four requests with limit 2 fill
a window, exceed it and open the next. Two events and two faults give an event before,
between and after redeliveries, one of which interrupts another. Two outages let the server
leave twice during one script. Of the summary, jobs are the only rows with more than one
query, so one of them is enough for what a moving row does to two counts, and two alerts
for a count above one. `jobs_slow`, `incidents` and `status_summary` use
symmetry; runs with liveness properties do not.

*Fairness.* `FairSpec` of `JobPipeline` assumes that the broker delivers to a slot that
has room, that a running handler and a running request go on (each `await` is answered
or rejects), and that Redis expires keys. Nobody has to issue a request and no fault has
to happen. A worker that crashed is an idle slot again, which assumes somebody restarts
it; a slot whose consumer is gone is not restarted, and `WorkDecided` excuses the state
in which nobody listens any more. `FairSpec` of `RateLimit` assumes the same of guards
and TTLs. That of `RealtimeFanout` assumes that the broker pushes to a consumer without
prefetch and that the gateway's event loop gets to every message; nobody has to restart
the gateway, so `EventsShown` promises nothing when it has stopped listening. That of
`DbSetup` only assumes that a script gets to its next statement: the server may stay
away for ever.

*Deadlock.* `db_setup` does not check for deadlock, since scripts end. The other runs
do: where everything is served there is an explicit `Finished` step.

## Findings

- `lost_retry` (`job-processor.service.ts:51`): a message that finds the lock busy is
  acknowledged. A retry between the save of `failed` and the `DEL` is therefore lost;
  the job stays `queued` and cannot be retried. `README.md:84` has queued jobs
  consumed.
- `rerun_completed` (`job-processor.service.ts:63`): a redelivered message runs a
  completed job again; `README.md:88` has `completed` final.
- `double_retry` (`job.service.ts:187`): two concurrent retries exceed `maxAttempts`,
  against `README.md:131`.
- `resolution_undone` (`incident.service.ts:23`): an overlapping acknowledgement writes
  `acknowledged` over `resolved`, since its save updates the columns in which its entity
  differs from the row by then, against `docs/domain-model.md:75`.
- `window_never_ends` (`redis-rate-limit.guard.ts:51`): a lost EXPIRE leaves a counter
  for ever, against "Fixed-window counter" in `docs/security.md:38`.

`docs/websocket-flow.md:45` says that unknown channel names are ignored. The lookup at
`realtime-events.gateway.ts:85` is in an object literal, so a name such as `toString`,
which it inherits, is joined as a room of its own and answered as subscribed; the model
does the same (`Inherited`). No event is ever sent to such a room, so no property is lost
by it and there is no run for it.

That locks are lost under slow holders follows from the TTL; `jobs_slow` shows what the
unique index on attempts still guarantees then.

## Proofs

All theorems hold for every value of the constants, every number of actors and every
bound on faults. The assumptions are those stated next to the constants
(`LimitsAssumption`, `PayloadsAssumption`, `WorkersAssumption`, `NoneAssumption` and so
on), plus the two hypotheses of `LockSafe` and `LockKept`. Every invariant is
inductive only together with others; what has to be added is the point of each proof.

The theorems are of two sorts. Those that carry a `property` in `PROJECT.json` state what
a run checks. The others state formulas defined next to the proof, which TLC was asked
about on the same instances before they were proved and which no run repeats. Several of
them bound a finding: they say that what the code does wrong in the run needs exactly
the disturbance the run contains.

| Finding | What is proved |
|---|---|
| `rerun_completed` | `CompletedIsFinal`: a completed job stays as it is unless a message of it was redelivered or two retries of it overlapped |
| `double_retry` | `LimitIsKept`, `ExecutionsAreCounted`: likewise for executions beyond `maxAttempts` |
| `lost_retry` | `OnlyRetriesLose`: without faults only a job that was retried loses its message |
| `resolution_undone` | `ResolutionIsFinal`: a resolved incident stays so unless commands overlapped on it |
| `window_never_ends` | `ExpiryComes`: a counter without a TTL is one whose EXPIRE is under way or was lost |

`JobPipeline_proofs`
- `TypeCorrect`: action by action.
- `LockSafe`, `LockKept`: if `~SlowHolders` and commands are not repeated,
  `MutualExclusion` and `HolderKeepsLock`. Neither is inductive alone: a handler may
  enter because the lock is free, which excludes a second holder only if holders keep
  their lock; and a holder keeps its lock only if no second holder releases it. Their
  conjunction with `TypeOK` (`LockInv`) is inductive.
- `LocksAreHeld`: a lock that is set has a handler that works on its job, also with slow
  holders, unless a crash, the end of a process whose ack was refused, a failed call or a
  repeated Redis command came before:
  taking the lock makes a holder and only freeing it ends one. So the messages that
  `LockBusy` gives up are given up in favour of somebody.
- `WorkIsConserved`: inductive with `TypeOK`, without any assumption on locks: each step
  that stops backing a job saves a decision, passes the job on, or puts it into
  `dropped`; a broker that shuts down turns slots into queued messages. Since a save
  updates only what differed, a handler at its last UPDATE decides the job only if that
  is going to write the status (`Bound`); if it is not, the status was decided already
  when the handler selected, and whoever changed it since is bound to the job itself.
  A message that is lost after `sendToQueue` is the exception the property states.
- `AttemptsOwned`, `OwnersFindTheirRow`, `AttemptsFinal`: the inductive invariant is
  `AttemptOwnership` with `OwnAttempt`. A handler between its insert and its end is the
  only one with its attempt number, because the unique index refuses a second insert as
  long as the row is there, and the row is there because only its owner touches it.
  Finality follows, since `FinishAttempt` only ever replaces its own `started` row.

`JobRecords_proofs` and `JobLifecycle_proofs` take a step apart by who makes it: a slot
(`Acts`), a request (`Serves`) or neither (`Passes`). Frame lemmas say what each leaves
alone, so that an invariant that speaks of single slots and requests is proved for the
one that moves.

`JobRecords_proofs`
- `ExecutionsAreAudited`: `KnownInv`: where a message is, waits or is worked on, the job's
  creation was audited, since the API records a command before it sends the message, and
  a retry only finds rows that a worker had decided.
- `EventsAreBacked`: `Recorded` and `Noted` list what the earlier stages of a handler or
  request have left on record at each stage; records only grow, and attempts are final.
- `OutcomesAreRecorded`: in addition the index on attempts (`Unique`), which makes the
  attempt a handler is about to record the one it decided.
- `RecordsAreTruthful`: every audit entry, notification, alert and incident about an
  outcome names an attempt that ended that way; an incident has a critical alert. It
  needs `RecordInv` (what a handler decided before it writes) and where a new entry can
  come from (`EntryOrigins`). `StoriesAgree` adds the unique index: no attempt is told
  as completed in one place and as failed in another, even if two handlers ran the job
  side by side.

`JobLifecycle_proofs`
- `LimitIsKept`, `RowsLiveTheirLife`: `TidyInv`: an undisturbed job has at most one agent,
  a message, a handler on its way to a decision or a request, and the agent knows
  what the row says: a message is one for a `queued` row, an executing handler holds
  the row itself, a retry in flight the `failed` row with attempts left; between the two
  statements of a save the columns to be updated are those in which the entity differs
  from the row as it is (`Prepared`). So a stale save cannot happen to it, and each
  UPDATE is a step of `JobLifecycle` that writes the whole entity. Neither the lock nor
  its expiry is mentioned: life cycle and limit do not depend on it.
- `EscalationsAreConserved`: of a job whose row counts a failed last attempt, whatever
  its status says. `KeptInv`: entities have the limit of their row, so that a handler and
  the row agree on `Exhausted`. `Followed`: as long as the failure is not escalated,
  somebody is going to move the row on to the count of an attempt of their own. A
  handler at its last UPDATE does so only if the row counts its attempt already or the
  UPDATE writes the count (`Follows`); a late one that would leave the count of another
  execution follows nobody, and the proof does not rely on it.
- `RowsAreTruthful`: for all jobs, disturbed or not, a completed or failed row has an
  attempt that ended so (`RecordInv`: the attempt is decided before the row, and who
  writes another status is at another stage, `EntitiesNamed`); of an undisturbed job it
  is the attempt the row counts, because no row of it is mixed from two entities
  (`TidyInv`). Of a disturbed job that is false: see *Saves*.
- `EscalationsAreJustified`: for all jobs, alerts are critical from the last allowed
  attempt on and not before: `RecordInv` and `KeptInv`.
- `OneHandlerExecutes`, `NoSaveIsStale`, `CompletedIsFinal`: what `TidyInv` says of an
  undisturbed job, without the lock: one handler at a time is on its way to decide it;
  `save(job)` overwrites nothing its reader did not see and leaves the row as its writer
  computed it, so that the read and the two statements of the save are as good as one
  transaction; a completed row is never written again.
- `ExecutionsAreCounted`: the rows of `processing_attempts` of an undisturbed job carry
  the numbers `1 .. attemptCount` at most once each, so there are at most `maxAttempts`
  of them, and the unique index never refuses an insert. `CountInv` adds to `TidyInv`
  that a handler that incremented the count has a number above every row (`Numbered`).
- `RetriesAreHonest`: a retry on record, of any job, was within the limit and answers a
  failure of the job that is on record; of an undisturbed job that of the attempt it
  names (`Answerable`). It rests on `RowsAreTruthful`, and stays so because outcomes are
  final and limits do not change. A mixed row may make the audit name an attempt of a
  disturbed job that had succeeded, which is why it says no more of those.
- `OnlyRetriesLose`: `CalmInv`: while no fault has happened, a job that was never retried
  has one message, handler or creating request (`Single`), so nobody finds its lock busy
  and nothing of it is dropped.
- `NamedJobsExist`: messages, handlers, requests and all records name jobs with a row,
  which justifies leaving out the early return of `process` for a missing job and
  the foreign keys to `jobs`.

`IncidentResponse_proofs`
- `TypeCorrect` carries `Engaged`: a command in flight has an alert whose incident, if
  it needs one, exists.
- `EscalationIsComplete`, `AlertsFollow`: inductive with `IInv`, which adds to
  `TypeOK` that a command that was cut off is over: it never loses its excuse.
- `AcknowledgerIsNamed` needs the same of the entities that commands hold in memory, and
  of the columns an UPDATE leaves alone;
  `OperatorsOnRecord` needs that an entity names no operator but those on record and
  the one who holds it; `BroadcastsAreAudited` that a command at "publish" was audited.
- `AlertsInStep` and `LifecycleImplemented` rest on `AloneInv`: unless the incident is
  contended, at most one command is between its load and its update, its entity is
  the row as it stands with the command applied, and the columns it has selected are
  those in which the two differ, so that its UPDATE writes the entity. `OpeningInv` adds that only the command
  that raised an alert opens its incident.
  The refinement maps `SaveIncident` to an abstract transition and every other step to
  a stutter or to a row that comes loose.
- `ResolutionIsFinal`: from `AloneInv` as well, saves on an incident without overlap are
  made from the row as it is, and a resolved row is never written again.
  `ResolverIsNamed`: hence whoever is on record (`operator_actions`, audit) as the
  resolver is the one the row names; `ResolverInv` adds the commands that have saved
  their resolution and not recorded it yet.

`RateLimit_proofs`
- `LimitHolds`: the requests of one window got pairwise different answers from INCR
  (even when it ran twice), so that those admitted inject into `1 .. MaxRequests`.
- `ExpiryComes`: the request that created the key is still there to set its TTL.
- `RefusalsAreJustified`: the counter is never ahead of the requests of its window
  (`Accounted`; twice their number where an INCR may be sent twice), so a refusal means
  that the window had its `MaxRequests`: interleaved round trips count nobody twice.

`RealtimeFanout_proofs`
- `EventsAreKept`, `NothingMissed`: `Kept` adds that what the gateway still handles
  after the broker has closed the connection is back in the queue as well, and that
  what it handled was shown.
- `SeenInOrder`: `Order`: what a client has comes before what the gateway still has, and
  that before what is in the queue, until the broker has taken it back; each is
  ascending, and an inbox holds no event more than twice.
- `FramesAreGenuine`: `Source`: whatever waits, is handled or was received was routed, and
  before any fault what was broadcast does not wait to be broadcast again; it needs
  `Order` for the step that broadcasts.
- `TwiceIsByRoom`: on one connection an event comes twice only if its topic has a
  channel: a redelivery alone shows nobody the same frame twice.

`StatusSummary_proofs`
- `CountsBounded`: whoever had the counted status at the moment of the answer has
  it among those seen since, and whoever never had another one was counted, query by
  query, each on its own table.

`DbSetup_proofs`
- One inductive invariant, `SetupInv`, relates where a run is to the saves behind it
  (`SavedRows`, `Place`), to the schema and the open transaction (`Order`), to the runs
  it met (`HotPaired`), to why it failed (`Excused`) and to the jobs in the table
  (`JobsThere`); the five theorems follow from it. A run that is about to create the
  migrations table or a table of the schema after somebody else did has been overtaken
  by it (`rivals`), and only a seed that connected before there was a schema (`early`)
  gets to count jobs without one.

Only model-checked: liveness (`LockFreed`, `WorkDecided`, `WindowsEnd`, `EventsShown`,
`ScriptsEnd`), which rests on fairness and is out of the prover's reach. Every other
property of a passing run is proved as well.

## Not modelled

Operator authentication (a stateless comparison), the HTTP layer (validation and
formatting around one service call each), queries and pagination, readiness probes
except for the event they publish, `AlertService.acknowledge` (no caller), the down
migration (no script runs it), the average duration in the summary, connection set-up
of the services. The models are not composed further: the gateway reads nothing but the
queue, `EventsFollowCommits` is the relation between a published event and the rows,
and `EventsKept` and `InOrder` take it from the exchange to the client. The seeded rows
are not an initial state of the pipeline (see *JobPipeline*).
