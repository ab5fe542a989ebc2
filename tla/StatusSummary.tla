----------------------------- MODULE StatusSummary -----------------------------
(***************************************************************************)
(* The processing summary (ProcessingStatusService): one count per status, *)
(* each a query of its own, all sent at once over the connections of a     *)
(* pool, while the rows they count move.  Of alerts and incidents only     *)
(* their leaving "open" matters, and no write takes one back to it.  An    *)
(* incident is raised and handled in a statement of its own, some time     *)
(* after its alert or never.  The average duration of attempts is left     *)
(* out.                                                                    *)
(***************************************************************************)
EXTENDS Naturals, FiniteSets

CONSTANTS Jobs,      \* jobs that may be created
          Alerts,    \* alerts that may be raised
          Incidents  \* incidents that may be opened

ASSUME RowsAssumption ==
    /\ IsFiniteSet(Jobs) /\ IsFiniteSet(Alerts) /\ IsFiniteSet(Incidents)
    /\ Jobs \cap (Alerts \cup Incidents) = {}

VARIABLES status,   \* status[x]: the status of row x, "none" before it exists
          running,  \* a summary is being made
          answered, \* its queries that have answered
          counts,   \* their answers
          seen      \* seen[x]: the statuses of x while the summary was made (bookkeeping)

vars == <<status, running, answered, counts, seen>>

Rows == Jobs \cup Alerts \cup Incidents
RowsOf(table) == CASE table = "jobs"      -> Jobs
                   [] table = "alerts"    -> Alerts
                   [] table = "incidents" -> Incidents

JobStatus == {"queued", "processing", "completed", "failed"}
Status == JobStatus \cup {"open", "handled", "none"}

Queries == [table : {"jobs"}, status : JobStatus]
             \cup [table : {"alerts", "incidents"}, status : {"open"}]

Init ==
    /\ status = [x \in Rows |-> "none"]
    /\ running = FALSE
    /\ answered = {}
    /\ counts = [q \in Queries |-> 0]
    /\ seen = [x \in Rows |-> {"none"}]

\* What the worker and the API do to a row: a job is created queued, and a save
\* of a handler or of a retry, which may be stale, takes it from any status to
\* any other.
MovesOf(x) ==
    IF x \in Jobs
    THEN {<<"none", "queued">>} \cup {move \in JobStatus \X JobStatus : move[1] # move[2]}
    ELSE {<<"none", "open">>, <<"open", "handled">>}

\* Rows move whether or not anybody counts them.
Move(x) ==
    /\ \E move \in MovesOf(x) :
          /\ status[x] = move[1]
          /\ status' = [status EXCEPT ![x] = move[2]]
          /\ seen' = IF running THEN [seen EXCEPT ![x] = @ \cup {move[2]}] ELSE seen
    /\ UNCHANGED <<running, answered, counts>>

-----------------------------------------------------------------------------
(* ProcessingStatusService.getStatusSummary *)

\* Mutant of BeginSummary: some answers of the last summary are reused.
BeginSummaryCached ==
    /\ ~running
    /\ running' = TRUE
    /\ answered' \in SUBSET {q \in Queries : q.table = "jobs"}
    /\ seen' = [x \in Rows |-> {status[x]}]
    /\ UNCHANGED <<status, counts>>

\* Promise.all sends the queries.
BeginSummary ==
    /\ ~running
    /\ running' = TRUE
    /\ answered' = {}
    /\ counts' = [q \in Queries |-> 0]
    /\ seen' = [x \in Rows |-> {status[x]}]
    /\ UNCHANGED status

\* Mutant of Matching: a join with another table that repeats rows.
MatchingJoined(q) == {x \in RowsOf(q.table) : status[x] = q.status} \X {1, 2, 3}

\* WHERE status = ...
Matching(q) == {x \in RowsOf(q.table) : status[x] = q.status}

\* One of the queries answers; the last answer makes the summary.
Count(q) ==
    /\ running
    /\ q \notin answered
    /\ answered' = answered \cup {q}
    /\ counts' = [counts EXCEPT ![q] = Cardinality(Matching(q))]
    /\ running' = (answered' # Queries)
    /\ UNCHANGED <<status, seen>>

\* One of them throws: Promise.all rejects, and the caller gets no summary.
CountFails ==
    /\ running
    /\ running' = FALSE
    /\ answered' = {}
    /\ UNCHANGED <<status, counts, seen>>

Next ==
    \/ \E x \in Rows : Move(x)
    \/ BeginSummary \/ CountFails
    \/ \E q \in Queries : Count(q)

Spec == Init /\ [][Next]_vars

-----------------------------------------------------------------------------
(* Properties *)

TypeOK ==
    /\ status \in [Rows -> Status]
    /\ running \in BOOLEAN
    /\ answered \subseteq Queries
    /\ running => answered # Queries
    /\ counts \in [Queries -> Nat]
    /\ \A q \in Queries : counts[q] <= Cardinality(RowsOf(q.table))
    /\ seen \in [Rows -> SUBSET Status]

\* However the queries interleave with the rows they count, an answer counts every
\* row that had its status all along and none that never had it: a job that
\* moves meanwhile is counted at most once for each status it had, and a summary
\* nobody disturbed is exact (processing-status.service.ts:27-40,
\* docs/api-overview.md:126-129).
CountsWithin ==
    \A q \in answered :
        /\ Cardinality({x \in RowsOf(q.table) : seen[x] = {q.status}}) <= counts[q]
        /\ counts[q] <= Cardinality({x \in RowsOf(q.table) : q.status \in seen[x]})
=============================================================================
