-------------------------------- MODULE DbSetup --------------------------------
(***************************************************************************)
(* Setting up the database: the scripts db:setup, db:migrate and db:seed,  *)
(* run by a developer or by docker compose before it starts the services,  *)
(* possibly several at once, against a server that comes and goes.  Each   *)
(* run is one process of one script; the migration is one transaction of   *)
(* the migration library, the seed a transaction for each save.            *)
(***************************************************************************)
EXTENDS Naturals, Sequences

CONSTANTS Runs,        \* processes of the three scripts
          MaxRetries,  \* MAX_RETRIES
          MaxOutages,  \* bound on how often the server stops
          MaxKills,    \* bound on killed processes
          None         \* "nobody"

ASSUME BoundsAssumption ==
    MaxRetries \in Nat \ {0} /\ MaxOutages \in Nat /\ MaxKills \in Nat
ASSUME RunsAssumption == None \notin Runs

VARIABLES
    online,    \* the server accepts connections
    registry,  \* the migration library has its table of executed migrations
    schema,    \* how many statements of the migration are committed
    created,   \* how many the open migration transaction has executed
    migrator,  \* the run whose transaction that is, or None
    rows,      \* <<r, batch>>: what run r has seeded
    used,      \* a client has created a job through the API
    script,    \* script[r]: the script of run r
    pc,        \* pc[r]: where it is
    tries,     \* tries[r]: connections that failed
    saved,     \* saved[r]: saves of the seed that are behind it
    outages, kills,
    history    \* bookkeeping, see the next definitions

server == <<online, outages>>
data == <<registry, schema, rows>>
tx == <<created, migrator>>
vars == <<server, data, tx, used, script, pc, tries, saved, kills, history>>

\* history is <<broken, rivals, paired, early>>: runs whose server went away or that
\* were killed; runs that another one overtook when they were about to create what
\* it created; runs that counted no jobs while another one had counted none and
\* not inserted any yet; and runs that connected before there was a schema.
broken == history[1]
rivals == history[2]
paired == history[3]
early == history[4]

Scripts == {"setup", "migrate", "seed"}

\* InitialSchema.up: a table with its types and indexes in each place, the foreign
\* keys between them in the last.
Up == <<"jobs", "processing_attempts", "alerts", "incidents", "notifications",
        "operator_actions", "audit_entries", "foreign_keys">>
Tables == {Up[i] : i \in 1 .. schema}
Migrated == schema = Len(Up)

\* seedRunner: one save after the other.
Seed == <<"jobs", "alerts", "incidents", "notifications", "audit_entries">>
Batches == {Seed[i] : i \in DOMAIN Seed}

Batch(r) == {b \in Batches : <<r, b>> \in rows}
Seeded == {r \in Runs : Batch(r) # {}}

Init ==
    /\ online \in BOOLEAN /\ outages = 0
    /\ registry = FALSE /\ schema = 0 /\ created = 0 /\ migrator = None
    /\ rows = {} /\ used = FALSE
    /\ script \in [Runs -> Scripts]
    /\ pc = [r \in Runs |-> "idle"]
    /\ tries = [r \in Runs |-> 0]
    /\ saved = [r \in Runs |-> 0]
    /\ kills = 0
    /\ history = <<{}, {}, {}, {}>>

Goto(r, place) == pc' = [pc EXCEPT ![r] = place]

Working == {"connecting", "migrating", "registering", "reading", "creating", "counting",
            "seeding"}

\* Somebody starts a script; compose, or a developer who is told it failed, may run
\* it again.
Launch(r) ==
    /\ pc[r] = "idle"
    /\ Goto(r, "connecting")
    /\ UNCHANGED <<server, data, tx, used, script, tries, saved, kills, history>>

-----------------------------------------------------------------------------
(* db-setup.ts, migrate.ts, seed.ts *)

FirstStep(r) == IF script[r] = "seed" THEN "counting" ELSE "migrating"

\* AppDataSource.initialize.
Connect(r) ==
    /\ pc[r] = "connecting"
    /\ online
    /\ Goto(r, FirstStep(r))
    /\ history' = <<broken, rivals, paired, IF Migrated THEN early ELSE early \cup {r}>>
    /\ UNCHANGED <<server, data, tx, used, script, tries, saved, kills>>

\* Mutant of GivesUp: one try too many.
GivesUpLate(r) == script[r] # "setup" \/ tries[r] >= MaxRetries

\* The last try of waitForDatabase; the other scripts try once.
GivesUp(r) == script[r] # "setup" \/ tries[r] + 1 >= MaxRetries

\* Mutant of ConnectFails: for (;;) instead of the bound.
ConnectFailsAgain(r) ==
    /\ pc[r] = "connecting"
    /\ ~online
    /\ UNCHANGED vars

ConnectFails(r) ==
    /\ pc[r] = "connecting"
    /\ ~online
    /\ tries' = [tries EXCEPT ![r] = IF GivesUp(r) THEN @ ELSE @ + 1]
    /\ Goto(r, IF GivesUp(r) THEN "failed" ELSE "connecting")
    /\ history' = <<broken \cup (IF GivesUp(r) THEN {r} ELSE {}), rivals, paired, early>>
    /\ UNCHANGED <<server, data, tx, used, script, saved, kills>>

\* Mutant of AfterMigration: db:setup that only migrates.
AfterMigrationDone(r) == "done"

AfterMigration(r) == IF script[r] = "migrate" THEN "done" ELSE "counting"

\* runMigrations keeps its records in a table, and looks for that first.
FindRegistry(r) ==
    /\ pc[r] = "migrating"
    /\ online
    /\ Goto(r, IF registry THEN "reading" ELSE "registering")
    /\ UNCHANGED <<server, data, tx, used, script, tries, saved, kills, history>>

\* It creates the table, before any transaction; whoever is about to do so as well
\* has lost.
CreateRegistry(r) ==
    /\ pc[r] = "registering"
    /\ online
    /\ ~registry
    /\ registry' = TRUE
    /\ Goto(r, "reading")
    /\ history' = <<broken, rivals \cup {x \in Runs \ {r} : pc[x] = "registering"}, paired, early>>
    /\ UNCHANGED <<server, schema, rows, tx, used, script, tries, saved, kills>>

\* CREATE TABLE throws if another run created the table meanwhile.
RegistryRefused(r) ==
    /\ pc[r] = "registering"
    /\ online
    /\ registry
    /\ Goto(r, "failed")
    /\ UNCHANGED <<server, data, tx, used, script, tries, saved, kills, history>>

\* It reads which migrations are recorded as executed.
ReadMigrations(r) ==
    /\ pc[r] = "reading"
    /\ online
    /\ Goto(r, IF Migrated THEN AfterMigration(r) ELSE "creating")
    /\ UNCHANGED <<server, data, tx, used, script, tries, saved, kills, history>>

Waiting(r) == pc[r] = "creating" /\ migrator # r

\* A statement of up() in the transaction of r.  The names it creates are locked
\* until the transaction that created them first ends.
Create(r) ==
    /\ pc[r] = "creating"
    /\ online
    /\ migrator \in {None, r}
    /\ schema <= created /\ created < Len(Up)
    /\ created' = created + 1
    /\ migrator' = r
    /\ history' = <<broken, rivals \cup {x \in Runs : Waiting(x) /\ x # r}, paired, early>>
    /\ UNCHANGED <<server, data, used, script, pc, tries, saved, kills>>

\* The transaction commits with the migration on record.
Commit(r) ==
    /\ migrator = r
    /\ online
    /\ created = Len(Up)
    /\ schema' = created
    /\ created' = 0 /\ migrator' = None
    /\ Goto(r, AfterMigration(r))
    /\ history' = <<broken, rivals \cup {x \in Runs : Waiting(x) /\ x # r}, paired, early>>
    /\ UNCHANGED <<server, registry, rows, used, script, tries, saved, kills>>

\* What it would create exists by now: CREATE TYPE and CREATE TABLE throw.
CreateRefused(r) ==
    /\ Waiting(r)
    /\ online
    /\ created < schema
    /\ Goto(r, "failed")
    /\ UNCHANGED <<server, data, tx, used, script, tries, saved, kills, history>>

\* Runs that counted no jobs and have not inserted any.
AboutToSeed == {x \in Runs : pc[x] = "seeding" /\ saved[x] = 0}

\* Mutant of Empty: SELECT COUNT(1) FROM alerts.
EmptyOfAlerts == \A r \in Runs : "alerts" \notin Batch(r)

Empty == Seeded = {} /\ ~used

\* seedIfEmpty: SELECT COUNT(1) FROM jobs, which throws without the table.
CountJobs(r) ==
    /\ pc[r] = "counting"
    /\ online
    /\ \/ /\ "jobs" \notin Tables
          /\ Goto(r, "failed") /\ UNCHANGED history
       \/ /\ "jobs" \in Tables /\ ~Empty
          /\ Goto(r, "done") /\ UNCHANGED history
       \/ /\ "jobs" \in Tables /\ Empty
          /\ Goto(r, "seeding")
          /\ history' = <<broken, rivals,
                          IF AboutToSeed = {} THEN paired ELSE paired \cup AboutToSeed \cup {r},
                          early>>
    /\ UNCHANGED <<server, data, tx, used, script, tries, saved, kills>>

\* Mutant of NextSave: the audit entries before the rows they name.
NextSaveAuditFirst(r) == Seed[Len(Seed) - saved[r]]

NextSave(r) == Seed[saved[r] + 1]

\* The next save of seedRunner; after the last one the script ends.
Save(r) ==
    /\ pc[r] = "seeding"
    /\ online
    /\ NextSave(r) \in Tables
    /\ rows' = rows \cup {<<r, NextSave(r)>>}
    /\ saved' = [saved EXCEPT ![r] = @ + 1]
    /\ Goto(r, IF saved[r] + 1 = Len(Seed) THEN "done" ELSE "seeding")
    /\ UNCHANGED <<server, registry, schema, tx, used, script, tries, kills, history>>

\* Any statement throws while the server is away: main() catches it and exits.
Throw(r) ==
    /\ pc[r] \in Working \ {"connecting"}
    /\ ~online
    /\ Goto(r, "failed")
    /\ history' = <<broken \cup {r}, rivals, paired, early>>
    /\ UNCHANGED <<server, data, tx, used, script, tries, saved, kills>>

-----------------------------------------------------------------------------
(* What happens to the processes *)

\* Mutant of RollBack: no transaction around up().
RollBackNothing(r) ==
    IF migrator = r THEN schema' = created /\ created' = 0 /\ migrator' = None
                    ELSE UNCHANGED <<schema, tx>>

\* The server rolls back what a connection that is gone had not committed.
RollBack(r) ==
    IF migrator = r THEN created' = 0 /\ migrator' = None /\ UNCHANGED schema
                    ELSE UNCHANGED <<schema, tx>>

Kill(r) ==
    /\ pc[r] \in Working
    /\ kills < MaxKills
    /\ kills' = kills + 1
    /\ Goto(r, "failed")
    /\ RollBack(r)
    /\ history' = <<broken \cup {r}, rivals, paired, early>>
    /\ UNCHANGED <<server, registry, rows, used, script, tries, saved>>

\* The server stops, and with it every migration, waiting for a name or not.
ServerStops ==
    /\ online
    /\ outages < MaxOutages
    /\ online' = FALSE
    /\ outages' = outages + 1
    /\ RollBack(migrator)
    /\ LET migrating == {x \in Runs : pc[x] = "creating"} IN
       /\ pc' = [x \in Runs |-> IF x \in migrating THEN "failed" ELSE pc[x]]
       /\ history' = <<broken \cup migrating, rivals, paired, early>>
    /\ UNCHANGED <<registry, rows, used, script, tries, saved, kills>>

ServerStarts ==
    /\ ~online
    /\ online' = TRUE
    /\ UNCHANGED <<outages, data, tx, used, script, pc, tries, saved, kills, history>>

\* The services run once the tables are there, whoever made them.
ClientCreates ==
    /\ "jobs" \in Tables
    /\ online
    /\ ~used
    /\ used' = TRUE
    /\ UNCHANGED <<server, data, tx, script, pc, tries, saved, kills, history>>

Step(r) ==
    \/ Connect(r) \/ ConnectFails(r)
    \/ FindRegistry(r) \/ CreateRegistry(r) \/ RegistryRefused(r) \/ ReadMigrations(r)
    \/ Create(r) \/ Commit(r) \/ CreateRefused(r)
    \/ CountJobs(r) \/ Save(r) \/ Throw(r)

Next ==
    \/ \E r \in Runs : Launch(r) \/ Step(r) \/ Kill(r)
    \/ ServerStops \/ ServerStarts \/ ClientCreates

Spec == Init /\ [][Next]_vars

\* The event loop of a script gets to its next statement; nobody has to start or
\* restart anything.
FairSpec == Spec /\ \A r \in Runs : WF_vars(Step(r))

-----------------------------------------------------------------------------
(* Properties *)

TypeOK ==
    /\ online \in BOOLEAN /\ used \in BOOLEAN /\ registry \in BOOLEAN
    /\ schema \in {0, Len(Up)} /\ created \in 0 .. Len(Up)
    /\ migrator \in Runs \cup {None}
    /\ migrator = None <=> created = 0
    /\ migrator # None => pc[migrator] = "creating"
    /\ rows \subseteq Runs \X Batches
    /\ script \in [Runs -> Scripts]
    /\ pc \in [Runs -> Working \cup {"idle", "done", "failed"}]
    /\ tries \in [Runs -> 0 .. MaxRetries - 1]
    /\ saved \in [Runs -> 0 .. Len(Seed)]
    /\ outages \in 0 .. MaxOutages /\ kills \in 0 .. MaxKills
    /\ history \in (SUBSET Runs) \X (SUBSET Runs) \X (SUBSET Runs) \X (SUBSET Runs)

\* What refers to what in a batch: the first two are foreign keys, nothing but the
\* order of the saves keeps the others.
RefersTo == [jobs |-> {}, alerts |-> {"jobs"}, incidents |-> {"alerts"},
             notifications |-> {"jobs", "alerts", "incidents"},
             audit_entries |-> {"jobs", "alerts", "incidents", "notifications"}]

\* Wherever a seeding run was cut off, what it left refers to rows that exist
\* (seed-runner.ts:29-142).
NothingDangles == \A r \in Runs : \A b \in Batch(r) : RefersTo[b] \subseteq Batch(r)

\* A script fails only where the server or its process went away, where another
\* one overtook it in the migration, or where db:seed connected before there was
\* a schema, and then it left nothing behind: a setup that was cut off never stands
\* in the way of the next (db-setup.ts:39-45, migration up() without IF NOT EXISTS).
FailuresExplained ==
    \A r \in Runs : pc[r] = "failed" =>
        r \in broken \cup rivals \/ (script[r] = "seed" /\ r \in early /\ Batch(r) = {})

\* Example records are seeded twice only by runs that both counted the jobs before
\* either had inserted any (db-setup.ts:27-36, README.md:219).
SeededOnce == \A r, s \in Seeded : r # s => {r, s} \subseteq paired

Succeeded(r) == script[r] = "setup" /\ pc[r] = "done"

\* When db:setup has succeeded, and compose starts the services, the schema is whole
\* and the baseline is there; unless clients had jobs already, another run is
\* still seeding, or one was cut off while it was (db-setup.ts:39-43,
\* README.md:219-221).
BaselineThere ==
    \A r \in Runs : Succeeded(r) =>
        /\ Migrated
        /\ \/ Seeded = {} /\ used
           \/ \E s \in Seeded : Batch(s) = Batches \/ pc[s] = "seeding" \/ s \in broken

\* Every script ends, however long the server stays away (db-setup.ts:7-24).
ScriptsEnd == \A r \in Runs : pc[r] = "connecting" ~> pc[r] \in {"done", "failed"}
=============================================================================
