---------------------------- MODULE DbSetup_proofs ----------------------------
(***************************************************************************)
(* The setup scripts, for any number of runs, outages and kills: types,    *)
(* references inside a seeded batch, why a script fails, how often the     *)
(* examples are seeded and what a successful setup leaves behind.          *)
(***************************************************************************)
EXTENDS DbSetup, TLAPS

\* The rows of a batch are those of the saves behind the run.
SavedRows ==
    \A r \in Runs, b \in Batches : <<r, b>> \in rows <=> \E i \in 1 .. saved[r] : Seed[i] = b

\* How far a run has come and why it came no further.
Place ==
    \A r \in Runs :
        /\ saved[r] > 0 => pc[r] \in {"seeding", "done", "failed"}
        /\ saved[r] > 0 /\ pc[r] = "done" => saved[r] = Len(Seed)
        /\ saved[r] > 0 /\ pc[r] = "failed" => r \in broken
        /\ pc[r] = "seeding" => saved[r] < Len(Seed)

\* Past the migration the tables are there, and whoever is about to create then
\* what is there already has been overtaken.
Order ==
    /\ migrator # None => schema = 0 /\ online
    /\ \A r \in Runs :
        /\ pc[r] = "registering" /\ registry => r \in rivals
        /\ pc[r] = "creating" /\ schema # 0 => r \in rivals
        /\ pc[r] = "counting" => Migrated \/ r \in early
        /\ pc[r] \in {"counting", "seeding", "done"} /\ script[r] # "seed" => Migrated

\* Why a script has failed; what it has saved tells what it left behind.
Excused ==
    \A r \in Runs : pc[r] = "failed" =>
        r \in broken \cup rivals \/ (script[r] = "seed" /\ r \in early /\ saved[r] = 0)

\* Runs that will seed or have seeded have all met before the first insert.
Hot == {r \in Runs : pc[r] = "seeding" \/ saved[r] > 0}
HotPaired == \A r, s \in Hot : r # s => r \in paired /\ s \in paired

\* A setup only succeeds with jobs in the table.
JobsThere == \A r \in Runs : Succeeded(r) => used \/ \E s \in Runs : saved[s] > 0

SetupInv ==
    TypeOK /\ SavedRows /\ Place /\ Order /\ Excused /\ HotPaired /\ JobsThere

LEMMA Lengths ==
    /\ Len(Seed) = 5 /\ Len(Up) = 8
    /\ Seed[1] = "jobs" /\ Seed[2] = "alerts" /\ Seed[3] = "incidents"
    /\ Seed[4] = "notifications" /\ Seed[5] = "audit_entries"
    /\ Batches = {"jobs", "alerts", "incidents", "notifications", "audit_entries"}
<1>1. Len(Seed) = 5 /\ Len(Up) = 8  BY DEF Seed, Up
<1>2. /\ Seed[1] = "jobs" /\ Seed[2] = "alerts" /\ Seed[3] = "incidents"
      /\ Seed[4] = "notifications" /\ Seed[5] = "audit_entries"
  BY DEF Seed
<1>3. DOMAIN Seed = 1 .. 5  BY DEF Seed
<1>  QED  BY <1>1, <1>2, <1>3 DEF Batches

LEMMA JobsTable == ASSUME TypeOK PROVE "jobs" \in Tables <=> schema # 0
<1>1. CASE schema = 0  BY <1>1 DEF Tables
<1>2. CASE schema = 8
  <2>1. Up[1] = "jobs"  BY DEF Up
  <2>  QED  BY <1>2, <2>1 DEF Tables
<1>  QED  BY <1>1, <1>2, Lengths DEF TypeOK

\* A run counts as seeded from its first save on.
LEMMA SeededRuns == ASSUME SetupInv PROVE \A r \in Runs : r \in Seeded <=> saved[r] > 0
<1>  SUFFICES ASSUME NEW r \in Runs PROVE Batch(r) # {} <=> saved[r] > 0
  BY DEF Seeded
<1>1. saved[r] \in 0 .. 5  BY Lengths DEF SetupInv, TypeOK
<1>2. CASE saved[r] > 0
  <2>1. 1 \in 1 .. saved[r] /\ Seed[1] \in Batches  BY <1>1, <1>2, Lengths
  <2>2. <<r, Seed[1]>> \in rows  BY <2>1 DEF SetupInv, SavedRows
  <2>  QED  BY <1>2, <2>1, <2>2 DEF Batch
<1>3. CASE saved[r] = 0
  <2>1. 1 .. saved[r] = {}  BY <1>3
  <2>2. \A b \in Batches : <<r, b>> \notin rows  BY <2>1 DEF SetupInv, SavedRows
  <2>3. Batch(r) = {}  BY <2>2 DEF Batch
  <2>  QED  BY <1>3, <2>3
<1>  QED  BY <1>1, <1>2, <1>3

\* Steps of one run that keep the tables, the seed and the other runs: what is left
\* to show is what the run itself needs where it goes.
LEMMA RunMoves ==
    ASSUME SetupInv, NEW r \in Runs, NEW place \in Working \cup {"idle", "done", "failed"},
           pc' = [pc EXCEPT ![r] = place],
           UNCHANGED <<server, schema, rows, tx, used, script, saved>>,
           registry' \in BOOLEAN,
           NEW B \in SUBSET Runs, NEW R \in SUBSET Runs, NEW E \in SUBSET Runs,
           history' = <<broken \cup B, rivals \cup R, paired, early \cup E>>,
           registry' # registry => \A x \in Runs \ {r} : pc[x] = "registering" => x \in R,
           kills' \in 0 .. MaxKills,
           tries' \in [Runs -> 0 .. MaxRetries - 1],
           migrator # r, place # "seeding",
           saved[r] > 0 => place = "failed" /\ r \in broken \cup B,
           place = "registering" => ~registry',
           place = "creating" => schema = 0,
           place = "counting" => Migrated \/ r \in early \cup E,
           place \in {"counting", "done"} /\ script[r] # "seed" => Migrated,
           place = "failed" => \/ r \in broken \cup B \cup rivals \cup R
                               \/ script[r] = "seed" /\ r \in early \cup E /\ saved[r] = 0,
           place = "done" /\ script[r] = "setup" => used \/ \E s \in Runs : saved[s] > 0
    PROVE  SetupInv'
<1>  USE DEF SetupInv
<1>1. /\ pc'[r] = place /\ \A x \in Runs \ {r} : pc'[x] = pc[x]
      /\ pc' \in [Runs -> Working \cup {"idle", "done", "failed"}]
  BY DEF TypeOK
<1>2. /\ UNCHANGED <<online, outages, schema, rows, created, migrator, used, script, saved>>
      /\ broken' = broken \cup B /\ rivals' = rivals \cup R
      /\ paired' = paired /\ early' = early \cup E
  BY DEF server, tx, broken, rivals, paired, early
<1>3. TypeOK'
  <2>1. migrator' # None => pc'[migrator'] = "creating"  BY <1>1, <1>2 DEF TypeOK
  <2>2. history' \in (SUBSET Runs) \X (SUBSET Runs) \X (SUBSET Runs) \X (SUBSET Runs)
    BY DEF TypeOK, broken, rivals, paired, early
  <2>  QED  BY <1>1, <1>2, <2>1, <2>2 DEF TypeOK
<1>4. SavedRows'  BY <1>2 DEF SavedRows
<1>5. Place'  BY <1>1, <1>2 DEF Place, TypeOK
<1>6. Order'
  <2>1. migrator' # None => schema' = 0 /\ online'  BY <1>2 DEF Order
  <2>2. ASSUME NEW x \in Runs
        PROVE  /\ pc'[x] = "registering" /\ registry' => x \in rivals'
               /\ pc'[x] = "creating" /\ schema' # 0 => x \in rivals'
               /\ pc'[x] = "counting" => Migrated' \/ x \in early'
               /\ pc'[x] \in {"counting", "seeding", "done"} /\ script'[x] # "seed" => Migrated'
    <3>1. CASE x = r  BY <1>1, <1>2, <3>1 DEF Order, Migrated
    <3>2. CASE x # r
      <4>1. pc'[x] = "registering" /\ registry' => x \in rivals'
        BY <1>1, <1>2, <3>2 DEF Order, TypeOK
      <4>  QED  BY <1>1, <1>2, <3>2, <4>1 DEF Order, Migrated
    <3>  QED  BY <3>1, <3>2
  <2>  QED  BY <2>1, <2>2 DEF Order
<1>7. Excused'  BY <1>1, <1>2 DEF Excused
<1>8. HotPaired'
  <2>1. Hot' \subseteq Hot  BY <1>1, <1>2 DEF Hot
  <2>  QED  BY <2>1, <1>2 DEF HotPaired
<1>9. JobsThere'  BY <1>1, <1>2 DEF JobsThere, Succeeded
<1>  QED  BY <1>3, <1>4, <1>5, <1>6, <1>7, <1>8, <1>9

\* The steps that are only a move of their run.
LEMMA SingleMoves ==
    ASSUME SetupInv, NEW r \in Runs,
           \/ Launch(r) \/ Connect(r) \/ ConnectFails(r)
           \/ FindRegistry(r) \/ CreateRegistry(r) \/ RegistryRefused(r) \/ ReadMigrations(r)
           \/ CreateRefused(r) \/ Throw(r)
    PROVE  SetupInv'
<1>  USE DEF SetupInv
<1>0. /\ kills \in 0 .. MaxKills /\ tries \in [Runs -> 0 .. MaxRetries - 1]
      /\ "failed" \in Working \cup {"idle", "done", "failed"}
      /\ history = <<broken \cup {}, rivals \cup {}, paired, early \cup {}>>
      /\ r \in Runs /\ {} \in SUBSET Runs /\ {r} \in SUBSET Runs
      /\ pc[r] \in Working \cup {"idle", "done", "failed"}
      /\ saved[r] \in 0 .. 5
  BY Lengths DEF TypeOK, broken, rivals, paired, early
<1>1. pc[r] \in {"idle", "connecting", "migrating", "registering", "reading", "counting",
                 "seeding"} => migrator # r
  BY RunsAssumption DEF TypeOK
<1>2. pc[r] \in {"idle", "connecting", "migrating", "registering", "reading", "creating",
                 "counting"} => ~(saved[r] > 0)
  BY DEF Place
<1>3. /\ broken = broken \cup {} /\ rivals = rivals \cup {} /\ early = early \cup {}
      /\ registry \in BOOLEAN
  BY DEF TypeOK
<1>4. CASE Launch(r)
  <2>  DEFINE place == "connecting"
  <2>1. /\ pc[r] = "idle" /\ pc' = [pc EXCEPT ![r] = place]
        /\ UNCHANGED <<server, schema, rows, tx, used, script, saved>> /\ registry' = registry
        /\ UNCHANGED <<tries, kills>>
        /\ history' = <<broken \cup {}, rivals \cup {}, paired, early \cup {}>>
    BY <1>0, <1>4 DEF Launch, Goto, data
  <2>2. /\ place \in Working \cup {"idle", "done", "failed"}
        /\ place \notin {"registering", "seeding", "creating", "counting", "done", "failed"}
    BY DEF Working
  <2>3. migrator # r /\ ~(saved[r] > 0)  BY <1>1, <1>2, <2>1
  <2>  HIDE DEF place
  <2>  QED  BY <1>0, <1>3, <2>1, <2>2, <2>3, RunMoves
<1>5. CASE Connect(r)
  <2>  DEFINE place == FirstStep(r)
              E == IF Migrated THEN {} ELSE {r}
  <2>1. /\ pc[r] = "connecting" /\ pc' = [pc EXCEPT ![r] = place]
        /\ UNCHANGED <<server, schema, rows, tx, used, script, saved>> /\ registry' = registry
        /\ UNCHANGED <<tries, kills>>
        /\ history' = <<broken \cup {}, rivals \cup {}, paired, early \cup E>>
    BY <1>0, <1>5 DEF Connect, Goto, data
  <2>2. /\ place \in Working \cup {"idle", "done", "failed"}
        /\ place \in {"counting", "migrating"}
        /\ place = "counting" => script[r] = "seed"
        /\ E \in SUBSET Runs /\ (Migrated \/ r \in early \cup E)
    BY DEF Working, FirstStep
  <2>  HIDE DEF place, E
  <2>  QED  BY <1>0, <1>1, <1>2, <1>3, <2>1, <2>2, RunMoves
<1>6. CASE ConnectFails(r)
  <2>  DEFINE place == IF GivesUp(r) THEN "failed" ELSE "connecting"
              B == IF GivesUp(r) THEN {r} ELSE {}
  <2>1. /\ pc[r] = "connecting" /\ pc' = [pc EXCEPT ![r] = place]
        /\ UNCHANGED <<server, schema, rows, tx, used, script, saved>>
        /\ UNCHANGED <<registry, kills>>
        /\ history' = <<broken \cup B, rivals \cup {}, paired, early \cup {}>>
    BY <1>6 DEF ConnectFails, Goto, data
  <2>2. /\ place \in Working \cup {"idle", "done", "failed"}
        /\ place \in {"failed", "connecting"} /\ B \in SUBSET Runs
        /\ place = "failed" => r \in broken \cup B
    BY DEF Working
  <2>3. tries' \in [Runs -> 0 .. MaxRetries - 1]
    <3>1. tries' = [tries EXCEPT ![r] = IF GivesUp(r) THEN @ ELSE @ + 1]
      BY <1>6 DEF ConnectFails
    <3>2. ~GivesUp(r) => tries[r] + 1 < MaxRetries
      BY <1>0, BoundsAssumption DEF GivesUp
    <3>  QED  BY <1>0, <3>1, <3>2, BoundsAssumption
  <2>  HIDE DEF place, B
  <2>  QED  BY <1>0, <1>1, <1>2, <1>3, <2>1, <2>2, <2>3, RunMoves
<1>7. CASE ReadMigrations(r)
  <2>  DEFINE place == IF Migrated THEN AfterMigration(r) ELSE "creating"
  <2>1. /\ pc[r] = "reading" /\ pc' = [pc EXCEPT ![r] = place]
        /\ UNCHANGED <<server, schema, rows, tx, used, script, saved>> /\ registry' = registry
        /\ UNCHANGED <<tries, kills>>
        /\ history' = <<broken \cup {}, rivals \cup {}, paired, early \cup {}>>
    BY <1>0, <1>7 DEF ReadMigrations, Goto, data
  <2>2. /\ place \in Working \cup {"idle", "done", "failed"}
        /\ place \in {"done", "counting", "creating"}
        /\ place = "done" => script[r] = "migrate"
        /\ place \in {"counting", "done"} => Migrated
    BY DEF Working, AfterMigration
  <2>3. place = "creating" => schema = 0
    BY DEF Migrated, TypeOK, AfterMigration
  <2>  HIDE DEF place
  <2>  QED  BY <1>0, <1>1, <1>2, <1>3, <2>1, <2>2, <2>3, RunMoves
<1>7a. CASE FindRegistry(r)
  <2>  DEFINE place == IF registry THEN "reading" ELSE "registering"
  <2>1. /\ pc[r] = "migrating" /\ pc' = [pc EXCEPT ![r] = place]
        /\ UNCHANGED <<server, schema, rows, tx, used, script, saved>> /\ registry' = registry
        /\ UNCHANGED <<tries, kills>>
        /\ history' = <<broken \cup {}, rivals \cup {}, paired, early \cup {}>>
    BY <1>0, <1>7a DEF FindRegistry, Goto, data
  <2>2. /\ place \in Working \cup {"idle", "done", "failed"}
        /\ place \in {"reading", "registering"}
        /\ place = "registering" => ~registry'
    BY <2>1 DEF Working
  <2>  HIDE DEF place
  <2>  QED  BY <1>0, <1>1, <1>2, <1>3, <2>1, <2>2, RunMoves
<1>7b. CASE CreateRegistry(r)
  <2>  DEFINE place == "reading"
              R == {x \in Runs \ {r} : pc[x] = "registering"}
  <2>1. /\ pc[r] = "registering" /\ pc' = [pc EXCEPT ![r] = place]
        /\ UNCHANGED <<server, schema, rows, tx, used, script, saved>>
        /\ UNCHANGED <<tries, kills>> /\ registry' = TRUE
        /\ history' = <<broken \cup {}, rivals \cup R, paired, early \cup {}>>
    BY <1>0, <1>7b DEF CreateRegistry, Goto
  <2>2. /\ place \in Working \cup {"idle", "done", "failed"}
        /\ place \notin {"registering", "seeding", "creating", "counting", "done", "failed"}
        /\ R \in SUBSET Runs /\ \A x \in Runs \ {r} : pc[x] = "registering" => x \in R
    BY DEF Working
  <2>  HIDE DEF place, R
  <2>  QED  BY <1>0, <1>1, <1>2, <1>3, <2>1, <2>2, RunMoves
<1>8. CASE RegistryRefused(r)
  <2>  DEFINE place == "failed"
  <2>1. /\ pc[r] = "registering" /\ registry /\ pc' = [pc EXCEPT ![r] = place]
        /\ UNCHANGED <<server, schema, rows, tx, used, script, saved>> /\ registry' = registry
        /\ UNCHANGED <<tries, kills>>
        /\ history' = <<broken \cup {}, rivals \cup {}, paired, early \cup {}>>
    BY <1>0, <1>8 DEF RegistryRefused, Goto, data
  <2>2. r \in rivals  BY <2>1 DEF Order
  <2>3. /\ place \in Working \cup {"idle", "done", "failed"}
        /\ place \notin {"registering", "seeding", "creating", "counting", "done"}
    BY <1>0
  <2>  HIDE DEF place
  <2>  QED  BY <1>0, <1>1, <1>2, <1>3, <2>1, <2>2, <2>3, RunMoves
<1>9. CASE CreateRefused(r)
  <2>  DEFINE place == "failed"
  <2>1. /\ pc[r] = "creating" /\ migrator # r /\ pc' = [pc EXCEPT ![r] = place]
        /\ UNCHANGED <<server, schema, rows, tx, used, script, saved>> /\ registry' = registry
        /\ UNCHANGED <<tries, kills>>
        /\ history' = <<broken \cup {}, rivals \cup {}, paired, early \cup {}>>
    BY <1>0, <1>9 DEF CreateRefused, Goto, Waiting, data
  <2>2. schema # 0  BY <1>9 DEF CreateRefused, TypeOK
  <2>3. r \in rivals  BY <2>1, <2>2 DEF Order
  <2>4. /\ place \in Working \cup {"idle", "done", "failed"}
        /\ place \notin {"registering", "seeding", "creating", "counting", "done"}
    BY <1>0
  <2>5. r \in broken \cup {} \cup rivals \cup {}  BY <2>3
  <2>6. migrator # r /\ ~(saved[r] > 0)  BY <1>2, <2>1
  <2>  HIDE DEF place
  <2>  QED  BY <1>0, <1>3, <2>1, <2>4, <2>5, <2>6, RunMoves
<1>10. CASE Throw(r)
  <2>  DEFINE place == "failed"
  <2>1. /\ ~online /\ pc' = [pc EXCEPT ![r] = place]
        /\ UNCHANGED <<server, schema, rows, tx, used, script, saved>> /\ registry' = registry
        /\ UNCHANGED <<tries, kills>>
        /\ history' = <<broken \cup {r}, rivals \cup {}, paired, early \cup {}>>
    BY <1>10 DEF Throw, Goto, data
  <2>2. migrator # r  BY <2>1, RunsAssumption DEF Order
  <2>3. /\ place \in Working \cup {"idle", "done", "failed"} /\ place = "failed"
        /\ place \notin {"registering", "seeding", "creating", "counting", "done"}
        /\ r \in broken \cup {r}
    BY <1>0
  <2>  HIDE DEF place
  <2>  QED  BY <1>0, <1>3, <2>1, <2>2, <2>3, RunMoves
<1>  QED  BY <1>4, <1>5, <1>6, <1>7, <1>7a, <1>7b, <1>8, <1>9, <1>10

\* The count of the jobs: nothing to count, nothing to do, or the one step that
\* makes a run hot.
LEMMA CountingJobs ==
    ASSUME SetupInv, NEW r \in Runs, CountJobs(r)
    PROVE  SetupInv'
<1>  USE DEF SetupInv
<1>1. /\ pc[r] = "counting" /\ online
      /\ UNCHANGED <<server, schema, rows, tx, used, script, saved>> /\ registry' = registry
      /\ UNCHANGED <<tries, kills>>
  BY DEF CountJobs, data
<1>2. /\ migrator # r /\ saved[r] = 0 /\ saved \in [Runs -> 0 .. 5]
      /\ script[r] # "seed" => Migrated
      /\ Migrated \/ r \in early
  BY <1>1, RunsAssumption, Lengths DEF TypeOK, Place, Order
<1>8. /\ kills \in 0 .. MaxKills /\ tries \in [Runs -> 0 .. MaxRetries - 1]
      /\ history = <<broken \cup {}, rivals \cup {}, paired, early \cup {}>>
      /\ {} \in SUBSET Runs /\ r \in Runs
      /\ migrator # r /\ ~(saved[r] > 0) /\ registry \in BOOLEAN
  BY <1>2 DEF TypeOK, broken, rivals, paired, early
<1>3. Migrated => "jobs" \in Tables  BY JobsTable, Lengths DEF Migrated
<1>4. Seeded = {} <=> \A x \in Runs : ~(saved[x] > 0)
  BY SeededRuns DEF Seeded
<1>5. CASE "jobs" \notin Tables /\ Goto(r, "failed") /\ UNCHANGED history
  <2>  DEFINE place == "failed"
  <2>1. /\ pc' = [pc EXCEPT ![r] = place]
        /\ history' = <<broken \cup {}, rivals \cup {}, paired, early \cup {}>>
    BY <1>5, <1>8 DEF Goto
  <2>2. script[r] = "seed" /\ r \in early \cup {} /\ saved[r] = 0
    BY <1>2, <1>3, <1>5
  <2>3. /\ place \in Working \cup {"idle", "done", "failed"}
        /\ place \notin {"registering", "seeding", "creating", "counting", "done"}
    OBVIOUS
  <2>  HIDE DEF place
  <2>  QED  BY <1>1, <1>8, <2>1, <2>2, <2>3, RunMoves
<1>6. CASE ~Empty /\ Goto(r, "done") /\ UNCHANGED history
  <2>  DEFINE place == "done"
  <2>1. /\ pc' = [pc EXCEPT ![r] = place]
        /\ history' = <<broken \cup {}, rivals \cup {}, paired, early \cup {}>>
    BY <1>6, <1>8 DEF Goto
  <2>2. used \/ \E s \in Runs : saved[s] > 0  BY <1>4, <1>6 DEF Empty
  <2>3. /\ place \in Working \cup {"idle", "done", "failed"}
        /\ place \notin {"registering", "seeding", "creating", "counting", "failed"}
    OBVIOUS
  <2>4. place = "done" /\ script[r] # "seed" => Migrated  BY <1>2
  <2>  HIDE DEF place
  <2>  QED  BY <1>1, <1>8, <2>1, <2>2, <2>3, <2>4, RunMoves
<1>7. CASE /\ "jobs" \in Tables /\ Empty /\ Goto(r, "seeding")
           /\ history' = <<broken, rivals,
                IF AboutToSeed = {} THEN paired ELSE paired \cup AboutToSeed \cup {r},
                early>>
  <2>1. /\ pc' = [pc EXCEPT ![r] = "seeding"]
        /\ broken' = broken /\ rivals' = rivals /\ early' = early
        /\ paired' = IF AboutToSeed = {} THEN paired ELSE paired \cup AboutToSeed \cup {r}
        /\ UNCHANGED <<online, outages, schema, rows, created, migrator, used, script, saved>>
    BY <1>1, <1>7 DEF Goto, broken, rivals, paired, early, server, tx
  <2>2. /\ pc'[r] = "seeding" /\ \A x \in Runs \ {r} : pc'[x] = pc[x]
        /\ pc' \in [Runs -> Working \cup {"idle", "done", "failed"}]
    BY <2>1 DEF TypeOK, Working
  <2>3. TypeOK'
    <3>1. history' \in (SUBSET Runs) \X (SUBSET Runs) \X (SUBSET Runs) \X (SUBSET Runs)
      <4>1. paired' \in SUBSET Runs  BY <2>1 DEF AboutToSeed, TypeOK, paired
      <4>2. history' = <<broken, rivals, paired', early>>  BY <1>7 DEF paired
      <4>  QED  BY <4>1, <4>2 DEF TypeOK, broken, rivals, early
    <3>2. migrator' # None => pc'[migrator'] = "creating"
      BY <1>2, <2>1, <2>2 DEF TypeOK
    <3>  QED  BY <1>1, <2>1, <2>2, <3>1, <3>2 DEF TypeOK
  <2>4. SavedRows'  BY <2>1 DEF SavedRows
  <2>5. Place'  BY <1>2, <2>1, <2>2, Lengths DEF Place
  <2>6. Order'  BY <1>1, <1>2, <2>1, <2>2 DEF Order, Migrated
  <2>7. Excused'  BY <2>1, <2>2 DEF Excused
  <2>8. HotPaired'
    <3>1. \A x \in Runs : ~(saved[x] > 0)  BY <1>4, <1>7 DEF Empty
    <3>2. Hot = AboutToSeed
      <4>1. ASSUME NEW x \in Runs PROVE saved[x] = 0
        <5>1. saved[x] \in 0 .. 5  BY <1>2
        <5>  QED  BY <3>1, <5>1
      <4>  QED  BY <3>1, <4>1 DEF Hot, AboutToSeed
    <3>3. Hot' = Hot \cup {r}  BY <2>1, <2>2 DEF Hot
    <3>4. ASSUME NEW x \in Hot PROVE x \in paired' /\ r \in paired'
      <4>1. AboutToSeed # {}  BY <3>2, <3>4
      <4>2. paired' = paired \cup AboutToSeed \cup {r}  BY <4>1, <2>1
      <4>  QED  BY <4>2, <3>2, <3>4
    <3>  QED  BY <2>1, <3>3, <3>4 DEF HotPaired
  <2>9. JobsThere'  BY <2>1, <2>2 DEF JobsThere, Succeeded
  <2>  QED  BY <2>3, <2>4, <2>5, <2>6, <2>7, <2>8, <2>9
<1>  QED  BY <1>5, <1>6, <1>7 DEF CountJobs

\* A save puts the next rows of the batch in, and is the last one or not.
LEMMA Saving ==
    ASSUME SetupInv, NEW r \in Runs, Save(r)
    PROVE  SetupInv'
<1>  USE DEF SetupInv
<1>  DEFINE place == IF saved[r] + 1 = 5 THEN "done" ELSE "seeding"
<1>1. /\ pc[r] = "seeding" /\ online
      /\ rows' = rows \cup {<<r, Seed[saved[r] + 1]>>}
      /\ saved' = [saved EXCEPT ![r] = @ + 1]
      /\ pc' = [pc EXCEPT ![r] = place]
      /\ UNCHANGED <<online, outages, registry, schema, created, migrator, used, script, tries,
                     kills, history>>
  BY Lengths DEF Save, NextSave, Goto, server, tx
<1>2. saved \in [Runs -> 0 .. 5] /\ saved[r] < 5
  BY <1>1, Lengths DEF TypeOK, Place
<1>3. /\ saved' \in [Runs -> 0 .. 5] /\ saved'[r] = saved[r] + 1
      /\ \A x \in Runs \ {r} : saved'[x] = saved[x]
  BY <1>1, <1>2
<1>4. /\ pc'[r] = place /\ \A x \in Runs \ {r} : pc'[x] = pc[x]
      /\ pc' \in [Runs -> Working \cup {"idle", "done", "failed"}]
  BY <1>1 DEF TypeOK, Working
<1>5. broken' = broken /\ rivals' = rivals /\ paired' = paired /\ early' = early
  BY <1>1 DEF broken, rivals, paired, early
<1>6. migrator # r  BY <1>1, RunsAssumption DEF TypeOK
<1>7. TypeOK'
  <2>1. Seed[saved[r] + 1] \in Batches  BY <1>2, Lengths
  <2>2. rows' \subseteq Runs \X Batches  BY <1>1, <2>1 DEF TypeOK
  <2>3. migrator' # None => pc'[migrator'] = "creating"
    BY <1>1, <1>4, <1>6 DEF TypeOK
  <2>  QED  BY <1>1, <1>3, <1>4, <2>2, <2>3, Lengths DEF TypeOK
<1>8. SavedRows'
  <2>  SUFFICES ASSUME NEW x \in Runs, NEW b \in Batches
                PROVE  <<x, b>> \in rows' <=> \E i \in 1 .. saved'[x] : Seed[i] = b
    BY DEF SavedRows
  <2>1. <<x, b>> \in rows <=> \E i \in 1 .. saved[x] : Seed[i] = b  BY DEF SavedRows
  <2>2. CASE x # r  BY <2>1, <2>2, <1>1, <1>3
  <2>3. CASE x = r
    <3>1. 1 .. saved'[r] = (1 .. saved[r]) \cup {saved[r] + 1}  BY <1>2, <1>3
    <3>2. <<r, b>> \in rows' <=> <<r, b>> \in rows \/ b = Seed[saved[r] + 1]  BY <1>1
    <3>  QED  BY <2>1, <2>3, <3>1, <3>2
  <2>  QED  BY <2>2, <2>3
<1>9. Place'
  <2>  SUFFICES ASSUME NEW x \in Runs
                PROVE  /\ saved'[x] > 0 => pc'[x] \in {"seeding", "done", "failed"}
                       /\ saved'[x] > 0 /\ pc'[x] = "done" => saved'[x] = 5
                       /\ saved'[x] > 0 /\ pc'[x] = "failed" => x \in broken
                       /\ pc'[x] = "seeding" => saved'[x] < 5
    BY <1>5, Lengths DEF Place
  <2>1. CASE x = r  BY <2>1, <1>2, <1>3, <1>4
  <2>2. CASE x # r  BY <2>2, <1>3, <1>4, Lengths DEF Place
  <2>  QED  BY <2>1, <2>2
<1>10. Order'  BY <1>1, <1>4, <1>5 DEF Order, Migrated
<1>11. Excused'  BY <1>1, <1>3, <1>4, <1>5 DEF Excused
<1>12. HotPaired'
  <2>1. Hot' = Hot  BY <1>1, <1>2, <1>3, <1>4 DEF Hot
  <2>  QED  BY <2>1, <1>5 DEF HotPaired
<1>13. JobsThere'
  <2>1. saved'[r] > 0  BY <1>2, <1>3
  <2>  QED  BY <2>1 DEF JobsThere
<1>  QED  BY <1>7, <1>8, <1>9, <1>10, <1>11, <1>12, <1>13

\* The migration: its statements and its end, whichever way it ends.
LEMMA Migrating ==
    ASSUME SetupInv, NEW r \in Runs, Create(r) \/ Commit(r) \/ (Kill(r) /\ migrator = r)
    PROVE  SetupInv'
<1>  USE DEF SetupInv
<1>1. pc[r] = "creating"
  BY RunsAssumption DEF TypeOK, Create, Commit
<1>2. saved[r] \in 0 .. 5 /\ ~(saved[r] > 0)  BY <1>1, Lengths DEF TypeOK, Place
<1>3. /\ UNCHANGED <<online, outages, registry, rows, used, script, tries, saved>>
      /\ paired' = paired /\ early' = early
  BY DEF Create, Commit, Kill, server, data, paired, early
<1>4. /\ broken \subseteq broken' /\ rivals \subseteq rivals'
      /\ broken' \in SUBSET Runs /\ rivals' \in SUBSET Runs
      /\ paired' \in SUBSET Runs /\ early' \in SUBSET Runs
      /\ history' = <<broken', rivals', paired', early'>>
  BY DEF Create, Commit, Kill, broken, rivals, paired, early, TypeOK, Waiting
<1>5. SavedRows'  BY <1>3 DEF SavedRows
<1>6. CASE Create(r)
  <2>1. /\ online /\ UNCHANGED <<schema, pc, kills>>
        /\ created' = created + 1 /\ created < 8 /\ migrator' = r
        /\ schema <= created
    BY <1>6, Lengths DEF Create, data
  <2>2. schema = 0  BY <2>1, Lengths DEF TypeOK
  <2>3. TypeOK'
    BY <1>1, <1>3, <1>4, <2>1, RunsAssumption, Lengths DEF TypeOK
  <2>4. Place'  BY <1>3, <1>4, <2>1 DEF Place
  <2>5. Order'  BY <1>3, <1>4, <2>1, <2>2 DEF Order, Migrated
  <2>6. Excused'  BY <1>3, <1>4, <2>1 DEF Excused
  <2>7. HotPaired'  BY <1>3, <2>1 DEF HotPaired, Hot
  <2>8. JobsThere'  BY <1>3, <2>1 DEF JobsThere, Succeeded
  <2>  QED  BY <1>5, <2>3, <2>4, <2>5, <2>6, <2>7, <2>8
<1>7. CASE Commit(r)
  <2>  DEFINE place == AfterMigration(r)
  <2>1. /\ kills' = kills /\ migrator = r
        /\ schema' = 8 /\ created' = 0 /\ migrator' = None
        /\ pc' = [pc EXCEPT ![r] = place]
        /\ rivals' = rivals \cup {x \in Runs : Waiting(x) /\ x # r}
    BY <1>7, Lengths DEF Commit, Goto, rivals
  <2>2. place \in {"done", "counting"} /\ (place = "done" => script[r] = "migrate")
    BY DEF AfterMigration
  <2>  HIDE DEF place
  <2>3. /\ pc'[r] = place /\ \A x \in Runs \ {r} : pc'[x] = pc[x]
        /\ pc' \in [Runs -> Working \cup {"idle", "done", "failed"}]
    BY <2>1, <2>2 DEF TypeOK, Working
  <2>4. TypeOK'
    BY <1>3, <1>4, <2>1, <2>3, Lengths DEF TypeOK
  <2>5. Place'
    BY <1>2, <1>3, <1>4, <2>2, <2>3 DEF Place
  <2>6. Order'
    <3>1. \A x \in Runs \ {r} : pc[x] = "creating" => x \in rivals'
      BY <2>1 DEF Waiting
    <3>  QED  BY <1>3, <1>4, <2>1, <2>2, <2>3, <3>1, Lengths DEF Order, Migrated
  <2>7. Excused'  BY <1>3, <1>4, <2>2, <2>3 DEF Excused
  <2>8. HotPaired'
    <3>1. Hot' \subseteq Hot  BY <1>3, <2>2, <2>3 DEF Hot
    <3>  QED  BY <1>3, <3>1 DEF HotPaired
  <2>9. JobsThere'  BY <1>3, <2>2, <2>3 DEF JobsThere, Succeeded
  <2>  QED  BY <1>5, <2>4, <2>5, <2>6, <2>7, <2>8, <2>9
<1>8. CASE Kill(r) /\ migrator = r
  <2>1. /\ kills' \in 0 .. MaxKills
        /\ schema' = schema /\ created' = 0 /\ migrator' = None
        /\ pc' = [pc EXCEPT ![r] = "failed"]
        /\ r \in broken'
    <3>1. kills' = kills + 1 /\ kills < MaxKills  BY <1>8 DEF Kill
    <3>2. kills' \in 0 .. MaxKills  BY <3>1, BoundsAssumption DEF TypeOK
    <3>  QED  BY <1>8, <3>2 DEF Kill, Goto, RollBack, broken
  <2>2. /\ pc'[r] = "failed" /\ \A x \in Runs \ {r} : pc'[x] = pc[x]
        /\ pc' \in [Runs -> Working \cup {"idle", "done", "failed"}]
    BY <2>1 DEF TypeOK
  <2>3. TypeOK'
    BY <1>3, <1>4, <2>1, <2>2, Lengths DEF TypeOK
  <2>4. Place'
    BY <1>2, <1>3, <1>4, <2>1, <2>2 DEF Place
  <2>5. Order'  BY <1>3, <1>4, <2>1, <2>2 DEF Order, Migrated
  <2>6. Excused'  BY <1>3, <1>4, <2>1, <2>2 DEF Excused
  <2>7. HotPaired'
    <3>1. Hot' \subseteq Hot  BY <1>3, <2>2 DEF Hot
    <3>  QED  BY <1>3, <3>1 DEF HotPaired
  <2>8. JobsThere'  BY <1>3, <2>2 DEF JobsThere, Succeeded
  <2>  QED  BY <1>5, <2>3, <2>4, <2>5, <2>6, <2>7, <2>8
<1>  QED  BY <1>6, <1>7, <1>8

\* A process that is killed outside the migration fails and no more.
LEMMA Killing ==
    ASSUME SetupInv, NEW r \in Runs, Kill(r), migrator # r
    PROVE  SetupInv'
<1>  USE DEF SetupInv
<1>  DEFINE place == "failed"
<1>1. /\ pc' = [pc EXCEPT ![r] = place]
      /\ UNCHANGED <<server, schema, rows, tx, used, script, saved>> /\ registry' = registry
      /\ tries' = tries
      /\ history' = <<broken \cup {r}, rivals \cup {}, paired, early \cup {}>>
  BY DEF Kill, Goto, RollBack, data, tx
<1>2. kills' \in 0 .. MaxKills /\ tries \in [Runs -> 0 .. MaxRetries - 1]
  BY BoundsAssumption DEF Kill, TypeOK
<1>3. /\ place \in Working \cup {"idle", "done", "failed"}
      /\ place = "failed"
      /\ place \notin {"registering", "seeding", "creating", "counting", "done"}
  OBVIOUS
<1>4. {r} \in SUBSET Runs /\ {} \in SUBSET Runs /\ registry \in BOOLEAN
  BY DEF TypeOK
<1>  HIDE DEF place
<1>  QED  BY <1>1, <1>2, <1>3, <1>4, RunMoves

\* The server stops with every migration that is under way.
LEMMA Stopping ==
    ASSUME SetupInv, ServerStops
    PROVE  SetupInv'
<1>  USE DEF SetupInv
<1>  DEFINE migrating == {x \in Runs : pc[x] = "creating"}
<1>1. /\ online' = FALSE /\ outages' = outages + 1 /\ outages < MaxOutages
      /\ schema' = schema /\ created' = 0 /\ migrator' = None
      /\ pc' = [x \in Runs |-> IF x \in migrating THEN "failed" ELSE pc[x]]
      /\ broken' = broken \cup migrating /\ rivals' = rivals
      /\ paired' = paired /\ early' = early
      /\ history' = <<broken \cup migrating, rivals, paired, early>>
      /\ UNCHANGED <<registry, rows, used, script, tries, saved, kills>>
  BY DEF ServerStops, RollBack, broken, rivals, paired, early
<1>2. pc' \in [Runs -> Working \cup {"idle", "done", "failed"}]
  BY <1>1 DEF TypeOK
<1>3. TypeOK'
  <2>1. outages' \in 0 .. MaxOutages  BY <1>1, BoundsAssumption DEF TypeOK
  <2>2. history' \in (SUBSET Runs) \X (SUBSET Runs) \X (SUBSET Runs) \X (SUBSET Runs)
    BY <1>1 DEF TypeOK, broken, rivals, paired, early
  <2>0. online' \in BOOLEAN /\ used' \in BOOLEAN /\ registry' \in BOOLEAN
    <3>1. /\ online' = FALSE /\ used' = used /\ used \in BOOLEAN
          /\ registry' = registry /\ registry \in BOOLEAN
      BY <1>1 DEF TypeOK
    <3>  QED  BY <3>1
  <2>3. /\ created' \in 0 .. 8 /\ schema' \in {0, 8}
        /\ migrator' \in Runs \cup {None} /\ (migrator' = None <=> created' = 0)
        /\ migrator' # None => pc'[migrator'] = "creating"
    BY <1>1, Lengths DEF TypeOK
  <2>4. UNCHANGED <<rows, used, script, tries, saved, kills>>  BY <1>1
  <2>  QED  BY <1>2, <2>0, <2>1, <2>2, <2>3, <2>4, Lengths DEF TypeOK
<1>4. SavedRows'  BY <1>1 DEF SavedRows
<1>5. Place'
  <2>  SUFFICES ASSUME NEW x \in Runs
                PROVE  /\ saved[x] > 0 => pc'[x] \in {"seeding", "done", "failed"}
                       /\ saved[x] > 0 /\ pc'[x] = "done" => saved[x] = Len(Seed)
                       /\ saved[x] > 0 /\ pc'[x] = "failed" => x \in broken'
                       /\ pc'[x] = "seeding" => saved[x] < Len(Seed)
    BY <1>1 DEF Place
  <2>1. pc'[x] = IF x \in migrating THEN "failed" ELSE pc[x]  BY <1>1
  <2>  QED  BY <1>1, <2>1 DEF Place
<1>6. Order'  BY <1>1 DEF Order, Migrated
<1>7. Excused'  BY <1>1 DEF Excused
<1>8. HotPaired'
  <2>1. Hot' \subseteq Hot  BY <1>1 DEF Hot
  <2>  QED  BY <1>1, <2>1 DEF HotPaired
<1>9. JobsThere'  BY <1>1 DEF JobsThere, Succeeded
<1>  QED  BY <1>3, <1>4, <1>5, <1>6, <1>7, <1>8, <1>9

LEMMA SetupInductive == Spec => []SetupInv
<1>  USE DEF SetupInv
<1>1. Init => SetupInv
  <2>  SUFFICES ASSUME Init PROVE SetupInv
    OBVIOUS
  <2>1. TypeOK
    <3>2. 0 \in 0 .. MaxRetries - 1 /\ 0 \in 0 .. MaxOutages /\ 0 \in 0 .. MaxKills
      BY BoundsAssumption
    <3>3. /\ history \in (SUBSET Runs) \X (SUBSET Runs) \X (SUBSET Runs) \X (SUBSET Runs)
          /\ rows \subseteq Runs \X Batches
      BY DEF Init
    <3>4. /\ pc \in [Runs -> Working \cup {"idle", "done", "failed"}]
          /\ tries \in [Runs -> 0 .. MaxRetries - 1] /\ saved \in [Runs -> 0 .. 5]
      BY <3>2 DEF Init
    <3>5. online \in BOOLEAN /\ used \in BOOLEAN /\ registry \in BOOLEAN  BY DEF Init
    <3>6. /\ schema \in {0, 8} /\ created \in 0 .. 8 /\ migrator \in Runs \cup {None}
          /\ (migrator = None <=> created = 0)
          /\ (migrator # None => pc[migrator] = "creating")
          /\ script \in [Runs -> Scripts]
          /\ outages \in 0 .. MaxOutages /\ kills \in 0 .. MaxKills
      BY <3>2 DEF Init
    <3>  QED  BY <3>3, <3>4, <3>5, <3>6, Lengths DEF TypeOK
  <2>2. SavedRows
    <3>1. 1 .. 0 = {}  OBVIOUS
    <3>  QED  BY <3>1 DEF Init, SavedRows
  <2>  QED
    BY <2>1, <2>2 DEF Init, Place, Order, Excused, HotPaired, Hot, JobsThere, Succeeded
<1>2. SetupInv /\ [Next]_vars => SetupInv'
  <2>  SUFFICES ASSUME SetupInv, [Next]_vars PROVE SetupInv'
    OBVIOUS
  <2>1. CASE \E r \in Runs : Launch(r) \/ Step(r) \/ Kill(r)
    BY <2>1, SingleMoves, CountingJobs, Saving, Migrating, Killing DEF Step
  <2>2. CASE ServerStops  BY <2>2, Stopping
  <2>3. CASE ServerStarts
    <3>1. /\ online' = TRUE
          /\ UNCHANGED <<outages, registry, schema, rows, created, migrator, used, script, pc,
                         tries, saved, kills, history, broken, rivals, paired, early>>
      BY <2>3 DEF ServerStarts, data, tx, broken, rivals, paired, early
    <3>2. TypeOK'  BY <3>1 DEF TypeOK
    <3>  QED  BY <3>1, <3>2 DEF SavedRows, Place, Order, Migrated, Excused,
                              HotPaired, Hot, JobsThere, Succeeded
  <2>4. CASE ClientCreates
    <3>1. /\ used' = TRUE
          /\ UNCHANGED <<online, outages, registry, schema, rows, created, migrator, script, pc,
                         tries, saved, kills, history, broken, rivals, paired, early>>
      BY <2>4 DEF ClientCreates, server, data, tx, broken, rivals, paired, early
    <3>2. TypeOK'  BY <3>1 DEF TypeOK
    <3>  QED  BY <3>1, <3>2 DEF SavedRows, Place, Order, Migrated, Excused,
                              HotPaired, Hot, JobsThere, Succeeded
  <2>5. CASE UNCHANGED vars
    <3>1. UNCHANGED <<online, outages, registry, schema, rows, created, migrator, used, script, pc,
                      tries, saved, kills, history, broken, rivals, paired, early>>
      BY <2>5 DEF vars, server, data, tx, broken, rivals, paired, early
    <3>2. TypeOK'  BY <3>1 DEF TypeOK
    <3>  QED  BY <3>1, <3>2 DEF SavedRows, Place, Order, Migrated, Excused,
                              HotPaired, Hot, JobsThere, Succeeded
  <2>  QED  BY <2>1, <2>2, <2>3, <2>4, <2>5 DEF Next
<1>  QED  BY <1>1, <1>2, PTL DEF Spec

\* The schema is there or not there, and every script is at one of its statements
\* (db-setup.ts:39-43, migration up()).
THEOREM TypeCorrect == Spec => []TypeOK
<1>1. SetupInv => TypeOK  BY DEF SetupInv
<1>  QED  BY <1>1, SetupInductive, PTL

\* However many scripts seed and wherever they are cut off, what a seeded row refers
\* to exists (seed-runner.ts:29-142).
THEOREM SeedsHoldTogether == Spec => []NothingDangles
<1>1. SetupInv => NothingDangles
  <2>  SUFFICES ASSUME SetupInv, NEW r \in Runs, NEW b \in Batch(r), NEW c \in RefersTo[b]
                PROVE  c \in Batch(r)
    BY DEF NothingDangles
  <2>1. b \in Batches /\ <<r, b>> \in rows  BY DEF Batch
  <2>2. saved[r] \in 0 .. 5  BY Lengths DEF SetupInv, TypeOK
  <2>3. PICK i \in 1 .. saved[r] : Seed[i] = b  BY <2>1 DEF SetupInv, SavedRows
  <2>4. \E k \in 1 .. i : Seed[k] = c
    BY <2>2, <2>3, Lengths DEF RefersTo
  <2>5. c \in Batches  BY <2>2, <2>3, <2>4, Lengths
  <2>6. <<r, c>> \in rows  BY <2>2, <2>4, <2>5 DEF SetupInv, SavedRows
  <2>  QED  BY <2>5, <2>6 DEF Batch
<1>  QED  BY <1>1, SetupInductive, PTL

\* A setup that was cut off never stands in the way of the next one
\* (db-setup.ts:39-45).
THEOREM FailuresHaveReasons == Spec => []FailuresExplained
<1>1. SetupInv => FailuresExplained
  <2>  SUFFICES ASSUME SetupInv, NEW r \in Runs, pc[r] = "failed"
                PROVE  \/ r \in broken \cup rivals
                       \/ script[r] = "seed" /\ r \in early /\ Batch(r) = {}
    BY DEF FailuresExplained
  <2>1. saved[r] = 0 => Batch(r) = {}  BY SeededRuns DEF Seeded
  <2>  QED  BY <2>1 DEF SetupInv, Excused
<1>  QED  BY <1>1, SetupInductive, PTL

\* Whoever seeds besides somebody else counted the jobs before either inserted any
\* (db-setup.ts:27-36).
THEOREM SeedingMeets == Spec => []SeededOnce
<1>1. SetupInv => SeededOnce
  <2>  SUFFICES ASSUME SetupInv, NEW r \in Seeded, NEW s \in Seeded, r # s
                PROVE  {r, s} \subseteq paired
    BY DEF SeededOnce
  <2>1. r \in Hot /\ s \in Hot  BY SeededRuns DEF Hot, Seeded
  <2>  QED  BY <2>1 DEF SetupInv, HotPaired
<1>  QED  BY <1>1, SetupInductive, PTL

\* After a successful setup the schema is whole and the baseline there, apart from
\* what was cut off, is still under way or was not needed (db-setup.ts:39-43).
THEOREM BaselineReady == Spec => []BaselineThere
<1>1. SetupInv => BaselineThere
  <2>  SUFFICES ASSUME SetupInv, NEW r \in Runs, Succeeded(r)
                PROVE  /\ Migrated
                       /\ \/ Seeded = {} /\ used
                          \/ \E s \in Seeded : \/ Batch(s) = Batches
                                               \/ pc[s] = "seeding" \/ s \in broken
    BY DEF BaselineThere
  <2>1. Migrated  BY DEF SetupInv, Order, Succeeded
  <2>2. CASE Seeded = {}
    <3>1. \A s \in Runs : ~(saved[s] > 0)  BY <2>2, SeededRuns DEF Seeded
    <3>2. used  BY <3>1 DEF SetupInv, JobsThere
    <3>  QED  BY <2>1, <2>2, <3>2
  <2>3. CASE Seeded # {}
    <3>1. PICK s \in Seeded : TRUE  BY <2>3
    <3>2. s \in Runs /\ saved[s] > 0 /\ saved[s] \in 0 .. 5
      BY <3>1, SeededRuns, Lengths DEF Seeded, SetupInv, TypeOK
    <3>3. CASE pc[s] \in {"seeding", "failed"}
      BY <2>1, <3>1, <3>2, <3>3 DEF SetupInv, Place
    <3>4. CASE pc[s] = "done"
      <4>1. saved[s] = 5  BY <3>2, <3>4, Lengths DEF SetupInv, Place
      <4>2. \A b \in Batches : \E i \in 1 .. 5 : Seed[i] = b  BY Lengths
      <4>3. \A b \in Batches : <<s, b>> \in rows
        BY <3>2, <4>1, <4>2 DEF SetupInv, SavedRows
      <4>4. Batch(s) = Batches  BY <4>3 DEF Batch
      <4>  QED  BY <2>1, <3>1, <4>4
    <3>  QED  BY <3>2, <3>3, <3>4 DEF SetupInv, Place
  <2>  QED  BY <2>2, <2>3
<1>  QED  BY <1>1, SetupInductive, PTL
=============================================================================
