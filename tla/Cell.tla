--------------------------------- MODULE Cell ---------------------------------
(***************************************************************************)
(* One cell being prepared and deployed: the workflow starts a bootstrap   *)
(* task, then a migrate task, then a preflight task, each when the one     *)
(* before it exited with success; then the API service is deployed.  The   *)
(* tasks share the secret store and the database.  BootstrapRoles and      *)
(* Migration are the tasks; this module adds the workflow, what each task  *)
(* does before it is inside the database, and the readers of the           *)
(* schema-state row.                                                       *)
(*                                                                         *)
(* The workflow runs once at a time per cell, but it may stop waiting for  *)
(* a task that goes on: tasks of several workflow runs meet.               *)
(***************************************************************************)
EXTENDS Naturals, FiniteSets

CONSTANTS
  Boots,                                             \* bootstrap tasks
  Migrators, Catalogue, MinVersion, MaxVersion,      \* migrate tasks
  StateVersion, MaxAttempts, MaxLosses, Free, Orphan, \* see Migration
  Release,        \* [Migrators -> release]: the image a migrate task runs
  Preflight, Api, \* the tasks that only read the schema
  MaxFaults,      \* bound: failures of bootstrap tasks
  MaxFailures,    \* bound: failures of preflight and API tasks
  MaxDispatches   \* bound: runs of the workflow

Releases == {Release[m] : m \in Migrators}
Readers  == {Preflight, Api}

ASSUME ReleaseAssumption ==
  /\ Release \in [Migrators -> Nat \ {0}]
  /\ \A m, n \in Migrators : Release[m] = Release[n] =>
       MinVersion[m] = MinVersion[n] /\ MaxVersion[m] = MaxVersion[n]
ASSUME MigrationAssumption ==
  /\ Catalogue \in [Migrators -> SUBSET (Nat \ {0})]
  /\ \A m \in Migrators : IsFiniteSet(Catalogue[m])
  /\ MinVersion \in [Migrators -> Nat \ {0}] /\ MaxVersion \in [Migrators -> Nat \ {0}]
  /\ MaxAttempts \in Nat \ {0} /\ MaxLosses \in Nat
  /\ Free # Orphan /\ {Free, Orphan} \cap Migrators = {}
ASSUME ReadersAssumption == Preflight # Api /\ Readers \cap Migrators = {}
ASSUME BoundAssumption == {MaxFaults, MaxFailures, MaxDispatches} \subseteq Nat

VARIABLES
  stored, exists, password, granted,            \* shared: the secret store, roles
  bpc, at, value, boutcome, generated, faults,  \* bootstrap tasks
  lock, dbVersion, applied, twice, state,       \* shared: the schema
  mpc, version, moutcome, attempts, losses,     \* migrate tasks
  hidden,      \* migrations that ran while their tables were not the API's to read
  task,        \* how far each migrate and reader task has come
  held,        \* the password each of them has resolved
  image,       \* the release each reader runs
  failures,    \* failures of readers so far
  phase,       \* what the workflow is doing
  release,     \* the release it prepares, or prepared last
  waitsFor,    \* the task it waits for
  dispatches

bootVars    == <<bpc, at, value, boutcome, generated, faults>>
roleVars    == <<stored, exists, password, granted>>
migrateVars == <<lock, dbVersion, applied, twice, state, mpc, version, moutcome,
                 attempts, losses>>
taskVars    == <<task, held, image, failures>>
flowVars    == <<phase, release, waitsFor, dispatches>>
vars == <<roleVars, bootVars, migrateVars, hidden, taskVars, flowVars>>

B == INSTANCE BootstrapRoles WITH Runs <- Boots, pc <- bpc, outcome <- boutcome
M == INSTANCE Migration WITH pc <- mpc, outcome <- moutcome

ApiRole == 1
MigrateRole == 2
RoleOf(t) == IF t \in Migrators THEN MigrateRole ELSE ApiRole

\* GRANT ... CREATE ON SCHEMA, and ALTER DEFAULT PRIVILEGES ... ON TABLES:
\* statements 4 and 6 of initialiseDatabase.
CanCreate   == 4 \in granted
SharedByDefault == 6 \in granted

\* A task is launched, has its password, has its session ("in"), has checked
\* the schema once ("checked") and, for a reader, twice ("safe").
Stages == {"off", "launched", "resolved", "in", "checked", "safe", "refused", "rejected"}
Phases == {"idle", "bootstrap", "migrate", "preflight", "prepared"}

Init ==
  /\ B!Init /\ M!Init
  /\ hidden = {}
  /\ task = [t \in Migrators \cup Readers |-> "off"]
  /\ held = [t \in Migrators \cup Readers |-> B!None]
  /\ image = [r \in Readers |-> 0] /\ failures = 0
  /\ phase = "idle" /\ release = 0 /\ waitsFor = Preflight /\ dispatches = 0

Stage(t, s) == task' = [task EXCEPT ![t] = s]

-----------------------------------------------------------------------------
\* Seeded defects: forms of the definitions below that a bug would give them.

\* The exit code of the bootstrap task is not looked at.
AfterBootstrapUnchecked ==
  /\ phase = "bootstrap" /\ bpc[waitsFor] = "done"
  /\ \E m \in Migrators :
       /\ Release[m] = release /\ task[m] \in {"off", "refused"}
       /\ Stage(m, "launched") /\ waitsFor' = m
  /\ phase' = "migrate"
  /\ UNCHANGED <<roleVars, bootVars, migrateVars, hidden, held, image,
                 failures, release, dispatches>>

\* A reader takes any clean row.
AcceptsAnyVersion(r) == state.present /\ StateVersion \notin hidden /\ ~state.dirty

\* The image is only put into the service when it is created.
DeployOnce(r) ==
  /\ image[Api] = 0
  /\ image' = [image EXCEPT ![Api] = r]
  /\ Stage(Api, "launched")
  /\ UNCHANGED <<roleVars, bootVars, migrateVars, hidden, held, failures, flowVars>>

-----------------------------------------------------------------------------
\* Bootstrap tasks.

Boot(b) ==
  /\ B!Step(b) \/ B!Fail(b)
  /\ UNCHANGED <<migrateVars, hidden, taskVars, flowVars>>

-----------------------------------------------------------------------------
\* Every other task: its password from the store, then a session.

ResolvePassword(t) ==
  /\ task[t] = "launched"
  /\ IF stored[RoleOf(t)] = B!None
     THEN Stage(t, "refused") /\ UNCHANGED held
     ELSE Stage(t, "resolved") /\ held' = [held EXCEPT ![t] = stored[RoleOf(t)]]
  /\ UNCHANGED <<roleVars, bootVars, migrateVars, hidden, image, failures, flowVars>>

LogIn(t) ==
  /\ task[t] = "resolved"
  /\ Stage(t, IF RoleOf(t) \in exists /\ password[RoleOf(t)] = held[t]
              THEN "in" ELSE "refused")
  /\ UNCHANGED <<roleVars, bootVars, migrateVars, hidden, held, image, failures, flowVars>>

\* A migrate task in the database.  Its first statement that needs a grant is
\* the creation of goose's version table.
Migrate(m) ==
  /\ task[m] = "in"
  /\ \/ (mpc[m] = "version" => CanCreate) /\ M!Step(m)
     \/ M!Fail(m)
     \/ M!Crash(m)
  /\ hidden' = IF SharedByDefault THEN hidden ELSE hidden \cup (applied' \ applied)
  /\ UNCHANGED <<roleVars, bootVars, taskVars, flowVars>>

Sessions ==
  /\ M!ReapSession \/ M!LoseSession
  /\ UNCHANGED <<roleVars, bootVars, hidden, taskVars, flowVars>>

\* Database.Check: the row is there, readable, clean and in the window.
Accepts(r) ==
  /\ state.present /\ StateVersion \notin hidden /\ ~state.dirty
  /\ \E m \in Migrators : Release[m] = image[r] /\ M!Supported(m, state.version)

\* Build checks the schema when it opens the pool, and again when everything
\* else is built.
CheckSchema(r) ==
  /\ task[r] \in {"in", "checked"}
  /\ Stage(r, IF ~Accepts(r) THEN "rejected"
              ELSE IF task[r] = "in" THEN "checked" ELSE "safe")
  /\ UNCHANGED <<roleVars, bootVars, migrateVars, hidden, held, image, failures, flowVars>>

\* A reader fails for a reason of its own, or its process ends.
ReaderFails(r) ==
  /\ task[r] \notin {"off", "refused", "rejected"} /\ failures < MaxFailures
  /\ Stage(r, "off")
  /\ failures' = failures + 1
  /\ UNCHANGED <<roleVars, bootVars, migrateVars, hidden, held, image, flowVars>>

-----------------------------------------------------------------------------
\* The workflow, and the API service.

\* A run of the workflow, of the same or a later release, starts bootstrap.
Dispatch ==
  /\ phase \in {"idle", "prepared"} /\ dispatches < MaxDispatches
  /\ dispatches' = dispatches + 1
  /\ release' \in {r \in Releases : r >= release}
  /\ phase' = "bootstrap"
  /\ \E b \in Boots : B!Start(b) /\ waitsFor' = b
  /\ UNCHANGED <<migrateVars, hidden, taskVars>>

\* A task ended and the workflow stops, without starting the next one.
Stop == phase' = "idle" /\ UNCHANGED <<release, waitsFor, dispatches>>

Launch(t, p) ==
  /\ Stage(t, "launched")
  /\ phase' = p /\ waitsFor' = t
  /\ UNCHANGED <<held, failures, release, dispatches>>

\* The migrate task of this release: one that never ran, or another run of it.
LaunchMigrate(m) ==
  /\ Release[m] = release
  /\ \/ task[m] \in {"off", "refused"} /\ UNCHANGED migrateVars
     \/ task[m] = "in" /\ M!Rerun(m)
  /\ Launch(m, "migrate")
  /\ UNCHANGED image

AfterBootstrap ==
  /\ phase = "bootstrap" /\ bpc[waitsFor] = "done"
  /\ \/ /\ boutcome[waitsFor] = "ok"
        /\ \E m \in Migrators : LaunchMigrate(m)
     \/ /\ boutcome[waitsFor] # "ok"
        /\ Stop /\ UNCHANGED <<migrateVars, taskVars>>
  /\ UNCHANGED <<roleVars, bootVars, hidden>>

MigrateExited(m) == task[m] = "refused" \/ mpc[m] = "done"

AfterMigrate ==
  /\ phase = "migrate" /\ MigrateExited(waitsFor)
  /\ IF task[waitsFor] = "in" /\ moutcome[waitsFor] = "ok"
     THEN Launch(Preflight, "preflight") /\ image' = [image EXCEPT ![Preflight] = release]
     ELSE Stop /\ UNCHANGED taskVars
  /\ UNCHANGED <<roleVars, bootVars, migrateVars, hidden>>

AfterPreflight ==
  /\ phase = "preflight" /\ task[Preflight] \in {"off", "safe", "refused", "rejected"}
  /\ phase' = IF task[Preflight] = "safe" THEN "prepared" ELSE "idle"
  /\ UNCHANGED <<roleVars, bootVars, migrateVars, hidden, taskVars,
                 release, waitsFor, dispatches>>

\* The wait for the task times out, or the workflow is cancelled.
GiveUp ==
  /\ phase \in {"bootstrap", "migrate", "preflight"}
  /\ Stop
  /\ UNCHANGED <<roleVars, bootVars, migrateVars, hidden, taskVars>>

\* The API service of a release replaces the one of an older release.  It is
\* meant to follow preflight, but nothing enforces that.
Deploy(r) ==
  /\ image[Api] < r
  /\ image' = [image EXCEPT ![Api] = r]
  /\ Stage(Api, "launched")
  /\ UNCHANGED <<roleVars, bootVars, migrateVars, hidden, held, failures, flowVars>>

\* The service starts another API task for one that ended.
RestartApi ==
  /\ image[Api] # 0 /\ task[Api] \in {"off", "refused", "rejected"}
  /\ Stage(Api, "launched")
  /\ UNCHANGED <<roleVars, bootVars, migrateVars, hidden, held, image, failures, flowVars>>

Workflow == AfterBootstrap \/ AfterMigrate \/ AfterPreflight
TaskStep(t) == ResolvePassword(t) \/ LogIn(t)

Next ==
  \/ \E b \in Boots : Boot(b)
  \/ \E t \in Migrators \cup Readers : TaskStep(t)
  \/ \E m \in Migrators : Migrate(m)
  \/ \E r \in Readers : CheckSchema(r) \/ ReaderFails(r)
  \/ Sessions
  \/ Dispatch \/ Workflow \/ GiveUp \/ RestartApi
  \/ \E r \in Releases : Deploy(r)

Spec == Init /\ [][Next]_vars

\* Tasks run on, the service keeps its task running, and a prepared release is
\* deployed.
FairSpec ==
  /\ Spec
  /\ \A r \in Readers : WF_vars(TaskStep(r) \/ CheckSchema(r))
  /\ WF_vars(phase = "prepared" /\ Deploy(release)) /\ WF_vars(RestartApi)

-----------------------------------------------------------------------------
\* What a prepared cell promises.

TypeOK ==
  /\ B!TypeOK /\ M!TypeOK
  /\ hidden \subseteq applied
  /\ task \in [Migrators \cup Readers -> Stages]
  /\ held \in [Migrators \cup Readers -> Nat]
  /\ image \in [Readers -> Releases \cup {0}]
  /\ phase \in Phases /\ release \in Releases \cup {0}
  /\ waitsFor \in Boots \cup Migrators \cup Readers
  /\ dispatches \in 0..MaxDispatches /\ failures \in 0..MaxFailures

\* The API may read every table the migrations created.  Default privileges
\* reach only tables created after them, and no later run of bootstrap gives
\* them to older tables: the order of the workflow is what this rests on, also
\* when a task outlives the run that started it.
TablesReadable == hidden = {}

\* No task of the workflow is turned away for its password, and no API task
\* once bootstrap is complete, whatever runs of bootstrap overlap with it,
\* finish late or are repeated.
NobodyLockedOut ==
  [][\A t \in Migrators \cup Readers : task[t] # "refused" /\ task'[t] = "refused" =>
       t = Api /\ ~B!Complete]_vars

\* A process that found the schema safe has every migration its release needs:
\* also after a restart, when tasks of earlier runs are still at work, when the
\* API was deployed before its release was prepared, and when a migrate task
\* lost its session and with it the lock.
ServingNotBehind ==
  \A r \in Readers : task[r] = "safe" =>
    \A m \in Migrators : Release[m] = image[r] =>
      {v \in Catalogue[m] : v <= MinVersion[m]} \subseteq applied

\* Preflight, in a run of the workflow, agrees with the migrate task before it.
PreflightAgrees == phase = "preflight" => task[Preflight] # "rejected"

\* A prepared release ends up serving, unless the workflow is run again or a
\* later release has been deployed without it.
PreparedServes ==
  phase = "prepared" ~> \/ phase # "prepared" \/ image[Api] > release
                        \/ image[Api] = release /\ task[Api] = "safe"
=============================================================================
