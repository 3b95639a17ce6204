------------------------------ MODULE CellProofs ------------------------------
(***************************************************************************)
(* Proofs about Cell.  The bootstrap tasks of a cell keep the              *)
(* specification of their own module, so what is proved about              *)
(* BootstrapRoles holds in the cell, and the order of the workflow turns   *)
(* it into what the migrate tasks rely on.                                 *)
(***************************************************************************)
EXTENDS Cell, TLAPS

BP == INSTANCE BootstrapProofs WITH Runs <- Boots, pc <- bpc, outcome <- boutcome
MP == INSTANCE MigrationProofs WITH pc <- mpc, outcome <- moutcome

-----------------------------------------------------------------------------
\* Bootstrap inside the cell.

\* What BootstrapRoles assumes of its constants.
LEMMA BootstrapAssumption == MaxFaults \in Nat
  BY BoundAssumption

LEMMA StartSimulation ==
  ASSUME NEW b \in Boots, B!Start(b)
  PROVE  BP!Next
<1>1. BP!Start(b)
  BY DEF B!Start, B!Goto, B!database, BP!Start, BP!Goto, BP!database, B!Roles, B!None, BP!Roles, BP!None
<1>2. QED
  BY <1>1 DEF BP!Next

LEMMA TaskSimulation ==
  ASSUME NEW b \in Boots, B!Step(b) \/ B!Fail(b)
  PROVE  BP!Next
<1> USE DEF B!Goto, B!Abort, B!Hold, B!SecretResolved, B!database, B!Roles, B!None,
            BP!Goto, BP!Abort, BP!Hold, BP!SecretResolved, BP!database, BP!Roles, BP!None
<1>1. B!ReadSecret(b) => BP!ReadSecret(b)
  BY DEF B!ReadSecret, BP!ReadSecret
<1>2. B!CreateSecret(b) => BP!CreateSecret(b)
  BY DEF B!CreateSecret, BP!CreateSecret
<1>3. B!Connect(b) => BP!Connect(b)
  BY DEF B!Connect, BP!Connect
<1>4. B!ProbeRole(b) => BP!ProbeRole(b)
  BY DEF B!ProbeRole, BP!ProbeRole
<1>5. B!CreateRole(b) => BP!CreateRole(b)
  BY DEF B!CreateRole, BP!CreateRole
<1>6. B!AlterRole(b) => BP!AlterRole(b)
  BY DEF B!AlterRole, BP!AlterRole
<1>7. B!Grant(b) => BP!Grant(b)
  BY DEF B!Grant, BP!Grant
<1>8. B!Report(b) => BP!Report(b)
  BY DEF B!Report, BP!Report
<1>9. B!Fail(b) => BP!Fail(b)
  BY DEF B!Fail, BP!Fail
<1>10. QED
  BY <1>1, <1>2, <1>3, <1>4, <1>5, <1>6, <1>7, <1>8, <1>9 DEF B!Step, BP!Step, BP!Next

LEMMA BootstrapInit == Init => BP!Init
  BY DEF Init, B!Init, BP!Init, B!Roles, BP!Roles, B!None, BP!None

\* Every step of the cell is a step of a bootstrap task or leaves bootstrap
\* alone.
LEMMA StepSimulation == [Next]_vars => [BP!Next]_(BP!vars)
<1> SUFFICES ASSUME [Next]_vars
             PROVE  BP!Next \/ UNCHANGED BP!vars
  OBVIOUS
<1> DEFINE Quiet == UNCHANGED <<roleVars, bootVars>>
<1>q. Quiet => UNCHANGED BP!vars
  BY DEF roleVars, bootVars, BP!vars, BP!database
<1>1. CASE UNCHANGED vars
  BY <1>1, <1>q DEF vars
<1>2. ASSUME NEW b \in Boots, Boot(b) PROVE BP!Next
  BY <1>2, TaskSimulation DEF Boot
<1>3. CASE Dispatch
  BY <1>3, StartSimulation DEF Dispatch
<1>4. ASSUME NEW t \in Migrators \cup Readers, TaskStep(t) PROVE Quiet
  BY <1>4 DEF TaskStep, ResolvePassword, LogIn
<1>5. ASSUME NEW m \in Migrators, Migrate(m) PROVE Quiet
  BY <1>5 DEF Migrate
<1>6. ASSUME NEW r \in Readers, CheckSchema(r) PROVE Quiet
  BY <1>6 DEF CheckSchema
<1>7. ASSUME NEW r \in Readers, ReaderFails(r) PROVE Quiet
  BY <1>7 DEF ReaderFails
<1>8. CASE Sessions
  BY <1>8, <1>q DEF Sessions
<1>9. CASE Workflow
  BY <1>9, <1>q DEF Workflow, AfterBootstrap, AfterMigrate, AfterPreflight
<1>10. CASE GiveUp \/ RestartApi
  BY <1>10, <1>q DEF GiveUp, RestartApi
<1>11. ASSUME NEW r \in Releases, Deploy(r) PROVE Quiet
  BY <1>11 DEF Deploy
<1>12. QED
  BY <1>1, <1>2, <1>3, <1>4, <1>5, <1>6, <1>7, <1>8, <1>9, <1>10, <1>11, <1>q DEF Next

\* The bootstrap tasks the workflow starts, however they overlap, behave as
\* runs of BootstrapRoles.
THEOREM BootstrapInCell == Spec => BP!Spec
<1>1. QED
  BY BootstrapInit, StepSimulation, PTL DEF Spec, BP!Spec

-----------------------------------------------------------------------------
\* Migration inside the cell.

\* The two instances of Migration name the same definitions.
LEMMA MigrateSimulation ==
  ASSUME NEW m \in Migrators, Migrate(m)
  PROVE  MP!Step(m) \/ MP!Fail(m) \/ MP!Crash(m)
<1> USE DEF M!Goto, M!Return, M!db, MP!Goto, MP!Return, MP!db
<1>1. M!TryLock(m) => MP!TryLock(m)
  BY DEF M!TryLock, MP!TryLock
<1>2. M!ReadVersion(m) => MP!ReadVersion(m)
  BY DEF M!ReadVersion, MP!ReadVersion, M!Pending, MP!Pending
<1>3. M!ValidateCurrentState(m) => MP!ValidateCurrentState(m)
  BY DEF M!ValidateCurrentState, MP!ValidateCurrentState, M!Supported, MP!Supported
<1>4. M!ProbeState(m) => MP!ProbeState(m)
  BY DEF M!ProbeState, MP!ProbeState
<1>5. M!MarkDirty(m) => MP!MarkDirty(m)
  BY DEF M!MarkDirty, MP!MarkDirty
<1>6. M!StartUp(m) => MP!StartUp(m)
  BY DEF M!StartUp, MP!StartUp, M!Missing, MP!Missing
<1>7. M!NextMigration(m) => MP!NextMigration(m)
  BY DEF M!NextMigration, MP!NextMigration, M!Pending, MP!Pending
<1>8. M!ApplyMigration(m) => MP!ApplyMigration(m)
  BY DEF M!ApplyMigration, MP!ApplyMigration, M!Pending, MP!Pending, M!Row, MP!Row
<1>9. M!RereadVersion(m) => MP!RereadVersion(m)
  BY DEF M!RereadVersion, MP!RereadVersion, M!Supported, MP!Supported
<1>10. M!Finalize(m) => MP!Finalize(m)
  BY DEF M!Finalize, MP!Finalize, M!Row, MP!Row
<1>11. M!Unlock(m) => MP!Unlock(m)
  BY DEF M!Unlock, MP!Unlock
<1>12. M!Step(m) => MP!Step(m)
  BY <1>1, <1>2, <1>3, <1>4, <1>5, <1>6, <1>7, <1>8, <1>9, <1>10, <1>11 DEF M!Step, MP!Step
<1>13. M!Fail(m) => MP!Fail(m)
  BY DEF M!Fail, MP!Fail, M!Statements, MP!Statements, M!InGoose, MP!InGoose
<1>14. M!Crash(m) => MP!Crash(m)
  BY DEF M!Crash, MP!Crash
<1>15. QED
  BY <1>12, <1>13, <1>14 DEF Migrate

LEMMA RerunSimulation ==
  ASSUME NEW m \in Migrators, M!Rerun(m)
  PROVE  MP!Rerun(m)
  BY DEF M!Goto, M!db, MP!Goto, MP!db, M!Rerun, MP!Rerun

LEMMA MigrationInit == Init => MP!Init
  BY DEF Init, M!Init, MP!Init, M!Absent, MP!Absent

\* Every step of the cell is a step of a migrator, or of the sessions, or
\* leaves the schema and the migrators alone.
LEMMA MigrationStep == [Next]_vars => [MP!Next]_(MP!vars)
<1> SUFFICES ASSUME [Next]_vars
             PROVE  MP!Next \/ UNCHANGED MP!vars
  OBVIOUS
<1> DEFINE Quiet == UNCHANGED migrateVars
<1>q. Quiet => UNCHANGED MP!vars
  BY DEF migrateVars, MP!vars
<1>1. CASE UNCHANGED vars
  BY <1>1, <1>q DEF vars
<1>2. ASSUME NEW b \in Boots, Boot(b) PROVE Quiet
  BY <1>2 DEF Boot
<1>3. CASE Dispatch
  BY <1>3, <1>q DEF Dispatch
<1>4. ASSUME NEW t \in Migrators \cup Readers, TaskStep(t) PROVE Quiet
  BY <1>4 DEF TaskStep, ResolvePassword, LogIn
<1>5. ASSUME NEW m \in Migrators, Migrate(m) PROVE MP!Next
  BY <1>5, MigrateSimulation DEF MP!Next
<1>6. ASSUME NEW r \in Readers, CheckSchema(r) \/ ReaderFails(r) PROVE Quiet
  BY <1>6 DEF CheckSchema, ReaderFails
<1>7. CASE Sessions
  BY <1>7 DEF Sessions, M!ReapSession, M!LoseSession, M!db,
              MP!Next, MP!ReapSession, MP!LoseSession, MP!db
<1>8. ASSUME NEW m \in Migrators, LaunchMigrate(m) PROVE MP!Next \/ Quiet
  <2>1. CASE M!Rerun(m)
    BY <2>1, RerunSimulation DEF MP!Next
  <2>2. QED
    BY <1>8, <2>1 DEF LaunchMigrate
<1>9. CASE AfterBootstrap
  BY <1>8, <1>9, <1>q DEF AfterBootstrap
<1>10. CASE AfterMigrate \/ AfterPreflight
  BY <1>10, <1>q DEF AfterMigrate, AfterPreflight
<1>11. CASE GiveUp \/ RestartApi
  BY <1>11, <1>q DEF GiveUp, RestartApi
<1>12. ASSUME NEW r \in Releases, Deploy(r) PROVE Quiet
  BY <1>12 DEF Deploy
<1>13. QED
  BY <1>1, <1>2, <1>3, <1>4, <1>5, <1>6, <1>7, <1>9, <1>10, <1>11, <1>12, <1>q DEF Next, Workflow

\* The migrate tasks the workflow starts, of whatever releases and however
\* they overlap, behave as migrators of Migration.
THEOREM MigrationInCell == Spec => MP!Spec
<1>1. QED
  BY MigrationInit, MigrationStep, PTL DEF Spec, MP!Spec

-----------------------------------------------------------------------------
\* What the order of the workflow guarantees.

\* A migrate task is launched only over a complete bootstrap, which nothing
\* undoes: its tables are created with the default privileges in effect.
OrderInv ==
  /\ BP!IInv
  /\ task \in [Migrators \cup Readers -> Stages]
  /\ phase = "bootstrap" => waitsFor \in Boots
  /\ \A m \in Migrators : task[m] # "off" => BP!Complete
  /\ hidden = {}

LEMMA OrderInit == Init => OrderInv
<1>1. Init => BP!IInv
  BY BootstrapInit, BP!InitIInv, BootstrapAssumption
<1>2. QED
  BY <1>1 DEF Init, OrderInv, Stages

LEMMA OrderStep ==
  ASSUME OrderInv, Next
  PROVE  OrderInv'
<1>a. BP!IInv'
  BY StepSimulation, BP!StepIInv, BootstrapAssumption DEF OrderInv
<1>b. BP!Complete => BP!Complete'
  BY StepSimulation, BP!CompleteKept, BootstrapAssumption DEF OrderInv
<1>c. \A b \in Boots : boutcome[b] = "ok" => BP!Complete
  BY DEF OrderInv, BP!IInv, BP!RunInv
<1> USE <1>a, <1>b DEF OrderInv, Stages
<1>1. ASSUME NEW b \in Boots, Boot(b) PROVE OrderInv'
  BY <1>1 DEF Boot, taskVars, flowVars
<1>2. ASSUME NEW t \in Migrators \cup Readers, TaskStep(t) PROVE OrderInv'
  BY <1>2 DEF TaskStep, ResolvePassword, LogIn, Stage, flowVars
<1>3. ASSUME NEW m \in Migrators, Migrate(m) PROVE OrderInv'
  <2>1. BP!Complete
    BY <1>3 DEF Migrate
  <2>2. SharedByDefault
    BY <2>1 DEF BP!Complete, BP!Grants, SharedByDefault
  <2>3. QED
    BY <1>3, <2>2 DEF Migrate, taskVars, flowVars
<1>4. ASSUME NEW r \in Readers, CheckSchema(r) \/ ReaderFails(r) PROVE OrderInv'
  <2>1. r \notin Migrators
    BY ReadersAssumption
  <2>2. task' \in [Migrators \cup Readers -> Stages]
    BY <1>4 DEF CheckSchema, ReaderFails, Stage
  <2>3. \A m \in Migrators : task'[m] = task[m]
    BY <1>4, <2>1 DEF CheckSchema, ReaderFails, Stage
  <2>4. QED
    BY <1>4, <2>2, <2>3 DEF CheckSchema, ReaderFails, flowVars
<1>5. CASE Sessions \/ GiveUp
  BY <1>5 DEF Sessions, GiveUp, Stop, taskVars, flowVars
<1>6. CASE Dispatch
  BY <1>6 DEF Dispatch, taskVars
<1>7. CASE AfterBootstrap
  <2>1. CASE boutcome[waitsFor] = "ok"
    <3>1. BP!Complete'
      BY <1>7, <1>c, <2>1 DEF AfterBootstrap
    <3>2. PICK m \in Migrators : LaunchMigrate(m)
      BY <1>7, <2>1 DEF AfterBootstrap
    <3>3. QED
      BY <1>7, <3>1, <3>2 DEF AfterBootstrap, LaunchMigrate, Launch, Stage
  <2>2. CASE boutcome[waitsFor] # "ok"
    BY <1>7, <2>2 DEF AfterBootstrap, Stop, taskVars
  <2>3. QED
    BY <2>1, <2>2
<1>8. CASE AfterMigrate
  <2>1. Preflight \notin Migrators /\ Preflight \in Readers
    BY ReadersAssumption DEF Readers
  <2>2. task' \in [Migrators \cup Readers -> Stages]
    BY <1>8, <2>1 DEF AfterMigrate, Launch, Stage, Stop, taskVars
  <2>3. \A m \in Migrators : task'[m] = task[m]
    BY <1>8, <2>1 DEF AfterMigrate, Launch, Stage, Stop, taskVars
  <2>4. QED
    BY <1>8, <2>2, <2>3 DEF AfterMigrate, Launch, Stop
<1>9. CASE AfterPreflight
  BY <1>9 DEF AfterPreflight, taskVars
<1>10. ASSUME RestartApi \/ \E r \in Releases : Deploy(r) PROVE OrderInv'
  <2>1. Api \notin Migrators /\ Api \in Readers
    BY ReadersAssumption DEF Readers
  <2>2. task' \in [Migrators \cup Readers -> Stages]
    BY <1>10, <2>1 DEF RestartApi, Deploy, Stage
  <2>3. \A m \in Migrators : task'[m] = task[m]
    BY <1>10, <2>1 DEF RestartApi, Deploy, Stage
  <2>4. QED
    BY <1>10, <2>2, <2>3 DEF RestartApi, Deploy, flowVars
<1>11. QED
  BY <1>1, <1>2, <1>3, <1>4, <1>5, <1>6, <1>7, <1>8, <1>9, <1>10 DEF Next, Workflow

LEMMA OrderStutter == OrderInv /\ UNCHANGED vars => OrderInv'
<1> SUFFICES ASSUME OrderInv, UNCHANGED vars PROVE OrderInv'
  OBVIOUS
<1>1. BP!IInv'
  BY StepSimulation, BP!StepIInv, BootstrapAssumption DEF OrderInv
<1>2. BP!Complete => BP!Complete'
  BY DEF vars, roleVars, BP!Complete
<1>3. QED
  BY <1>1, <1>2 DEF OrderInv, vars, taskVars, flowVars

\* The API can read every table any migrate task has created, for any number
\* of tasks, releases, failures and runs of the workflow.
THEOREM TablesStayReadable == Spec => []TablesReadable
<1>1. OrderInv => TablesReadable
  BY DEF OrderInv, TablesReadable
<1>2. OrderInv /\ [Next]_vars => OrderInv'
  BY OrderStep, OrderStutter
<1>3. QED
  BY <1>1, <1>2, OrderInit, PTL DEF Spec

-----------------------------------------------------------------------------
\* Passwords.

\* A secret in the store is never replaced.
LEMMA StoredKept ==
  ASSUME OrderInv, [Next]_vars, NEW r \in BP!Roles, stored[r] # BP!None
  PROVE  stored'[r] = stored[r]
<1>1. CASE UNCHANGED BP!vars
  BY <1>1 DEF BP!vars
<1>2. ASSUME NEW b \in Boots, BP!Start(b) \/ BP!Step(b) \/ BP!Fail(b)
      PROVE  stored'[r] = stored[r]
  BY <1>2, BP!NothingIsLost, BootstrapAssumption DEF OrderInv
<1>3. QED
  BY <1>1, <1>2, StepSimulation DEF BP!Next

\* What a task has resolved is what the store has, and preflight, like the
\* migrate tasks, only starts over a complete bootstrap.
LoginInv ==
  /\ held \in [Migrators \cup Readers -> Nat]
  /\ phase = "migrate" => waitsFor \in Migrators
  /\ task[Preflight] # "off" => BP!Complete
  /\ \A t \in Migrators \cup Readers : task[t] = "resolved" =>
       held[t] # BP!None /\ held[t] = stored[RoleOf(t)]

LEMMA LoginInit == Init => LoginInv
  BY DEF Init, LoginInv, B!None, Readers

LEMMA LoginStep ==
  ASSUME OrderInv, LoginInv, [Next]_vars
  PROVE  LoginInv'
<1>r. \A t \in Migrators \cup Readers : RoleOf(t) \in BP!Roles
  BY DEF RoleOf, ApiRole, MigrateRole, BP!Roles
<1>s. /\ stored \in [BP!Roles -> Nat]
      /\ task \in [Migrators \cup Readers -> Stages]
      /\ Preflight \in Readers /\ Api \in Readers /\ Preflight # Api
      /\ Preflight \notin Migrators /\ Api \notin Migrators
  BY ReadersAssumption DEF OrderInv, BP!IInv, BP!TypeOK, Readers
<1>c. BP!Complete => BP!Complete'
  BY StepSimulation, BP!CompleteKept, BootstrapAssumption DEF OrderInv
<1>k. \A t \in Migrators \cup Readers : task[t] = "resolved" =>
        held[t] # BP!None /\ held[t] = stored'[RoleOf(t)]
  BY <1>r, StoredKept DEF LoginInv
<1> USE DEF Stage
<1>1. ASSUME NEW t \in Migrators \cup Readers, ResolvePassword(t) PROVE LoginInv'
  <2>1. stored' = stored /\ RoleOf(t) \in BP!Roles /\ RoleOf(t)' = RoleOf(t)
    BY <1>1, <1>r DEF ResolvePassword, roleVars, RoleOf, ApiRole, MigrateRole
  <2>2. stored[RoleOf(t)] \in Nat
    BY <1>s, <2>1
  <2>3. held' \in [Migrators \cup Readers -> Nat]
    BY <1>1, <2>2 DEF ResolvePassword, LoginInv
  <2>4. task'[Preflight] # "off" => task[Preflight] # "off"
    BY <1>1, <1>s DEF ResolvePassword
  <2>5. phase' = phase /\ waitsFor' = waitsFor
    BY <1>1 DEF ResolvePassword, flowVars
  <2>6. ASSUME NEW u \in Migrators \cup Readers, task'[u] = "resolved"
        PROVE  held'[u] # BP!None /\ held'[u] = stored'[RoleOf(u)]
    <3>1. CASE u = t
      BY <1>1, <1>s, <2>1, <2>6, <3>1 DEF ResolvePassword, LoginInv, B!None, BP!None
    <3>2. CASE u # t
      <4>1. task[u] = "resolved" /\ held'[u] = held[u]
        BY <1>1, <1>s, <2>6, <3>2 DEF ResolvePassword, LoginInv
      <4>2. QED
        BY <1>k, <4>1
    <3>3. QED
      BY <3>1, <3>2
  <2>7. QED
    BY <1>c, <2>3, <2>4, <2>5, <2>6 DEF LoginInv, RoleOf, ApiRole, MigrateRole
<1>2. ASSUME held' = held, phase' = "migrate" => waitsFor' \in Migrators,
             task'[Preflight] # "off" => BP!Complete',
             \A u \in Migrators \cup Readers : task'[u] = "resolved" => task[u] = "resolved"
      PROVE  LoginInv'
  BY <1>2, <1>k DEF LoginInv, RoleOf, ApiRole, MigrateRole
<1>3. ASSUME NEW t \in Migrators \cup Readers, LogIn(t) PROVE LoginInv'
  BY <1>3, <1>2, <1>s, <1>c DEF LogIn, LoginInv, flowVars
<1>4. ASSUME UNCHANGED taskVars, phase' = "migrate" => UNCHANGED <<phase, waitsFor>>
      PROVE  LoginInv'
  BY <1>4, <1>2, <1>c DEF taskVars, LoginInv
<1>5. ASSUME \/ \E b \in Boots : Boot(b)
             \/ \E m \in Migrators : Migrate(m)
             \/ Sessions \/ Dispatch \/ AfterPreflight \/ GiveUp \/ UNCHANGED vars
      PROVE  UNCHANGED taskVars /\ (phase' = "migrate" => UNCHANGED <<phase, waitsFor>>)
  BY <1>5 DEF Boot, Migrate, Sessions, Dispatch, AfterPreflight, GiveUp, Stop, vars, flowVars
<1>6. ASSUME NEW r \in Readers, CheckSchema(r) \/ ReaderFails(r) PROVE LoginInv'
  BY <1>6, <1>2, <1>s, <1>c DEF CheckSchema, ReaderFails, LoginInv, flowVars
<1>7. ASSUME NEW m \in Migrators, LaunchMigrate(m) PROVE LoginInv'
  BY <1>7, <1>2, <1>s, <1>c DEF LaunchMigrate, Launch, LoginInv
<1>8. CASE AfterBootstrap
  BY <1>8, <1>7, <1>4 DEF AfterBootstrap, Stop
<1>9. CASE AfterMigrate
  <2>1. CASE task[waitsFor] = "in" /\ moutcome[waitsFor] = "ok"
    <3>1. waitsFor \in Migrators
      BY <1>9 DEF AfterMigrate, LoginInv
    <3>2. BP!Complete
      BY <2>1, <3>1 DEF OrderInv
    <3>3. held' = held /\ phase' = "preflight" /\ task' = [task EXCEPT ![Preflight] = "launched"]
      BY <1>9, <2>1 DEF AfterMigrate, Launch
    <3>4. QED
      BY <1>2, <1>c, <1>s, <3>2, <3>3
  <2>2. CASE ~(task[waitsFor] = "in" /\ moutcome[waitsFor] = "ok")
    BY <1>9, <1>4, <2>2 DEF AfterMigrate, Stop
  <2>3. QED
    BY <2>1, <2>2
<1>10. ASSUME RestartApi \/ \E r \in Releases : Deploy(r) PROVE LoginInv'
  BY <1>10, <1>2, <1>s, <1>c DEF RestartApi, Deploy, LoginInv, flowVars
<1>11. QED
  BY <1>1, <1>3, <1>4, <1>5, <1>6, <1>8, <1>9, <1>10 DEF Next, Workflow, TaskStep

\* No task of the workflow is turned away for its password, whatever other
\* runs of bootstrap do between its request to the store and its login.
THEOREM NobodyIsLockedOut == Spec => NobodyLockedOut
<1>1. OrderInv /\ LoginInv /\ [Next]_vars =>
        [\A t \in Migrators \cup Readers : task[t] # "refused" /\ task'[t] = "refused" =>
           t = Api /\ ~B!Complete]_vars
  <2> SUFFICES ASSUME OrderInv, LoginInv, Next, NEW t \in Migrators \cup Readers,
                      task[t] # "refused", task'[t] = "refused"
               PROVE  t = Api /\ ~BP!Complete
    BY DEF B!Complete, BP!Complete, B!Roles, BP!Roles, B!Grants, BP!Grants, B!None, BP!None
  <2>t. task \in [Migrators \cup Readers -> Stages]
    BY DEF OrderInv
  <2>1. TaskStep(t)
    <3>1. ASSUME UNCHANGED task PROVE FALSE
      BY <3>1
    <3>2. ASSUME NEW u, NEW s, s # "refused", Stage(u, s) PROVE FALSE
      BY <2>t, <3>2 DEF Stage
    <3>3. ASSUME NEW u \in Migrators \cup Readers, TaskStep(u), u # t PROVE FALSE
      BY <2>t, <3>3 DEF TaskStep, ResolvePassword, LogIn, Stage
    <3>4. ASSUME NEW r \in Readers, CheckSchema(r) \/ ReaderFails(r) PROVE FALSE
      BY <3>2, <3>4 DEF CheckSchema, ReaderFails
    <3>5. ASSUME Workflow PROVE FALSE
      BY <3>1, <3>2, <3>5 DEF Workflow, AfterBootstrap, AfterMigrate, AfterPreflight,
                              LaunchMigrate, Launch, taskVars
    <3>6. ASSUME RestartApi \/ \E r \in Releases : Deploy(r) PROVE FALSE
      BY <3>2, <3>6 DEF RestartApi, Deploy
    <3>7. ASSUME \/ \E b \in Boots : Boot(b)
                 \/ \E m \in Migrators : Migrate(m)
                 \/ Sessions \/ Dispatch \/ GiveUp
          PROVE  FALSE
      BY <3>1, <3>7 DEF Boot, Migrate, Sessions, Dispatch, GiveUp, taskVars
    <3>8. QED
      BY <3>3, <3>4, <3>5, <3>6, <3>7 DEF Next
  <2>2. RoleOf(t) \in BP!Roles
    BY DEF RoleOf, ApiRole, MigrateRole, BP!Roles
  <2>3. ASSUME ResolvePassword(t) PROVE ~BP!Complete
    BY <2>2, <2>3, <2>t DEF ResolvePassword, Stage, BP!Complete, B!None, BP!None
  <2>4. ASSUME LogIn(t) PROVE ~BP!Complete
    <3>1. held[t] = stored[RoleOf(t)]
      BY <2>4 DEF LogIn, LoginInv
    <3>2. ~(RoleOf(t) \in exists /\ password[RoleOf(t)] = held[t])
      BY <2>4, <2>t DEF LogIn, Stage
    <3>3. QED
      BY <2>2, <3>1, <3>2 DEF BP!Complete
  <2>5. ~BP!Complete /\ task[t] # "off"
    BY <2>1, <2>3, <2>4 DEF TaskStep, ResolvePassword, LogIn
  <2>6. QED
    BY <2>5 DEF OrderInv, LoginInv, Readers
<1>2. OrderInv /\ [Next]_vars => OrderInv'
  BY OrderStep, OrderStutter
<1>3. OrderInv /\ LoginInv /\ [Next]_vars => LoginInv'
  BY LoginStep
<1>4. QED
  BY <1>1, <1>2, <1>3, OrderInit, LoginInit, PTL DEF Spec, NobodyLockedOut

-----------------------------------------------------------------------------
\* The schema behind a process that serves.

\* What Migration assumes of its constants.
LEMMA MigrationFacts ==
  /\ Catalogue \in [Migrators -> SUBSET (Nat \ {0})]
  /\ \A m \in Migrators : MP!IsFiniteSet(Catalogue[m])
  /\ MinVersion \in [Migrators -> Nat \ {0}]
  /\ MaxVersion \in [Migrators -> Nat \ {0}]
  /\ MaxAttempts \in Nat \ {0} /\ MaxLosses \in Nat
  /\ Free # Orphan /\ {Free, Orphan} \cap Migrators = {}
  BY MigrationAssumption DEF IsFiniteSet, MP!IsFiniteSet

\* The row names a committed version, and versions are committed in order.
ServeInv ==
  /\ MP!TypeInv /\ MP!OrderInv
  /\ state.version \in applied \cup {0}
  /\ release \in Nat /\ image \in [Readers -> Nat]
  /\ ServingNotBehind

LEMMA ServeInit == Init => ServeInv
<1> SUFFICES ASSUME Init PROVE ServeInv
  OBVIOUS
<1>1. MP!TypeInv
  BY MigrationInit, MP!TypeInit, MigrationFacts
<1>2. MP!OrderInv
  BY MigrationInit DEF MP!Init, MP!OrderInv, MP!AppliedInOrder
<1>3. state.version = 0
  BY DEF Init, M!Init, M!Absent
<1>4. release \in Nat /\ image \in [Readers -> Nat] /\ ServingNotBehind
  BY DEF Init, ServingNotBehind, Readers
<1>5. QED
  BY <1>1, <1>2, <1>3, <1>4 DEF ServeInv

\* A reader that accepts the row sees every migration its release needs.
LEMMA AcceptedIsEnough ==
  ASSUME ServeInv, NEW r \in Readers, Accepts(r), NEW m \in Migrators, Release[m] = image[r]
  PROVE  {v \in Catalogue[m] : v <= MinVersion[m]} \subseteq applied
<1>1. PICK n \in Migrators : Release[n] = image[r] /\ M!Supported(n, state.version)
  BY DEF Accepts
<1>2. MinVersion[m] = MinVersion[n] /\ MinVersion[n] \in Nat \ {0}
  BY <1>1, ReleaseAssumption, MigrationAssumption
<1>3. state.version \in Nat /\ applied \subseteq Nat
  BY DEF ServeInv, MP!TypeInv, MP!TypeOK
<1>4. MinVersion[m] <= state.version /\ state.version \in applied
  BY <1>1, <1>2, <1>3 DEF M!Supported, ServeInv
<1>5. SUFFICES ASSUME NEW v \in Catalogue[m], v <= MinVersion[m] PROVE v \in applied
  OBVIOUS
<1>6. v \in Nat /\ v <= state.version
  BY <1>2, <1>3, <1>4, <1>5, MigrationAssumption
<1>7. CASE v < state.version
  BY <1>4, <1>7 DEF ServeInv, MP!OrderInv, MP!AppliedInOrder
<1>8. CASE v = state.version
  BY <1>4, <1>8
<1>9. QED
  BY <1>3, <1>6, <1>7, <1>8

\* Only its own check of the schema makes a task safe or rejects it.
LEMMA ReaderStages ==
  ASSUME task \in [Migrators \cup Readers -> Stages], [Next]_vars,
         NEW t \in Migrators \cup Readers, task'[t] # task[t], task'[t] \in {"safe", "rejected"}
  PROVE  t \in Readers /\ CheckSchema(t)
<1>1. ASSUME UNCHANGED task PROVE FALSE
  BY <1>1
<1>2. ASSUME NEW u, NEW s, s \notin {"safe", "rejected"}, Stage(u, s) PROVE FALSE
  BY <1>2 DEF Stage
<1>3. ASSUME NEW u \in Migrators \cup Readers, TaskStep(u) PROVE FALSE
  BY <1>2, <1>3 DEF TaskStep, ResolvePassword, LogIn
<1>4. ASSUME NEW r \in Readers, CheckSchema(r), r # t PROVE FALSE
  BY <1>4 DEF CheckSchema, Stage
<1>5. ASSUME \/ \E r \in Readers : ReaderFails(r)
             \/ Workflow \/ RestartApi
             \/ \E r \in Releases : Deploy(r)
      PROVE  FALSE
  BY <1>1, <1>2, <1>5 DEF ReaderFails, Workflow, AfterBootstrap, AfterMigrate, AfterPreflight,
                          LaunchMigrate, Launch, RestartApi, Deploy, taskVars
<1>6. ASSUME \/ \E b \in Boots : Boot(b)
             \/ \E m \in Migrators : Migrate(m)
             \/ Sessions \/ Dispatch \/ GiveUp \/ UNCHANGED vars
      PROVE  FALSE
  BY <1>1, <1>6 DEF Boot, Migrate, Sessions, Dispatch, GiveUp, taskVars, vars
<1>7. QED
  BY <1>3, <1>4, <1>5, <1>6 DEF Next

LEMMA ServeStep ==
  ASSUME MP!CataloguesExtend, OrderInv, ServeInv, [Next]_vars
  PROVE  ServeInv'
<1>1. [MP!Next]_(MP!vars)
  BY MigrationStep
<1>2. MP!TypeInv'
  BY <1>1, MP!TypeStep, MigrationFacts DEF ServeInv
<1>3. MP!OrderInv'
  BY <1>1, MP!OrderStep, MigrationFacts DEF ServeInv
<1>4. applied \subseteq applied' /\ state'.version \in applied' \cup {0}
  BY <1>1, MP!RowStep, MigrationFacts DEF ServeInv
<1>5. \/ UNCHANGED image /\ release' \in Nat
      \/ /\ \E r \in Nat : \E t \in Readers : image' = [image EXCEPT ![t] = r] /\ Stage(t, "launched")
         /\ UNCHANGED release
  <2> USE DEF ServeInv
  <2>1. Releases \subseteq Nat /\ Preflight \in Readers /\ Api \in Readers
    BY ReleaseAssumption DEF Releases, Readers
  <2>2. CASE AfterMigrate
    BY <2>1, <2>2 DEF AfterMigrate, Launch, Stop, taskVars
  <2>3. CASE \E r \in Releases : Deploy(r)
    BY <2>1, <2>3 DEF Deploy, flowVars
  <2>4. CASE AfterBootstrap \/ AfterPreflight \/ GiveUp \/ Dispatch \/ RestartApi
    BY <2>1, <2>4 DEF AfterBootstrap, LaunchMigrate, Launch, AfterPreflight, GiveUp, Stop,
                      Dispatch, RestartApi, taskVars, flowVars
  <2>5. CASE \/ \E b \in Boots : Boot(b)
             \/ \E m \in Migrators : Migrate(m)
             \/ Sessions \/ UNCHANGED vars
    BY <2>5 DEF Boot, Migrate, Sessions, vars, taskVars, flowVars
  <2>6. ASSUME \/ \E t \in Migrators \cup Readers : TaskStep(t)
               \/ \E r \in Readers : CheckSchema(r) \/ ReaderFails(r)
        PROVE  UNCHANGED <<image, release>>
    BY <2>6 DEF TaskStep, ResolvePassword, LogIn, CheckSchema, ReaderFails, flowVars
  <2>7. QED
    BY <2>2, <2>3, <2>4, <2>5, <2>6 DEF Next, Workflow
<1>6. release' \in Nat /\ image' \in [Readers -> Nat]
  BY <1>5 DEF ServeInv
<1>t. task \in [Migrators \cup Readers -> Stages]
  BY DEF OrderInv
<1>8. ASSUME NEW r \in Readers, task'[r] = "safe", NEW m \in Migrators, Release[m] = image'[r]
      PROVE  {v \in Catalogue[m] : v <= MinVersion[m]} \subseteq applied'
  <2>1. image'[r] = image[r]
    BY <1>5, <1>8, <1>t DEF Stage, ServeInv
  <2>2. CASE task[r] = "safe"
    BY <1>4, <1>8, <2>1, <2>2 DEF ServeInv, ServingNotBehind
  <2>3. CASE task[r] # "safe"
    <3>1. CheckSchema(r) /\ task'[r] # "rejected"
      BY <1>8, <1>t, <2>3, ReaderStages
    <3>2. Accepts(r)
      BY <1>t, <3>1 DEF CheckSchema, Stage
    <3>3. QED
      BY <1>4, <1>8, <2>1, <3>2, AcceptedIsEnough
  <2>4. QED
    BY <2>2, <2>3
<1>9. QED
  BY <1>2, <1>3, <1>4, <1>6, <1>8 DEF ServeInv, ServingNotBehind

\* A process that found the schema safe has what its release needs, for any
\* releases whose catalogues extend each other, with lost sessions as well.
THEOREM ServingIsNotBehind ==
  ASSUME MP!CataloguesExtend
  PROVE  Spec => []ServingNotBehind
<1>1. ServeInv => ServingNotBehind
  BY DEF ServeInv
<1>2. OrderInv /\ [Next]_vars => OrderInv'
  BY OrderStep, OrderStutter
<1>3. OrderInv /\ ServeInv /\ [Next]_vars => ServeInv'
  BY ServeStep
<1>4. QED
  BY <1>1, <1>2, <1>3, OrderInit, ServeInit, PTL DEF Spec

-----------------------------------------------------------------------------
\* Preflight after a successful migrate task.

\* A later release keeps the migrations of the ones before it.
ReleasesExtend ==
  \A m, n \in Migrators : Release[m] <= Release[n] => Catalogue[m] \subseteq Catalogue[n]

\* The row is clean in the window of this release, and no task of this or an
\* earlier release has anything left to do.
Settled ==
  /\ MP!Clean
  /\ \E m \in Migrators : Release[m] = release /\ MP!Supported(m, state.version)
  /\ \A m \in Migrators : Release[m] <= release =>
       MP!Pending(m, state.version) = {} /\ MP!AtRest(m)

\* From the success of the migrate task on, the schema is settled, whatever
\* tasks of earlier runs are still there.
AgreeInv ==
  /\ MP!IInv
  /\ release \in Nat /\ image \in [Readers -> Nat]
  /\ \A m \in Migrators : task[m] # "off" => Release[m] <= release
  /\ \A m \in Migrators : task[m] # "in" => mpc[m] = "lock" /\ moutcome[m] = "none"
  /\ phase = "migrate" => waitsFor \in Migrators /\ Release[waitsFor] = release
  /\ phase = "migrate" /\ moutcome[waitsFor] = "ok" => Settled
  /\ phase = "preflight" => Settled /\ image[Preflight] = release
  /\ PreflightAgrees

LEMMA AgreeInit == Init => AgreeInv
<1> SUFFICES ASSUME Init PROVE AgreeInv
  OBVIOUS
<1>1. MP!IInv
  BY MigrationInit, MP!InitIInv, MigrationFacts
<1>2. QED
  BY <1>1 DEF Init, M!Init, AgreeInv, PreflightAgrees, Readers

\* A settled schema stays settled under the tasks that may be running.
LEMMA SettledKept ==
  ASSUME AgreeInv, Settled, NEW m \in Migrators, Migrate(m)
  PROVE  Settled'
<1>1. MP!Step(m) \/ MP!Fail(m) \/ MP!Crash(m)
  BY MigrateSimulation
<1>2. Release[m] <= release /\ UNCHANGED <<release, task>>
  BY DEF Migrate, AgreeInv, flowVars, taskVars
<1>3. UNCHANGED MP!db /\ MP!AtRest(m)'
  BY <1>1, <1>2, MP!NothingToDo, MigrationFacts DEF AgreeInv, Settled
<1>4. \A n \in Migrators \ {m} : mpc'[n] = mpc[n]
  BY <1>1, MP!OtherMigrators, MigrationFacts DEF AgreeInv, MP!IInv
<1>5. QED
  BY <1>2, <1>3, <1>4 DEF Settled, MP!db, MP!Clean, MP!Supported, MP!Pending, MP!AtRest

\* The migrate task that succeeds has settled the schema.
LEMMA SuccessSettles ==
  ASSUME ReleasesExtend, AgreeInv, MP!IInv', NEW m \in Migrators, Migrate(m),
         Release[m] = release, moutcome[m] # "ok", moutcome'[m] = "ok"
  PROVE  Settled'
<1>1. MP!Step(m) \/ MP!Fail(m) \/ MP!Crash(m)
  BY MigrateSimulation
<1>2. UNCHANGED release
  BY DEF Migrate, flowVars
<1>3. MP!InRun(m) /\ mpc'[m] = "unlock"
  BY <1>1, MP!SuccessInRun, MigrationFacts DEF AgreeInv, MP!IInv
<1>4. MP!Clean' /\ MP!Supported(m, state.version)' /\ MP!Pending(m, state.version)' = {}
  BY <1>3 DEF MP!IInv, MP!RunInv, MP!Knows
<1>5. ASSUME NEW n \in Migrators, Release[n] <= release
      PROVE  MP!Pending(n, state.version)' = {} /\ MP!AtRest(n)'
  <2>1. MP!Pending(n, state.version)' = {}
    BY <1>4, <1>5 DEF ReleasesExtend, MP!Pending
  <2>2. CASE n = m
    BY <1>3, <2>1, <2>2 DEF MP!AtRest
  <2>3. CASE n # m
    <3>1. ~MP!InRun(n)
      BY <1>3, <2>3, MP!OthersWait, MigrationFacts DEF AgreeInv, MP!IInv
    <3>2. mpc[n] \in {"lock", "done"}
      BY <3>1 DEF AgreeInv, MP!IInv, MP!TypeInv, MP!TypeOK, MP!InRun
    <3>3. mpc'[n] = mpc[n]
      BY <1>1, <2>3, MP!OtherMigrators, MigrationFacts DEF AgreeInv, MP!IInv
    <3>4. QED
      BY <2>1, <3>2, <3>3 DEF MP!AtRest
  <2>4. QED
    BY <2>2, <2>3
<1>6. QED
  BY <1>2, <1>4, <1>5 DEF Settled

\* Preflight accepts a settled schema.
LEMMA SettledAccepted ==
  ASSUME OrderInv, Settled, image[Preflight] = release
  PROVE  Accepts(Preflight)
  BY DEF OrderInv, Settled, Accepts, MP!Clean, MP!Supported, M!Supported

LEMMA AgreeStep ==
  ASSUME MaxLosses = 0, ReleasesExtend, OrderInv, AgreeInv, [Next]_vars
  PROVE  AgreeInv'
<1>i. MP!IInv'
  BY MigrationStep, MP!IInvStep, MigrationFacts DEF AgreeInv
<1>t. /\ task \in [Migrators \cup Readers -> Stages]
      /\ mpc \in [Migrators -> MP!PCs] /\ moutcome \in [Migrators -> MP!Outcomes]
      /\ \A m \in Migrators : Release[m] \in Nat
      /\ Releases \subseteq Nat
  BY ReleaseAssumption DEF OrderInv, AgreeInv, MP!IInv, MP!TypeInv, MP!TypeOK, Releases
<1>r. /\ Preflight \in Readers /\ Api \in Readers /\ Preflight # Api
      /\ \A r \in Readers : r \notin Migrators
  BY ReadersAssumption DEF Readers
<1>s. UNCHANGED <<state, mpc, release>> => (Settled => Settled')
  BY DEF Settled, MP!Clean, MP!Supported, MP!Pending, MP!AtRest
<1>1. CASE \/ \E b \in Boots : Boot(b)
           \/ UNCHANGED vars
           \/ GiveUp
  BY <1>1, <1>i, <1>s
  DEF Boot, GiveUp, Stop, vars, migrateVars, taskVars, flowVars, AgreeInv, PreflightAgrees
<1>2. ASSUME NEW t \in Migrators \cup Readers, TaskStep(t) PROVE AgreeInv'
  <2>1. /\ UNCHANGED <<migrateVars, flowVars, image>>
        /\ task[t] \in {"launched", "resolved"}
        /\ \E s \in {"refused", "resolved", "in"} : Stage(t, s)
    BY <1>2 DEF TaskStep, ResolvePassword, LogIn
  <2>2. QED
    BY <1>i, <1>s, <1>t, <2>1
    DEF Stage, AgreeInv, PreflightAgrees, migrateVars, flowVars
<1>3. ASSUME NEW m \in Migrators, Migrate(m) PROVE AgreeInv'
  <2>1. UNCHANGED <<task, image, phase, release, waitsFor>>
    BY <1>3 DEF Migrate, taskVars, flowVars
  <2>2. \A n \in Migrators \ {m} : mpc'[n] = mpc[n] /\ moutcome'[n] = moutcome[n]
    BY <1>3, MigrateSimulation, MP!OtherMigrators, MigrationFacts DEF AgreeInv, MP!IInv
  <2>3. task[m] = "in"
    BY <1>3 DEF Migrate
  <2>4. Settled => Settled'
    BY <1>3, SettledKept
  <2>5. ASSUME phase = "migrate", moutcome'[waitsFor] = "ok" PROVE Settled'
    <3>1. CASE moutcome[waitsFor] = "ok"
      BY <2>4, <2>5, <3>1 DEF AgreeInv
    <3>2. CASE moutcome[waitsFor] # "ok"
      <4>1. waitsFor = m /\ Release[m] = release
        BY <2>2, <2>5, <3>2 DEF AgreeInv
      <4>2. QED
        BY <1>3, <1>i, <2>5, <3>2, <4>1, SuccessSettles
    <3>3. QED
      BY <3>1, <3>2
  <2>6. QED
    BY <1>i, <2>1, <2>2, <2>3, <2>4, <2>5 DEF AgreeInv, PreflightAgrees
<1>4. ASSUME NEW r \in Readers, CheckSchema(r) PROVE AgreeInv'
  <2>1. UNCHANGED <<migrateVars, flowVars, image>>
    BY <1>4 DEF CheckSchema
  <2>2. \A m \in Migrators : task'[m] = task[m]
    BY <1>4, <1>r, <1>t DEF CheckSchema, Stage
  <2>3. ASSUME phase = "preflight", task'[Preflight] = "rejected" PROVE FALSE
    <3>1. task[Preflight] # "rejected" /\ Accepts(Preflight)
      BY <2>3, SettledAccepted DEF AgreeInv, PreflightAgrees
    <3>2. CASE r = Preflight
      BY <1>4, <1>t, <2>3, <3>1, <3>2 DEF CheckSchema, Stage
    <3>3. CASE r # Preflight
      BY <1>4, <1>t, <2>3, <3>1, <3>3 DEF CheckSchema, Stage
    <3>4. QED
      BY <3>2, <3>3
  <2>4. QED
    BY <1>i, <1>s, <2>1, <2>2, <2>3 DEF AgreeInv, PreflightAgrees, migrateVars, flowVars
<1>5. ASSUME \/ \E r \in Readers : ReaderFails(r)
             \/ RestartApi \/ \E r \in Releases : Deploy(r)
      PROVE  AgreeInv'
  <2>1. UNCHANGED <<migrateVars, flowVars>>
    BY <1>5 DEF ReaderFails, RestartApi, Deploy
  <2>2. \E r \in Readers, s \in {"off", "launched"} : Stage(r, s)
    BY <1>5, <1>r DEF ReaderFails, RestartApi, Deploy
  <2>3. \/ UNCHANGED image
        \/ \E r \in Nat : image' = [image EXCEPT ![Api] = r]
    BY <1>5, <1>t DEF ReaderFails, RestartApi, Deploy
  <2>4. /\ \A m \in Migrators : task'[m] = task[m]
        /\ task'[Preflight] = "rejected" => task[Preflight] = "rejected"
    BY <1>r, <1>t, <2>2 DEF Stage
  <2>5. image' \in [Readers -> Nat] /\ image'[Preflight] = image[Preflight]
    BY <1>r, <2>3 DEF AgreeInv
  <2>6. QED
    BY <1>i, <1>s, <2>1, <2>4, <2>5 DEF AgreeInv, PreflightAgrees, migrateVars, flowVars
<1>6. CASE Sessions
  <2>1. UNCHANGED <<state, mpc, moutcome, task, image, phase, release, waitsFor>>
    BY <1>6 DEF Sessions, M!ReapSession, M!LoseSession, M!db, taskVars, flowVars
  <2>2. QED
    BY <1>i, <1>s, <2>1 DEF AgreeInv, PreflightAgrees
<1>7. CASE Dispatch
  <2>1. /\ phase' = "bootstrap" /\ release' \in Nat /\ release <= release'
        /\ UNCHANGED <<migrateVars, taskVars>>
    BY <1>7, <1>t DEF Dispatch
  <2>2. QED
    BY <1>i, <1>t, <2>1 DEF AgreeInv, PreflightAgrees, migrateVars, taskVars
<1>8. CASE AfterBootstrap
  <2>1. ASSUME NEW m \in Migrators, LaunchMigrate(m) PROVE AgreeInv'
    <3>1. /\ task' = [task EXCEPT ![m] = "launched"] /\ phase' = "migrate" /\ waitsFor' = m
          /\ UNCHANGED <<image, release>> /\ Release[m] = release
      BY <2>1 DEF LaunchMigrate, Launch, Stage
    <3>2. /\ mpc'[m] = "lock" /\ moutcome'[m] = "none"
          /\ \A n \in Migrators \ {m} : mpc'[n] = mpc[n] /\ moutcome'[n] = moutcome[n]
      <4>1. CASE task[m] \in {"off", "refused"} /\ UNCHANGED migrateVars
        BY <4>1 DEF AgreeInv, migrateVars
      <4>2. CASE M!Rerun(m)
        BY <1>t, <4>2 DEF M!Rerun, M!Goto
      <4>3. QED
        BY <2>1, <4>1, <4>2 DEF LaunchMigrate
    <3>3. QED
      BY <1>i, <1>t, <3>1, <3>2 DEF AgreeInv, PreflightAgrees
  <2>2. CASE Stop /\ UNCHANGED <<migrateVars, taskVars>>
    BY <1>i, <2>2 DEF Stop, AgreeInv, PreflightAgrees, migrateVars, taskVars
  <2>3. QED
    BY <1>8, <2>1, <2>2 DEF AfterBootstrap
<1>9. CASE AfterMigrate
  <2>1. CASE task[waitsFor] = "in" /\ moutcome[waitsFor] = "ok"
    <3>1. /\ task' = [task EXCEPT ![Preflight] = "launched"] /\ phase' = "preflight"
          /\ image' = [image EXCEPT ![Preflight] = release] /\ UNCHANGED <<release, migrateVars>>
      BY <1>9, <2>1 DEF AfterMigrate, Launch, Stage
    <3>2. Settled'
      BY <1>9, <1>s, <2>1, <3>1 DEF AfterMigrate, AgreeInv, migrateVars
    <3>3. \A m \in Migrators : task'[m] = task[m]
      BY <1>r, <1>t, <3>1
    <3>4. task'[Preflight] = "launched" /\ image'[Preflight] = release /\ image' \in [Readers -> Nat]
      BY <1>r, <1>t, <3>1 DEF AgreeInv
    <3>5. QED
      BY <1>i, <3>1, <3>2, <3>3, <3>4 DEF AgreeInv, PreflightAgrees, migrateVars
  <2>2. CASE ~(task[waitsFor] = "in" /\ moutcome[waitsFor] = "ok")
    BY <1>9, <1>i, <2>2 DEF AfterMigrate, Stop, AgreeInv, PreflightAgrees, migrateVars, taskVars
  <2>3. QED
    BY <2>1, <2>2
<1>10. CASE AfterPreflight
  BY <1>10, <1>i DEF AfterPreflight, AgreeInv, PreflightAgrees, migrateVars, taskVars
<1>11. QED
  BY <1>1, <1>2, <1>3, <1>4, <1>5, <1>6, <1>7, <1>8, <1>9, <1>10 DEF Next, Workflow

\* The preflight task of a workflow run never rejects what the migrate task of
\* that run has left, although tasks of earlier runs and of earlier releases
\* may still be in the database.
THEOREM PreflightAgreesWithMigrate ==
  ASSUME MaxLosses = 0, ReleasesExtend
  PROVE  Spec => []PreflightAgrees
<1>1. AgreeInv => PreflightAgrees
  BY DEF AgreeInv
<1>2. OrderInv /\ [Next]_vars => OrderInv'
  BY OrderStep, OrderStutter
<1>3. OrderInv /\ AgreeInv /\ [Next]_vars => AgreeInv'
  BY AgreeStep
<1>4. QED
  BY <1>1, <1>2, <1>3, OrderInit, AgreeInit, PTL DEF Spec

-----------------------------------------------------------------------------
\* Types.

\* What the workflow and the tasks add to the two instances.
FlowType ==
  /\ task \in [Migrators \cup Readers -> Stages]
  /\ held \in [Migrators \cup Readers -> Nat]
  /\ image \in [Readers -> Releases \cup {0}]
  /\ phase \in Phases /\ release \in Releases \cup {0}
  /\ waitsFor \in Boots \cup Migrators \cup Readers
  /\ dispatches \in 0..MaxDispatches /\ failures \in 0..MaxFailures

LEMMA FlowTypeInit == Init => FlowType
<1> SUFFICES ASSUME Init PROVE FlowType
  OBVIOUS
<1>1. {MaxDispatches, MaxFailures} \subseteq Nat
  BY BoundAssumption
<1>2. "off" \in Stages /\ "idle" \in Phases /\ B!None \in Nat /\ Preflight \in Readers
  BY DEF Stages, Phases, B!None, Readers
<1>3. QED
  BY <1>1, <1>2 DEF Init, FlowType

LEMMA FlowTypeStep ==
  ASSUME OrderInv, FlowType, [Next]_vars
  PROVE  FlowType'
<1> DEFINE Tasks == Migrators \cup Readers
<1>t. /\ task \in [Tasks -> Stages] /\ held \in [Tasks -> Nat] /\ image \in [Readers -> Releases \cup {0}]
      /\ phase \in Phases /\ release \in Releases \cup {0} /\ waitsFor \in Boots \cup Tasks
      /\ dispatches \in 0..MaxDispatches /\ failures \in 0..MaxFailures
  BY DEF FlowType
<1>b. {MaxDispatches, MaxFailures} \subseteq Nat
  BY BoundAssumption
<1>r. Preflight \in Readers /\ Api \in Readers
  BY DEF Readers
<1>s. /\ {"off", "launched", "resolved", "in", "checked", "safe", "refused", "rejected"} = Stages
      /\ {"idle", "bootstrap", "migrate", "preflight", "prepared"} = Phases
  BY DEF Stages, Phases
<1>k. ASSUME UNCHANGED <<taskVars, flowVars>> PROVE FlowType'
  BY <1>k DEF FlowType, taskVars, flowVars
<1>a. ASSUME NEW t \in Tasks, NEW s \in Stages, Stage(t, s), UNCHANGED <<held, image, failures, flowVars>>
      PROVE  FlowType'
  BY <1>t, <1>a DEF Stage, FlowType, flowVars
<1> HIDE DEF Tasks
<1>1. CASE UNCHANGED vars
  BY <1>1, <1>k DEF vars
<1>2. ASSUME NEW b \in Boots, Boot(b) PROVE FlowType'
  BY <1>2, <1>k DEF Boot
<1>3. ASSUME NEW t \in Tasks, ResolvePassword(t) PROVE FlowType'
  <2>1. CASE Stage(t, "refused") /\ UNCHANGED held
    BY <1>3, <1>a, <1>s, <2>1 DEF ResolvePassword
  <2>2. CASE Stage(t, "resolved") /\ held' = [held EXCEPT ![t] = stored[RoleOf(t)]]
    <3>1. stored \in [BP!Roles -> Nat] /\ RoleOf(t) \in BP!Roles
      BY DEF OrderInv, BP!IInv, BP!TypeOK, RoleOf, ApiRole, MigrateRole, BP!Roles
    <3>2. held' \in [Tasks -> Nat]
      BY <1>t, <2>2, <3>1
    <3>3. task' \in [Tasks -> Stages]
      BY <1>t, <1>s, <2>2 DEF Stage
    <3>4. UNCHANGED <<image, failures, flowVars>>
      BY <1>3 DEF ResolvePassword
    <3>5. QED
      BY <1>t, <3>2, <3>3, <3>4 DEF FlowType, flowVars, Tasks
  <2>3. QED
    BY <1>3, <2>1, <2>2 DEF ResolvePassword
<1>4. ASSUME NEW t \in Tasks, LogIn(t) PROVE FlowType'
  <2>1. PICK s \in {"in", "refused"} : Stage(t, s)
    BY <1>4 DEF LogIn
  <2>2. QED
    BY <1>4, <1>a, <1>s, <2>1 DEF LogIn
<1>5. ASSUME NEW m \in Migrators, Migrate(m) PROVE FlowType'
  BY <1>5, <1>k DEF Migrate
<1>6. CASE Sessions
  BY <1>6, <1>k DEF Sessions
<1>7. ASSUME NEW r \in Readers, CheckSchema(r) PROVE FlowType'
  <2>1. PICK s \in {"rejected", "checked", "safe"} : Stage(r, s)
    BY <1>7 DEF CheckSchema
  <2>2. s \in Stages /\ r \in Tasks /\ UNCHANGED <<held, image, failures, flowVars>>
    BY <1>7, <1>s DEF CheckSchema, Tasks
  <2>3. QED
    BY <1>a, <2>1, <2>2
<1>8. ASSUME NEW r \in Readers, ReaderFails(r) PROVE FlowType'
  <2>1. task' \in [Tasks -> Stages]
    BY <1>t, <1>s, <1>8 DEF ReaderFails, Stage, Tasks
  <2>2. failures' \in 0..MaxFailures
    BY <1>t, <1>b, <1>8 DEF ReaderFails
  <2>3. UNCHANGED <<held, image, flowVars>>
    BY <1>8 DEF ReaderFails
  <2>4. QED
    BY <1>t, <2>1, <2>2, <2>3 DEF FlowType, flowVars, Tasks
<1>9. CASE Dispatch
  <2>1. dispatches' \in 0..MaxDispatches
    BY <1>t, <1>b, <1>9 DEF Dispatch
  <2>2. release' \in Releases /\ phase' \in Phases /\ waitsFor' \in Boots
    BY <1>9, <1>s DEF Dispatch
  <2>3. UNCHANGED taskVars
    BY <1>9 DEF Dispatch
  <2>4. QED
    BY <1>t, <2>1, <2>2, <2>3 DEF FlowType, taskVars, Tasks
<1>l. ASSUME NEW t \in Tasks, NEW p \in Phases, Launch(t, p), image' \in [Readers -> Releases \cup {0}]
      PROVE  FlowType'
  <2>1. task' \in [Tasks -> Stages]
    BY <1>t, <1>s, <1>l DEF Launch, Stage
  <2>2. phase' \in Phases /\ waitsFor' \in Tasks /\ UNCHANGED <<held, failures, release, dispatches>>
    BY <1>l DEF Launch
  <2>3. QED
    BY <1>t, <1>l, <2>1, <2>2 DEF FlowType, Tasks
<1>p. ASSUME Stop, UNCHANGED taskVars PROVE FlowType'
  BY <1>t, <1>s, <1>p DEF Stop, FlowType, taskVars, Tasks
<1>10. CASE AfterBootstrap
  <2>1. ASSUME NEW m \in Migrators, LaunchMigrate(m) PROVE FlowType'
    <3>1. Launch(m, "migrate") /\ UNCHANGED image
      BY <2>1 DEF LaunchMigrate
    <3>2. m \in Tasks /\ "migrate" \in Phases
      BY <1>s DEF Tasks
    <3>3. QED
      BY <1>t, <1>l, <3>1, <3>2
  <2>2. QED
    BY <1>10, <1>p, <2>1 DEF AfterBootstrap
<1>11. CASE AfterMigrate
  <2>1. CASE Launch(Preflight, "preflight") /\ image' = [image EXCEPT ![Preflight] = release]
    <3>1. image' \in [Readers -> Releases \cup {0}]
      BY <1>t, <1>r, <2>1
    <3>2. Preflight \in Tasks /\ "preflight" \in Phases
      BY <1>r, <1>s DEF Tasks
    <3>3. QED
      BY <1>l, <2>1, <3>1, <3>2
  <2>2. QED
    BY <1>11, <1>p, <2>1 DEF AfterMigrate
<1>12. CASE AfterPreflight
  <2>1. phase' \in Phases /\ UNCHANGED <<taskVars, release, waitsFor, dispatches>>
    BY <1>12, <1>s DEF AfterPreflight
  <2>2. QED
    BY <1>t, <2>1 DEF FlowType, taskVars, Tasks
<1>13. CASE GiveUp
  BY <1>13, <1>p DEF GiveUp
<1>14. CASE RestartApi
  <2>1. Stage(Api, "launched") /\ UNCHANGED <<held, image, failures, flowVars>>
    BY <1>14 DEF RestartApi
  <2>2. Api \in Tasks /\ "launched" \in Stages
    BY <1>r, <1>s DEF Tasks
  <2>3. QED
    BY <1>a, <2>1, <2>2
<1>15. ASSUME NEW r \in Releases, Deploy(r) PROVE FlowType'
  <2>1. image' \in [Readers -> Releases \cup {0}]
    BY <1>t, <1>r, <1>15 DEF Deploy
  <2>2. task' \in [Tasks -> Stages]
    BY <1>t, <1>r, <1>s, <1>15 DEF Deploy, Stage, Tasks
  <2>3. UNCHANGED <<held, failures, flowVars>>
    BY <1>15 DEF Deploy
  <2>4. QED
    BY <1>t, <2>1, <2>2, <2>3 DEF FlowType, flowVars, Tasks
<1>16. QED
  BY <1>1, <1>2, <1>3, <1>4, <1>5, <1>6, <1>7, <1>8, <1>9, <1>10, <1>11, <1>12, <1>13, <1>14, <1>15
     DEF Next, TaskStep, Workflow, Tasks

\* A cell keeps its types, those of its tasks among them.
THEOREM TypeCorrect == Spec => []TypeOK
<1>1. OrderInv /\ [Next]_vars => OrderInv'
  BY OrderStep, OrderStutter
<1>2. OrderInv /\ FlowType /\ [Next]_vars => FlowType'
  BY FlowTypeStep
<1>3. BP!IInv => B!TypeOK
  BY DEF BP!IInv, BP!TypeOK, B!TypeOK, BP!Roles, B!Roles, BP!Grants, B!Grants, BP!PCs, B!PCs
<1>4. MP!TypeInv => M!TypeOK
  BY DEF MP!TypeInv, MP!TypeOK, M!TypeOK, MP!Absent, M!Absent, MP!PCs, M!PCs, MP!Statements, M!Statements,
         MP!Outcomes, M!Outcomes
<1>5. OrderInv /\ FlowType /\ MP!TypeInv => TypeOK
  BY <1>3, <1>4 DEF OrderInv, FlowType, TypeOK
<1>6. MP!Spec => []MP!TypeInv
  <2>1. MP!Init => MP!TypeInv
    BY MigrationFacts, MP!TypeInit
  <2>2. MP!TypeInv /\ [MP!Next]_(MP!vars) => MP!TypeInv'
    BY MigrationFacts, MP!TypeStep
  <2>3. QED
    BY <2>1, <2>2, PTL DEF MP!Spec
<1>7. QED
  BY <1>1, <1>2, <1>5, <1>6, MigrationInCell, OrderInit, FlowTypeInit, PTL DEF Spec
=============================================================================
