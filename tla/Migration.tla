------------------------------ MODULE Migration ------------------------------
(***************************************************************************)
(* The schema migrator (cmd/migrate, internal/migration) on one Postgres   *)
(* database.  A migrator is one invocation of the binary: it takes a       *)
(* session advisory lock, marks the schema-state row dirty, lets goose     *)
(* apply the pending migrations of its catalogue one transaction at a      *)
(* time, and rewrites the row as clean.  Each action is one SQL statement  *)
(* or transaction together with the code up to the next one, so everything *)
(* other processes can do between two statements is an interleaving here.  *)
(*                                                                         *)
(* goose and Postgres are modelled from how the code uses them: a goose    *)
(* version is the version of the last row of goose_db_version, and a       *)
(* migration and its version row commit together.                          *)
(***************************************************************************)
EXTENDS Naturals, FiniteSets

CONSTANTS
  Migrators,     \* migrator processes, possibly built from different commits
  Catalogue,     \* [Migrators -> sets of versions]: migrations compiled in
  MinVersion,    \* [Migrators -> version]: MinimumSchemaVersion of the binary
  MaxVersion,    \* [Migrators -> version]: MaximumSchemaVersion of the binary
  StateVersion,  \* the migration that creates accountable_schema_state
  MaxAttempts,   \* bound: how often one migrator is run
  MaxLosses,     \* bound: how often a live session is cut by the network
  Free,          \* nobody holds the advisory lock
  Orphan         \* a backend whose client died still holds it

ASSUME CatalogueAssumption ==
  /\ Catalogue \in [Migrators -> SUBSET (Nat \ {0})]
  /\ \A m \in Migrators : IsFiniteSet(Catalogue[m])
ASSUME WindowAssumption ==
  /\ MinVersion \in [Migrators -> Nat \ {0}]
  /\ MaxVersion \in [Migrators -> Nat \ {0}]
ASSUME BoundAssumption == MaxAttempts \in Nat \ {0} /\ MaxLosses \in Nat
ASSUME LockAssumption  == Free # Orphan /\ {Free, Orphan} \cap Migrators = {}

VARIABLES
  lock,       \* holder of pg_advisory_lock(migrationLockID)
  dbVersion,  \* version in the last row of goose_db_version, 0 when empty
  applied,    \* versions whose migration has committed
  twice,      \* versions whose migration has committed more than once
  state,      \* the row of accountable_schema_state, or Absent
  pc,         \* next statement of each migrator
  version,    \* the goose version each migrator read last
  outcome,    \* how each migrator's Run returned
  attempts,   \* runs started per migrator
  losses      \* sessions cut so far

db   == <<dbVersion, applied, twice, state>>
vars == <<lock, dbVersion, applied, twice, state, pc, version, outcome,
          attempts, losses>>

-----------------------------------------------------------------------------
\* The schema-state row.

Absent == [present |-> FALSE, version |-> 0, dirty |-> FALSE]
Row(v, d) == [present |-> TRUE, version |-> v, dirty |-> d]

\* ValidateSchemaState: the window compiled into binary m.
Supported(m, v) == MinVersion[m] <= v /\ v <= MaxVersion[m]

\* Seeded defect: current version counted as pending.
PendingInclusive(m, v) == {w \in Catalogue[m] : w >= v}

\* goose.CollectMigrations(".", v, MaxVersion), and what Up has left at v.
Pending(m, v) == {w \in Catalogue[m] : w > v}

\* The migrations goose.Up refuses to skip: unapplied ones below an applied one.
Missing(m) == {v \in Catalogue[m] \ applied : \E w \in applied : v < w}

-----------------------------------------------------------------------------
Statements == {"lock", "version", "validate", "probe", "mark",
               "up", "next", "apply", "reread", "finalize"}
PCs        == Statements \cup {"unlock", "done"}
Outcomes   == {"none", "ok", "error", "migrationFailed", "crashed"}

\* The statements a migrator issues while it believes it owns the lock.
InRun(m)    == pc[m] \in PCs \ {"lock", "done"}
\* ... those between marking the row dirty and rewriting it as clean,
Mutating(m) == pc[m] \in {"up", "next", "apply", "reread", "finalize"}
\* ... and those of goose.UpContext.
InGoose(m)  == pc[m] \in {"up", "next", "apply"}

Goto(m, label) == pc' = [pc EXCEPT ![m] = label]

\* Run returns: the deferred unlock runs next.
Return(m, result) == Goto(m, "unlock") /\ outcome' = [outcome EXCEPT ![m] = result]

Init ==
  /\ lock = Free
  /\ dbVersion = 0
  /\ applied = {}
  /\ twice = {}
  /\ state = Absent
  /\ pc = [m \in Migrators |-> "lock"]
  /\ version = [m \in Migrators |-> 0]
  /\ outcome = [m \in Migrators |-> "none"]
  /\ attempts = [m \in Migrators |-> 1]
  /\ losses = 0

-----------------------------------------------------------------------------
\* Seeded defects: forms of the actions below that a bug would give them.

\* The answer of pg_try_advisory_lock is not looked at.
TryLockUnchecked(m) ==
  /\ pc[m] = "lock"
  /\ lock' = IF lock = Free THEN m ELSE lock
  /\ Goto(m, "version")
  /\ UNCHANGED <<db, version, outcome>>

\* The row is never marked dirty.
ProbeNeverMarks(m) ==
  pc[m] = "probe" /\ Goto(m, "up") /\ UNCHANGED <<lock, db, version, outcome>>

\* A run with nothing pending looks at goose's version only.
ValidateGooseOnly(m) ==
  /\ pc[m] = "validate"
  /\ Return(m, IF state.present /\ Supported(m, version[m]) THEN "ok" ELSE "error")
  /\ UNCHANGED <<lock, db, version>>

\* Pending migrations are applied in the order of a directory listing.
ApplyInAnyOrder(m) ==
  /\ pc[m] = "apply"
  /\ \E v \in Pending(m, version[m]) :
       /\ dbVersion' = v
       /\ applied' = applied \cup {v}
       /\ twice' = IF v \in applied THEN twice \cup {v} ELSE twice
       /\ state' = IF v = StateVersion /\ ~state.present THEN Row(0, FALSE) ELSE state
  /\ Goto(m, "next")
  /\ UNCHANGED <<lock, version, outcome>>

\* The version goose reached is finalized without validating it.
RereadUnvalidated(m) ==
  /\ pc[m] = "reread"
  /\ version' = [version EXCEPT ![m] = dbVersion]
  /\ Goto(m, "finalize")
  /\ UNCHANGED <<lock, db, outcome>>

\* The deferred unlock is missing and the pool is left open.
UnlockForgotten(m) ==
  pc[m] = "unlock" /\ Goto(m, "done") /\ UNCHANGED <<lock, db, version, outcome>>

-----------------------------------------------------------------------------
\* One run of the migrator.

TryLock(m) ==
  /\ pc[m] = "lock"
  /\ \/ /\ lock = Free
        /\ lock' = m
        /\ Goto(m, "version")
        /\ UNCHANGED outcome
     \/ /\ lock # Free
        /\ Goto(m, "done")
        /\ outcome' = [outcome EXCEPT ![m] = "error"]
        /\ UNCHANGED lock
  /\ UNCHANGED <<db, version>>

\* SET TIME ZONE, its check, SET search_path and goose.GetDBVersion.
ReadVersion(m) ==
  /\ pc[m] = "version"
  /\ version' = [version EXCEPT ![m] = dbVersion]
  /\ Goto(m, IF Pending(m, dbVersion) = {} THEN "validate" ELSE "probe")
  /\ UNCHANGED <<lock, db, outcome>>

ValidateCurrentState(m) ==
  /\ pc[m] = "validate"
  /\ LET matches == /\ state.present
                    /\ state.version = version[m]
                    /\ ~state.dirty
                    /\ Supported(m, state.version)
     IN  Return(m, IF matches THEN "ok" ELSE "error")
  /\ UNCHANGED <<lock, db, version>>

ProbeState(m) ==
  /\ pc[m] = "probe"
  /\ Goto(m, IF state.present THEN "mark" ELSE "up")
  /\ UNCHANGED <<lock, db, version, outcome>>

MarkDirty(m) ==
  /\ pc[m] = "mark"
  /\ state' = [state EXCEPT !.dirty = TRUE]
  /\ Goto(m, "up")
  /\ UNCHANGED <<lock, dbVersion, applied, twice, version, outcome>>

\* goose.Up lists the version rows and refuses a catalogue with a gap.
StartUp(m) ==
  /\ pc[m] = "up"
  /\ IF Missing(m) = {} THEN Goto(m, "next") /\ UNCHANGED outcome
                        ELSE Return(m, "migrationFailed")
  /\ UNCHANGED <<lock, db, version>>

NextMigration(m) ==
  /\ pc[m] = "next"
  /\ version' = [version EXCEPT ![m] = dbVersion]
  /\ Goto(m, IF Pending(m, dbVersion) = {} THEN "reread" ELSE "apply")
  /\ UNCHANGED <<lock, db, outcome>>

\* One transaction: the migration's SQL and its row in goose_db_version.
ApplyMigration(m) ==
  /\ pc[m] = "apply"
  /\ \E v \in Pending(m, version[m]) :
       /\ \A w \in Pending(m, version[m]) : v <= w
       /\ dbVersion' = v
       /\ applied' = applied \cup {v}
       /\ twice' = IF v \in applied THEN twice \cup {v} ELSE twice
       /\ state' = IF v = StateVersion /\ ~state.present THEN Row(0, FALSE) ELSE state
  /\ Goto(m, "next")
  /\ UNCHANGED <<lock, version, outcome>>

RereadVersion(m) ==
  /\ pc[m] = "reread"
  /\ version' = [version EXCEPT ![m] = dbVersion]
  /\ IF Supported(m, dbVersion) THEN Goto(m, "finalize") /\ UNCHANGED outcome
                                ELSE Return(m, "error")
  /\ UNCHANGED <<lock, db>>

\* The finalizing UPDATE.  Its answer may be lost after it took effect.
Finalize(m) ==
  /\ pc[m] = "finalize"
  /\ \/ /\ state.present
        /\ state' = Row(version[m], FALSE)
        /\ \E result \in {"ok", "error"} : Return(m, result)
     \/ /\ ~state.present
        /\ Return(m, "error")
        /\ UNCHANGED state
  /\ UNCHANGED <<lock, dbVersion, applied, twice, version>>

\* The deferred unlock and database.Close: the session ends either way.
Unlock(m) ==
  /\ pc[m] = "unlock"
  /\ lock' = IF lock = m THEN Free ELSE lock
  /\ Goto(m, "done")
  /\ UNCHANGED <<db, version, outcome>>

Step(m) ==
  /\ \/ TryLock(m) \/ ReadVersion(m) \/ ValidateCurrentState(m) \/ ProbeState(m)
     \/ MarkDirty(m) \/ StartUp(m) \/ NextMigration(m) \/ ApplyMigration(m)
     \/ RereadVersion(m) \/ Finalize(m) \/ Unlock(m)
  /\ UNCHANGED <<attempts, losses>>

-----------------------------------------------------------------------------
\* What can go wrong, and being run again.

\* A statement fails (its transaction rolled back) or ctx is cancelled.
Fail(m) ==
  /\ pc[m] \in Statements
  /\ \/ /\ pc[m] = "lock"
        /\ Goto(m, "done")
        /\ outcome' = [outcome EXCEPT ![m] = "error"]
     \/ /\ pc[m] # "lock"
        /\ Return(m, IF InGoose(m) THEN "migrationFailed" ELSE "error")
  /\ UNCHANGED <<lock, db, version, attempts, losses>>

\* The process dies between two statements; its backend lingers.
Crash(m) ==
  /\ pc[m] # "done"
  /\ lock' = IF lock = m THEN Orphan ELSE lock
  /\ Goto(m, "done")
  /\ outcome' = [outcome EXCEPT ![m] = "crashed"]
  /\ UNCHANGED <<db, version, attempts, losses>>

\* Postgres notices the dead client and ends the session.
ReapSession ==
  /\ lock = Orphan
  /\ lock' = Free
  /\ UNCHANGED <<db, pc, version, outcome, attempts, losses>>

\* A live migrator's session is cut between two statements.  database/sql
\* opens a new session for the next statement, without the lock (or that
\* statement fails, which is Fail).
LoseSession ==
  /\ losses < MaxLosses
  /\ lock \in Migrators
  /\ lock' = Free
  /\ losses' = losses + 1
  /\ UNCHANGED <<db, pc, version, outcome, attempts>>

Rerun(m) ==
  /\ pc[m] = "done"
  /\ attempts[m] < MaxAttempts
  /\ attempts' = [attempts EXCEPT ![m] = @ + 1]
  /\ Goto(m, "lock")
  /\ outcome' = [outcome EXCEPT ![m] = "none"]
  /\ UNCHANGED <<lock, db, version, losses>>

Next ==
  \/ \E m \in Migrators : Step(m) \/ Fail(m) \/ Crash(m) \/ Rerun(m)
  \/ ReapSession
  \/ LoseSession

\* A process keeps running its next statement; Postgres reaps dead clients.
Fairness == WF_vars(ReapSession) /\ \A m \in Migrators : WF_vars(Step(m))

Spec     == Init /\ [][Next]_vars
FairSpec == Spec /\ Fairness

-----------------------------------------------------------------------------
\* What the migrator promises.

TypeOK ==
  /\ lock \in Migrators \cup {Free, Orphan}
  /\ dbVersion \in Nat
  /\ applied \in SUBSET (Nat \ {0}) /\ twice \in SUBSET applied
  /\ state \in [present : BOOLEAN, version : Nat, dirty : BOOLEAN]
  /\ ~state.present => state = Absent
  /\ pc \in [Migrators -> PCs]
  /\ version \in [Migrators -> Nat]
  /\ outcome \in [Migrators -> Outcomes]
  /\ attempts \in [Migrators -> 1..MaxAttempts]
  /\ losses \in 0..MaxLosses

\* The row tells readers that the schema is complete at a version.  A row
\* just created by the first migration says version 0, below every window.
Clean == state.present /\ ~state.dirty /\ state.version # 0

\* While its session lives, only one migrator is past pg_try_advisory_lock,
\* and a backend orphaned by a crash keeps everyone else out.
MutualExclusion ==
  \A m \in Migrators : InRun(m) =>
    /\ lock # Orphan
    /\ \A n \in Migrators \ {m} : ~InRun(n)

\* A reader that sees a clean row sees the schema it names: the row agrees
\* with goose's last version, no higher migration has committed, and nobody
\* is about to change the schema.  This is what the dirty mark is for.
CleanMeansSettled ==
  Clean => /\ state.version = dbVersion
           /\ \A v \in applied : v <= state.version
           /\ \A m \in Migrators : ~Mutating(m)

\* No migration is ever committed twice, whatever is retried or crashes.
AppliedOnce == twice = {}

\* A run that reports success leaves a clean row in the window of its binary,
\* at or above every migration of its catalogue, until it gives up the lock.
SuccessIsSupported ==
  \A m \in Migrators : pc[m] = "unlock" /\ outcome[m] = "ok" =>
    /\ Clean /\ Supported(m, state.version)
    /\ \A v \in Catalogue[m] : v <= state.version

\* goose's version never goes back, so a retry never reapplies a migration.
VersionNeverGoesBack == [][dbVersion' >= dbVersion]_vars

\* A dirty or unfinished row becomes clean only when a migrator finalizes a
\* version its own binary supports, with none of its migrations pending.
CleanOnlyWhenComplete ==
  [][~Clean /\ Clean' => \E m \in Migrators :
       /\ pc[m] = "finalize"
       /\ Supported(m, dbVersion) /\ Pending(m, dbVersion) = {}]_vars

\* The migrator implements the gate its readers rely on: see SchemaGate.
Gate == INSTANCE SchemaGate WITH
          schema     <- applied,
          advertised <- IF Clean THEN state.version ELSE 0
ImplementsGate == Gate!Spec

\* A run that stopped between the last migration and the finalizing UPDATE
\* leaves a row no later run repairs: with nothing pending each one only
\* validates it and fails.  The row stays as it is and nobody reports success,
\* however often the migrators are run, until somebody edits it.
Stuck ==
  /\ state # Row(dbVersion, FALSE)
  /\ \A m \in Migrators : /\ Pending(m, dbVersion) = {}
                          /\ pc[m] \notin {"probe", "mark"} /\ ~Mutating(m)
StuckFailsClosed ==
  [][Stuck => /\ Stuck'
              /\ \A m \in Migrators : outcome'[m] = "ok" => outcome[m] = "ok"]_vars

\* Every run ends: pg_try_advisory_lock never waits for the other migrator.
RunTerminates == \A m \in Migrators : pc[m] = "lock" ~> pc[m] = "done"

\* The lock never stays held, so a crash does not block migrating for good.
LockReleased == (lock # Free) ~> (lock = Free)

\* The versions of all catalogues are committed in order, without a gap below
\* the highest, even when two migrators run at once.  (Of catalogues that
\* are prefixes of each other.)
AppliedInOrder ==
  \A v \in applied, w \in UNION {Catalogue[m] : m \in Migrators} :
    w < v => w \in applied

\* "migration failed; schema remains dirty": what a failed goose.UpContext
\* claims about the row.
FailedMigrationLeavesDirty ==
  \A m \in Migrators : pc[m] = "unlock" /\ outcome[m] = "migrationFailed" =>
    state.present /\ state.dirty

\* A run that reports success has applied every migration of its catalogue.
SuccessAppliesCatalogue ==
  \A m \in Migrators : pc[m] = "unlock" /\ outcome[m] = "ok" => Catalogue[m] \subseteq applied

=============================================================================
