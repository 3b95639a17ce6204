--------------------------- MODULE MigrationProofs ---------------------------
(***************************************************************************)
(* Proofs about Migration, for any set of migrators, catalogues and        *)
(* windows.  IInv is inductive when no live session is cut (MaxLosses = 0, *)
(* an assumption of every theorem that needs the lock): the migrator in    *)
(* its run owns the lock, so what it read is still what the database has.  *)
(***************************************************************************)
EXTENDS Migration, TLAPS

\* A migrator about to mark the row has seen it, and rows are never dropped.
MarkInv == \A m \in Migrators : pc[m] = "mark" => state.present
TypeInv == TypeOK /\ MarkInv

LockInv == \A m \in Migrators : InRun(m) => lock = m

SchemaInv ==
  /\ twice = {}
  /\ dbVersion \in applied \cup {0}
  /\ \A v \in applied : v <= dbVersion
  /\ Clean => state.version = dbVersion
  /\ \A m \in Migrators : Mutating(m) => ~Clean

\* What the lock holder knows between two of its statements.
Knows(m) ==
  /\ pc[m] \in {"validate", "apply", "reread", "finalize"} => version[m] = dbVersion
  /\ pc[m] \in {"validate", "reread", "finalize"} => Pending(m, dbVersion) = {}
  /\ pc[m] = "finalize" => Supported(m, dbVersion)
  /\ pc[m] = "unlock" /\ outcome[m] = "ok" =>
       Clean /\ Supported(m, state.version) /\ Pending(m, state.version) = {}
RunInv == \A m \in Migrators : Knows(m)

IInv == TypeInv /\ LockInv /\ SchemaInv /\ RunInv

-----------------------------------------------------------------------------
LEMMA TypeInit == Init => TypeInv
  BY BoundAssumption DEF Init, TypeInv, TypeOK, MarkInv, Absent, PCs, Statements, Outcomes

LEMMA TypeStep == TypeInv /\ [Next]_vars => TypeInv'
<1> SUFFICES ASSUME TypeInv, [Next]_vars PROVE TypeInv'
  OBVIOUS
<1> USE DEF TypeInv, TypeOK, MarkInv, db, Goto, Return, PCs, Statements, Outcomes
<1>1. ASSUME NEW m \in Migrators, Step(m) PROVE TypeInv'
  <2>0. UNCHANGED <<attempts, losses>>
    BY <1>1 DEF Step
  <2>1. CASE TryLock(m)
    BY <2>0, <2>1 DEF TryLock
  <2>2. CASE ReadVersion(m)
    BY <2>0, <2>2 DEF ReadVersion
  <2>3. CASE ValidateCurrentState(m)
    BY <2>0, <2>3 DEF ValidateCurrentState
  <2>4. CASE ProbeState(m)
    BY <2>0, <2>4 DEF ProbeState
  <2>5. CASE MarkDirty(m)
    BY <2>0, <2>5 DEF MarkDirty, Absent
  <2>6. CASE StartUp(m)
    <3>1. CASE Missing(m) = {}
      BY <2>0, <2>6, <3>1 DEF StartUp
    <3>2. CASE Missing(m) # {}
      BY <2>0, <2>6, <3>2 DEF StartUp
    <3>3. QED
      BY <3>1, <3>2
  <2>7. CASE NextMigration(m)
    BY <2>0, <2>7 DEF NextMigration
  <2>8. CASE ApplyMigration(m)
    <3>1. PICK v \in Pending(m, version[m]) :
            /\ dbVersion' = v
            /\ applied' = applied \cup {v}
            /\ twice' = IF v \in applied THEN twice \cup {v} ELSE twice
            /\ state' = IF v = StateVersion /\ ~state.present THEN Row(0, FALSE) ELSE state
      BY <2>8 DEF ApplyMigration
    <3>2. v \in Nat \ {0}
      BY <3>1, CatalogueAssumption DEF Pending
    <3>3. QED
      BY <2>0, <2>8, <3>1, <3>2 DEF ApplyMigration, Row, Absent
  <2>9. CASE RereadVersion(m)
    <3>1. CASE Supported(m, dbVersion)
      BY <2>0, <2>9, <3>1 DEF RereadVersion
    <3>2. CASE ~Supported(m, dbVersion)
      BY <2>0, <2>9, <3>2 DEF RereadVersion
    <3>3. QED
      BY <3>1, <3>2
  <2>10. CASE Finalize(m)
    <3>1. PICK result \in {"ok", "error"} :
            /\ pc' = [pc EXCEPT ![m] = "unlock"]
            /\ outcome' = [outcome EXCEPT ![m] = result]
            /\ \/ state.present /\ state' = Row(version[m], FALSE)
               \/ UNCHANGED state
      BY <2>10 DEF Finalize
    <3>2. /\ state' \in [present : BOOLEAN, version : Nat, dirty : BOOLEAN]
          /\ ~state'.present => state' = Absent
          /\ state.present => state'.present
      <4>1. CASE UNCHANGED state
        BY <4>1
      <4>2. CASE state.present /\ state' = Row(version[m], FALSE)
        BY <4>2 DEF Row
      <4>3. QED
        BY <3>1, <4>1, <4>2
    <3>3. QED
      BY <2>0, <2>10, <3>1, <3>2 DEF Finalize
  <2>11. CASE Unlock(m)
    BY <2>0, <2>11 DEF Unlock
  <2>12. QED
    BY <1>1, <2>1, <2>2, <2>3, <2>4, <2>5, <2>6, <2>7, <2>8, <2>9, <2>10, <2>11 DEF Step
<1>2. ASSUME NEW m \in Migrators, Fail(m) PROVE TypeInv'
  BY <1>2 DEF Fail, InGoose
<1>3. ASSUME NEW m \in Migrators, Crash(m) PROVE TypeInv'
  BY <1>3 DEF Crash
<1>4. ASSUME NEW m \in Migrators, Rerun(m) PROVE TypeInv'
  <2>1. attempts' \in [Migrators -> 1..MaxAttempts]
    <3>1. attempts[m] + 1 \in 1..MaxAttempts
      BY <1>4, BoundAssumption DEF Rerun
    <3>2. QED
      BY <1>4, <3>1 DEF Rerun
  <2>2. QED
    BY <1>4, <2>1 DEF Rerun
<1>5. CASE ReapSession
  BY <1>5 DEF ReapSession
<1>6. CASE LoseSession
  <2>1. losses' \in 0..MaxLosses
    BY <1>6, BoundAssumption DEF LoseSession
  <2>2. QED
    BY <1>6, <2>1 DEF LoseSession
<1>7. CASE UNCHANGED vars
  BY <1>7 DEF vars
<1>8. QED
  BY <1>1, <1>2, <1>3, <1>4, <1>5, <1>6, <1>7 DEF Next

\* The variables keep their types in every instance, sessions lost or not: in
\* particular a migrator never writes to a schema-state row that is not there.
THEOREM TypeCorrect == Spec => []TypeOK
<1>1. TypeInv => TypeOK
  BY DEF TypeInv
<1>2. QED
  BY <1>1, TypeInit, TypeStep, PTL DEF Spec

-----------------------------------------------------------------------------
LEMMA InitIInv == Init => IInv
<1> SUFFICES ASSUME Init PROVE IInv
  OBVIOUS
<1>1. TypeInv
  BY TypeInit
<1>2. LockInv /\ SchemaInv /\ RunInv
  BY DEF Init, LockInv, SchemaInv, RunInv, Knows, InRun, Mutating, Clean, Absent, PCs, Statements
<1>3. QED
  BY <1>1, <1>2 DEF IInv

\* Only the migrator in its run owns the lock.
LEMMA LockStep ==
  ASSUME MaxLosses = 0, TypeInv, LockInv, [Next]_vars
  PROVE  LockInv'
<1> USE DEF LockInv, InRun, PCs, Statements, TypeInv, TypeOK, Goto, Return
<1>1. ASSUME NEW m \in Migrators, Step(m) PROVE LockInv'
  <2>1. CASE TryLock(m)
    <3>1. CASE lock = Free
      <4>1. \A n \in Migrators : pc[n] \in {"lock", "done"}
        BY <3>1, LockAssumption
      <4>2. lock' = m /\ \A n \in Migrators \ {m} : pc'[n] = pc[n]
        BY <2>1, <3>1 DEF TryLock
      <4>3. SUFFICES ASSUME NEW n \in Migrators, n # m PROVE pc'[n] \in {"lock", "done"}
        BY <4>2
      <4>4. QED
        BY <4>1, <4>2, <4>3
    <3>2. CASE lock # Free
      BY <2>1, <3>2 DEF TryLock
    <3>3. QED
      BY <3>1, <3>2
  <2>2. CASE Unlock(m)
    BY <2>2, LockAssumption DEF Unlock
  <2>3. CASE ReadVersion(m) \/ ValidateCurrentState(m) \/ ProbeState(m) \/ MarkDirty(m)
    <3>1. pc[m] \notin {"lock", "done"} /\ UNCHANGED lock
      BY <2>3 DEF ReadVersion, ValidateCurrentState, ProbeState, MarkDirty
    <3>2. \A n \in Migrators \ {m} : pc'[n] = pc[n]
      BY <2>3 DEF ReadVersion, ValidateCurrentState, ProbeState, MarkDirty
    <3>3. QED
      BY <3>1, <3>2
  <2>4. CASE StartUp(m) \/ NextMigration(m) \/ ApplyMigration(m) \/ RereadVersion(m)
             \/ Finalize(m)
    <3>1. pc[m] \notin {"lock", "done"} /\ UNCHANGED lock
      BY <2>4 DEF StartUp, NextMigration, ApplyMigration, RereadVersion, Finalize
    <3>2. \A n \in Migrators \ {m} : pc'[n] = pc[n]
      BY <2>4 DEF StartUp, NextMigration, ApplyMigration, RereadVersion, Finalize
    <3>3. QED
      BY <3>1, <3>2
  <2>5. QED
    BY <1>1, <2>1, <2>2, <2>3, <2>4 DEF Step
<1>2. ASSUME NEW m \in Migrators, Fail(m) PROVE LockInv'
  BY <1>2 DEF Fail
<1>3. ASSUME NEW m \in Migrators, Crash(m) PROVE LockInv'
  BY <1>3, LockAssumption DEF Crash
<1>4. ASSUME NEW m \in Migrators, Rerun(m) PROVE LockInv'
  BY <1>4 DEF Rerun
<1>5. CASE ReapSession
  BY <1>5, LockAssumption DEF ReapSession
<1>6. CASE LoseSession
  BY <1>6 DEF LoseSession
<1>7. CASE UNCHANGED vars
  BY <1>7 DEF vars
<1>8. QED
  BY <1>1, <1>2, <1>3, <1>4, <1>5, <1>6, <1>7 DEF Next

\* With the lock held, nobody else changes the schema or the row, so each
\* statement acts on what the migrator has read.
LEMMA OthersWait ==
  ASSUME LockInv, NEW m \in Migrators, InRun(m), NEW n \in Migrators \ {m}
  PROVE  ~InRun(n) /\ ~Mutating(n)
  BY DEF LockInv, InRun, Mutating, PCs, Statements

\* A step that writes nothing and starts no change keeps the schema consistent.
LEMMA SchemaKept ==
  ASSUME SchemaInv, UNCHANGED db, \A n \in Migrators : Mutating(n)' => Mutating(n)
  PROVE  SchemaInv'
  BY DEF SchemaInv, Clean, db

LEMMA SchemaStep ==
  ASSUME IInv, [Next]_vars
  PROVE  SchemaInv'
<1> USE DEF IInv, SchemaInv, Clean
<1>t. TypeOK
  BY DEF TypeInv
<1>1. ASSUME NEW m \in Migrators, Step(m) PROVE SchemaInv'
  <2>1. CASE MarkDirty(m)
    BY <1>t, <2>1 DEF MarkDirty, Mutating, Goto, TypeOK
  <2>2. CASE ApplyMigration(m)
    <3>1. PICK v \in Pending(m, version[m]) :
            /\ dbVersion' = v
            /\ applied' = applied \cup {v}
            /\ twice' = IF v \in applied THEN twice \cup {v} ELSE twice
            /\ state' = IF v = StateVersion /\ ~state.present THEN Row(0, FALSE) ELSE state
      BY <2>2 DEF ApplyMigration
    <3>2. v \in Nat /\ v > dbVersion
      BY <1>t, <2>2, <3>1, CatalogueAssumption DEF ApplyMigration, RunInv, Knows, Pending, TypeOK
    <3>3. v \notin applied
      BY <1>t, <3>2 DEF TypeOK
    <3>4. ~Clean'
      BY <2>2, <3>1 DEF ApplyMigration, Mutating, Row
    <3>5. \A w \in applied' : w <= dbVersion'
      BY <1>t, <3>1, <3>2 DEF TypeOK
    <3>6. QED
      BY <3>1, <3>3, <3>4, <3>5
  <2>3. CASE Finalize(m)
    <3>1. \A n \in Migrators : ~Mutating(n)'
      BY <1>t, <2>3, OthersWait DEF Finalize, Return, Goto, Mutating, InRun, TypeOK, PCs, Statements
    <3>2. Clean' => state'.version = dbVersion'
      BY <2>3 DEF Finalize, RunInv, Knows, Row
    <3>3. QED
      BY <2>3, <3>1, <3>2 DEF Finalize
  <2>4. CASE ProbeState(m)
    BY <1>t, <2>4 DEF ProbeState, Mutating, Goto, TypeOK, db
  <2>5. CASE TryLock(m) \/ ReadVersion(m) \/ ValidateCurrentState(m) \/ Unlock(m)
    <3>1. UNCHANGED db
      BY <2>5 DEF TryLock, ReadVersion, ValidateCurrentState, Unlock
    <3>2. \E label \in {"version", "done", "validate", "probe", "unlock"} : Goto(m, label)
      BY <2>5 DEF TryLock, ReadVersion, ValidateCurrentState, Unlock, Return
    <3>3. \A n \in Migrators : Mutating(n)' => Mutating(n)
      BY <1>t, <3>2 DEF Goto, Mutating, TypeOK
    <3>4. QED
      BY <3>1, <3>3, SchemaKept
  <2>6. CASE StartUp(m) \/ NextMigration(m) \/ RereadVersion(m)
    <3>1. UNCHANGED db
      BY <2>6 DEF StartUp, NextMigration, RereadVersion
    <3>2. Mutating(m) /\ \E label \in PCs : Goto(m, label)
      BY <2>6 DEF StartUp, NextMigration, RereadVersion, Return, Mutating, PCs, Statements
    <3>3. \A n \in Migrators : Mutating(n)' => Mutating(n)
      BY <1>t, <3>2 DEF Goto, Mutating, TypeOK
    <3>4. QED
      BY <3>1, <3>3, SchemaKept
  <2>7. QED
    BY <1>1, <2>1, <2>2, <2>3, <2>4, <2>5, <2>6 DEF Step
<1>2. ASSUME NEW m \in Migrators, Fail(m) \/ Crash(m) \/ Rerun(m) PROVE SchemaInv'
  <2>1. UNCHANGED db /\ \A n \in Migrators : Mutating(n)' => Mutating(n)
    BY <1>t, <1>2 DEF Fail, Crash, Rerun, Mutating, Goto, Return, TypeOK
  <2>2. QED
    BY <2>1, SchemaKept
<1>3. CASE ReapSession \/ LoseSession
  BY <1>3 DEF ReapSession, LoseSession, Mutating, db
<1>4. CASE UNCHANGED vars
  BY <1>4 DEF vars, Mutating
<1>5. QED
  BY <1>1, <1>2, <1>3, <1>4 DEF Next

LEMMA RunStep ==
  ASSUME IInv, [Next]_vars
  PROVE  RunInv'
<1> USE DEF IInv
<1>t. TypeOK
  BY DEF TypeInv
<1>1. ASSUME NEW m \in Migrators, Step(m), NEW n \in Migrators \ {m} PROVE Knows(n)'
  <2>1. UNCHANGED <<pc[n], version[n], outcome[n]>>
    BY <1>t, <1>1
    DEF Step, TryLock, ReadVersion, ValidateCurrentState, ProbeState, MarkDirty, StartUp,
        NextMigration, ApplyMigration, RereadVersion, Finalize, Unlock, Goto, Return, TypeOK
  <2>2. CASE InRun(n)
    <3>1. TryLock(m)
      BY <1>1, <2>2, OthersWait
      DEF Step, ReadVersion, ValidateCurrentState, ProbeState, MarkDirty, StartUp,
          NextMigration, ApplyMigration, RereadVersion, Finalize, Unlock, InRun, PCs, Statements
    <3>2. QED
      BY <2>1, <3>1 DEF TryLock, RunInv, Knows, Clean, db
  <2>3. CASE ~InRun(n)
    BY <2>1, <2>3 DEF InRun, Knows, PCs, Statements
  <2>4. QED
    BY <2>2, <2>3
<1>2. ASSUME NEW m \in Migrators, Step(m) PROVE Knows(m)'
  <2> USE DEF Goto, Return, TypeOK, Knows, Pending, Supported
  <2>1. CASE ReadVersion(m)
    BY <1>t, <2>1 DEF ReadVersion, db
  <2>2. CASE ValidateCurrentState(m)
    <3>1. /\ Pending(m, dbVersion) = {} /\ version[m] = dbVersion
          /\ pc'[m] = "unlock" /\ UNCHANGED db
      BY <1>t, <2>2 DEF ValidateCurrentState, RunInv
    <3>2. CASE state.present /\ state.version = version[m] /\ ~state.dirty
                 /\ Supported(m, state.version)
      <4>1. Clean'
        BY <1>t, <3>1, <3>2, WindowAssumption DEF Clean, db
      <4>2. QED
        BY <3>1, <3>2, <4>1 DEF db
    <3>3. CASE ~(state.present /\ state.version = version[m] /\ ~state.dirty
                  /\ Supported(m, state.version))
      <4>1. outcome'[m] = "error"
        BY <1>t, <2>2, <3>3 DEF ValidateCurrentState
      <4>2. QED
        BY <3>1, <4>1
    <3>4. QED
      BY <3>2, <3>3
  <2>3. CASE NextMigration(m)
    BY <1>t, <2>3 DEF NextMigration, db
  <2>4. CASE RereadVersion(m)
    BY <1>t, <2>4 DEF RereadVersion, RunInv, db
  <2>5. CASE Finalize(m)
    BY <1>t, <2>5, WindowAssumption DEF Finalize, RunInv, Row, Clean
  <2>6. CASE TryLock(m) \/ ProbeState(m) \/ MarkDirty(m) \/ StartUp(m)
             \/ ApplyMigration(m) \/ Unlock(m)
    BY <1>t, <2>6
    DEF TryLock, ProbeState, MarkDirty, StartUp, ApplyMigration, Unlock
  <2>7. QED
    BY <1>2, <2>1, <2>2, <2>3, <2>4, <2>5, <2>6 DEF Step
<1>3. ASSUME NEW m \in Migrators, Fail(m) \/ Crash(m) \/ Rerun(m) PROVE RunInv'
  BY <1>t, <1>3 DEF Fail, Crash, Rerun, RunInv, Knows, Clean, Goto, Return, TypeOK, db
<1>4. CASE ReapSession \/ LoseSession
  BY <1>4 DEF ReapSession, LoseSession, RunInv, Knows, Clean, db
<1>5. CASE UNCHANGED vars
  BY <1>5 DEF vars, RunInv, Knows, Clean
<1>6. QED
  <2>1. ASSUME NEW m \in Migrators, Step(m) PROVE RunInv'
    BY <1>1, <1>2, <2>1 DEF RunInv
  <2>2. QED
    BY <1>3, <1>4, <1>5, <2>1 DEF Next

-----------------------------------------------------------------------------
\* What one step of a migrator may do, for the modules that start migrators.

\* It moves itself only.
LEMMA OtherMigrators ==
  ASSUME TypeInv, NEW m \in Migrators, Step(m) \/ Fail(m) \/ Crash(m) \/ Rerun(m),
         NEW n \in Migrators \ {m}
  PROVE  pc'[n] = pc[n] /\ outcome'[n] = outcome[n]
<1> USE DEF TypeInv, TypeOK, Goto, Return
<1>1. CASE TryLock(m) \/ ReadVersion(m) \/ ValidateCurrentState(m) \/ ProbeState(m)
           \/ MarkDirty(m) \/ StartUp(m)
  BY <1>1 DEF TryLock, ReadVersion, ValidateCurrentState, ProbeState, MarkDirty, StartUp
<1>2. CASE NextMigration(m) \/ ApplyMigration(m) \/ RereadVersion(m) \/ Finalize(m)
           \/ Unlock(m)
  BY <1>2 DEF NextMigration, ApplyMigration, RereadVersion, Finalize, Unlock
<1>3. CASE Fail(m) \/ Crash(m) \/ Rerun(m)
  BY <1>3 DEF Fail, Crash, Rerun
<1>4. QED
  BY <1>1, <1>2, <1>3 DEF Step

\* Over a clean row with nothing pending for it, a migrator looks and leaves.
AtRest(m) == pc[m] \in {"lock", "version", "validate", "unlock", "done"}
LEMMA NothingToDo ==
  ASSUME IInv, NEW m \in Migrators, Step(m) \/ Fail(m) \/ Crash(m),
         Clean, Pending(m, state.version) = {}, AtRest(m)
  PROVE  UNCHANGED db /\ AtRest(m)'
<1> USE DEF AtRest, IInv, TypeInv, TypeOK, Goto, Return
<1>1. CASE ReadVersion(m)
  BY <1>1 DEF ReadVersion, SchemaInv
<1>2. CASE TryLock(m) \/ ValidateCurrentState(m) \/ Unlock(m)
  BY <1>2 DEF TryLock, ValidateCurrentState, Unlock
<1>3. CASE Fail(m) \/ Crash(m)
  BY <1>3 DEF Fail, Crash
<1>4. Step(m) => TryLock(m) \/ ReadVersion(m) \/ ValidateCurrentState(m) \/ Unlock(m)
  BY DEF Step, ProbeState, MarkDirty, StartUp, NextMigration, ApplyMigration,
         RereadVersion, Finalize
<1>5. QED
  BY <1>1, <1>2, <1>3, <1>4

\* Success is reported from within the run.
LEMMA SuccessInRun ==
  ASSUME TypeInv, NEW m \in Migrators, Step(m) \/ Fail(m) \/ Crash(m),
         outcome[m] # "ok", outcome'[m] = "ok"
  PROVE  InRun(m) /\ pc'[m] = "unlock"
<1> USE DEF TypeInv, TypeOK, Goto, Return, InRun, PCs, Statements
<1>1. CASE ValidateCurrentState(m)
  BY <1>1 DEF ValidateCurrentState
<1>2. CASE Finalize(m)
  BY <1>2 DEF Finalize
<1>3. ~(Fail(m) \/ Crash(m))
  BY DEF Fail, Crash
<1>4. ASSUME Step(m), ~ValidateCurrentState(m), ~Finalize(m) PROVE FALSE
  BY <1>4 DEF Step, TryLock, ReadVersion, ProbeState, MarkDirty, StartUp, NextMigration,
              ApplyMigration, RereadVersion, Unlock
<1>5. QED
  BY <1>1, <1>2, <1>3, <1>4

-----------------------------------------------------------------------------
LEMMA IInvStep ==
  ASSUME MaxLosses = 0
  PROVE  IInv /\ [Next]_vars => IInv'
<1> SUFFICES ASSUME IInv, [Next]_vars PROVE IInv'
  OBVIOUS
<1>1. TypeInv'
  BY TypeStep DEF IInv
<1>2. LockInv'
  BY LockStep DEF IInv
<1>3. QED
  BY <1>1, <1>2, SchemaStep, RunStep DEF IInv

LEMMA Invariance ==
  ASSUME MaxLosses = 0
  PROVE  Spec => []IInv
<1>1. IInv /\ [Next]_vars => IInv'
  BY IInvStep
<1>2. QED
  BY <1>1, InitIInv, PTL DEF Spec

\* As long as no session is cut under a live migrator, no two migrators are
\* between the lock and the unlock, however many there are, whichever crash.
THEOREM MigratorsExclude ==
  ASSUME MaxLosses = 0
  PROVE  Spec => []MutualExclusion
<1>1. IInv => MutualExclusion
  BY LockAssumption, OthersWait DEF IInv, LockInv, MutualExclusion
<1>2. QED
  BY <1>1, Invariance, PTL

\* A clean row never lies about the schema: for any catalogues and windows,
\* ordered or not, after any failures, crashes and retries.
THEOREM CleanRowIsSettled ==
  ASSUME MaxLosses = 0
  PROVE  Spec => []CleanMeansSettled
<1>1. IInv => CleanMeansSettled
  BY DEF IInv, SchemaInv, CleanMeansSettled
<1>2. QED
  BY <1>1, Invariance, PTL

\* Each migration commits at most once.
THEOREM MigrationsApplyOnce ==
  ASSUME MaxLosses = 0
  PROVE  Spec => []AppliedOnce
<1>1. IInv => AppliedOnce
  BY DEF IInv, SchemaInv, AppliedOnce
<1>2. QED
  BY <1>1, Invariance, PTL

\* A run that reports success leaves a schema its binary supports.
THEOREM SuccessfulRunIsSupported ==
  ASSUME MaxLosses = 0
  PROVE  Spec => []SuccessIsSupported
<1>1. IInv => SuccessIsSupported
  <2> SUFFICES ASSUME IInv, NEW m \in Migrators, pc[m] = "unlock", outcome[m] = "ok"
               PROVE  /\ Clean /\ Supported(m, state.version)
                      /\ \A v \in Catalogue[m] : v <= state.version
    BY DEF SuccessIsSupported
  <2>1. Clean /\ Supported(m, state.version) /\ Pending(m, state.version) = {}
    BY DEF IInv, RunInv, Knows
  <2>2. \A v \in Catalogue[m] : v \in Nat /\ state.version \in Nat
    BY CatalogueAssumption DEF IInv, TypeInv, TypeOK
  <2>3. QED
    BY <2>1, <2>2 DEF Pending
<1>2. QED
  BY <1>1, Invariance, PTL

\* goose's version only grows, so no retry reapplies what is there.
THEOREM VersionGrows ==
  ASSUME MaxLosses = 0
  PROVE  Spec => VersionNeverGoesBack
<1>1. IInv /\ [Next]_vars => [dbVersion' >= dbVersion]_vars
  <2> SUFFICES ASSUME IInv, Next PROVE dbVersion' >= dbVersion
    BY DEF vars
  <2>t. TypeOK
    BY DEF IInv, TypeInv
  <2>1. ASSUME NEW m \in Migrators, ApplyMigration(m) PROVE dbVersion' >= dbVersion
    BY <2>t, <2>1, CatalogueAssumption
    DEF ApplyMigration, IInv, RunInv, Knows, Pending, TypeOK
  <2>2. ASSUME NEW m \in Migrators, Step(m), ~ApplyMigration(m) PROVE dbVersion' = dbVersion
    BY <2>2 DEF Step, TryLock, ReadVersion, ValidateCurrentState, ProbeState, MarkDirty,
                StartUp, NextMigration, RereadVersion, Finalize, Unlock, db
  <2>3. ASSUME ~\E m \in Migrators : Step(m) PROVE dbVersion' = dbVersion
    BY <2>3 DEF Next, Fail, Crash, Rerun, ReapSession, LoseSession, db
  <2>4. QED
    BY <2>t, <2>1, <2>2, <2>3 DEF TypeOK
<1>2. QED
  BY <1>1, Invariance, PTL DEF Spec, VersionNeverGoesBack

\* A row becomes clean only by a migrator finalizing a version it supports,
\* with nothing of its catalogue pending.
THEOREM CleanedOnlyWhenComplete ==
  ASSUME MaxLosses = 0
  PROVE  Spec => CleanOnlyWhenComplete
<1>1. IInv /\ [Next]_vars =>
        [~Clean /\ Clean' => \E m \in Migrators :
           /\ pc[m] = "finalize"
           /\ Supported(m, dbVersion) /\ Pending(m, dbVersion) = {}]_vars
  <2> DEFINE Complete == \E m \in Migrators :
               /\ pc[m] = "finalize"
               /\ Supported(m, dbVersion) /\ Pending(m, dbVersion) = {}
  <2> SUFFICES ASSUME IInv, Next, ~Clean, Clean' PROVE Complete
    BY DEF vars
  <2>1. ASSUME NEW m \in Migrators, Finalize(m) PROVE Complete
    BY <2>1 DEF Finalize, IInv, RunInv, Knows
  <2>2. ASSUME NEW m \in Migrators, MarkDirty(m) \/ ApplyMigration(m) PROVE ~Clean'
    <3>t. TypeOK
      BY DEF IInv, TypeInv
    <3>1. CASE MarkDirty(m)
      BY <3>t, <3>1 DEF MarkDirty, Clean, TypeOK
    <3>2. CASE ApplyMigration(m)
      BY <3>2 DEF ApplyMigration, Clean, Row
    <3>3. QED
      BY <2>2, <3>1, <3>2
  <2>3. ASSUME NEW m \in Migrators, Step(m), ~Finalize(m), ~MarkDirty(m), ~ApplyMigration(m)
        PROVE  UNCHANGED state
    BY <2>3 DEF Step, TryLock, ReadVersion, ValidateCurrentState, ProbeState, StartUp,
                NextMigration, RereadVersion, Unlock, db
  <2>4. ASSUME ~\E m \in Migrators : Step(m) PROVE UNCHANGED state
    BY <2>4 DEF Next, Fail, Crash, Rerun, ReapSession, LoseSession, db
  <2>5. QED
    BY <2>1, <2>2, <2>3, <2>4 DEF Clean
<1>2. QED
  BY <1>1, Invariance, PTL DEF Spec, CleanOnlyWhenComplete

\* A dirty row that no migration is pending for stays as it is, and every run
\* over it fails: there is no false success, and no repair either.
THEOREM StuckRowFailsClosed ==
  ASSUME MaxLosses = 0
  PROVE  Spec => StuckFailsClosed
<1>1. IInv /\ [Next]_vars =>
        [Stuck => /\ Stuck'
                  /\ \A m \in Migrators : outcome'[m] = "ok" => outcome[m] = "ok"]_vars
  <2> DEFINE Closed == /\ Stuck'
                       /\ \A m \in Migrators : outcome'[m] = "ok" => outcome[m] = "ok"
  <2> SUFFICES ASSUME IInv, Next, Stuck PROVE Closed
    BY DEF vars
  <2> USE DEF Stuck, Mutating, Goto, Return, db
  <2>t. TypeOK
    BY DEF IInv, TypeInv
  <2>1. ASSUME NEW m \in Migrators, Step(m) PROVE Closed
    <3>1. TryLock(m) \/ ReadVersion(m) \/ ValidateCurrentState(m) \/ Unlock(m)
      BY <2>1 DEF Step, ProbeState, MarkDirty, StartUp, NextMigration, ApplyMigration,
                  RereadVersion, Finalize
    <3>2. CASE TryLock(m)
      BY <2>t, <3>2 DEF TryLock, TypeOK
    <3>3. CASE ReadVersion(m)
      BY <2>t, <3>3 DEF ReadVersion, TypeOK
    <3>4. CASE ValidateCurrentState(m)
      <4>1. version[m] = dbVersion
        BY <3>4 DEF ValidateCurrentState, IInv, RunInv, Knows
      <4>2. state # Row(version[m], FALSE)
        BY <4>1
      <4>3. ~(state.present /\ state.version = version[m] /\ ~state.dirty)
        BY <2>t, <4>2 DEF TypeOK, Row
      <4>4. outcome' = [outcome EXCEPT ![m] = "error"] /\ pc' = [pc EXCEPT ![m] = "unlock"]
            /\ UNCHANGED db
        BY <3>4, <4>3 DEF ValidateCurrentState
      <4>5. QED
        BY <2>t, <4>4 DEF TypeOK
    <3>5. CASE Unlock(m)
      BY <2>t, <3>5 DEF Unlock, TypeOK
    <3>6. QED
      BY <3>1, <3>2, <3>3, <3>4, <3>5
  <2>2. ASSUME NEW m \in Migrators, Fail(m) PROVE Closed
    <3>1. \E l \in {"done", "unlock"}, o \in {"error", "migrationFailed"} :
            /\ pc' = [pc EXCEPT ![m] = l] /\ outcome' = [outcome EXCEPT ![m] = o]
            /\ UNCHANGED db
      BY <2>2 DEF Fail
    <3>2. QED
      BY <2>t, <3>1 DEF TypeOK
  <2>3. ASSUME NEW m \in Migrators, Crash(m) PROVE Closed
    BY <2>t, <2>3 DEF Crash, TypeOK
  <2>4. ASSUME NEW m \in Migrators, Rerun(m) PROVE Closed
    BY <2>t, <2>4 DEF Rerun, TypeOK
  <2>5. CASE ReapSession \/ LoseSession
    BY <2>5 DEF ReapSession, LoseSession
  <2>6. QED
    BY <2>1, <2>2, <2>3, <2>4, <2>5 DEF Next
<1>2. QED
  BY <1>1, Invariance, PTL DEF Spec, StuckFailsClosed

\* The migrator implements the gate: readers that go by the clean row see a
\* schema that is complete at the version they read and does not change.
THEOREM MigratorImplementsGate ==
  ASSUME MaxLosses = 0
  PROVE  Spec => ImplementsGate
<1> USE DEF Gate!Highest
<1>1. Init => Gate!Init
  BY DEF Init, Gate!Init, Clean, Absent
<1>2. IInv /\ [Next]_vars => [Gate!Next]_(Gate!vars)
  <2> SUFFICES ASSUME IInv, [Next]_vars PROVE [Gate!Next]_(Gate!vars)
    OBVIOUS
  <2>t. TypeOK
    BY DEF IInv, TypeInv
  <2>1. ASSUME NEW m \in Migrators, MarkDirty(m) PROVE [Gate!Next]_(Gate!vars)
    <3>1. ~Clean' /\ UNCHANGED applied
      BY <2>t, <2>1 DEF MarkDirty, Clean, TypeOK
    <3>2. QED
      BY <3>1 DEF Gate!Next, Gate!Close, Gate!vars
  <2>2. ASSUME NEW m \in Migrators, ApplyMigration(m) PROVE [Gate!Next]_(Gate!vars)
    <3>1. PICK v \in Pending(m, version[m]) : applied' = applied \cup {v} /\ dbVersion' = v
      BY <2>2 DEF ApplyMigration
    <3>2. ~Clean /\ ~Clean'
      BY <2>2 DEF ApplyMigration, IInv, SchemaInv, Mutating, Clean, Row
    <3>3. v \in Nat /\ v > dbVersion
      BY <2>t, <2>2, <3>1, CatalogueAssumption
      DEF ApplyMigration, IInv, RunInv, Knows, Pending, TypeOK
    <3>4. \A w \in applied : w < v
      BY <2>t, <3>3 DEF IInv, SchemaInv, TypeOK
    <3>5. QED
      BY <3>1, <3>2, <3>4 DEF Gate!Next, Gate!Extend
  <2>3. ASSUME NEW m \in Migrators, Finalize(m) PROVE [Gate!Next]_(Gate!vars)
    <3>1. CASE ~state.present
      BY <2>3, <3>1 DEF Finalize, Gate!vars, Clean
    <3>2. CASE state.present
      <4>1. /\ ~Clean /\ UNCHANGED applied
            /\ state' = Row(dbVersion, FALSE) /\ Supported(m, dbVersion)
        BY <2>3, <3>2 DEF Finalize, IInv, SchemaInv, Mutating, RunInv, Knows
      <4>2. dbVersion \in applied
        BY <2>t, <4>1, WindowAssumption DEF IInv, SchemaInv, Supported, TypeOK
      <4>3. Clean' /\ state'.version = dbVersion
        BY <2>t, <4>1, <4>2 DEF Clean, Row, TypeOK
      <4>4. QED
        BY <4>1, <4>2, <4>3 DEF IInv, SchemaInv, Gate!Next, Gate!Advertise
    <3>3. QED
      BY <3>1, <3>2
  <2>4. CASE UNCHANGED <<applied, state>>
    BY <2>4 DEF Gate!vars, Clean
  <2>5. ASSUME NEW m \in Migrators, Step(m), ~MarkDirty(m), ~ApplyMigration(m), ~Finalize(m)
        PROVE  UNCHANGED <<applied, state>>
    BY <2>5 DEF Step, TryLock, ReadVersion, ValidateCurrentState, ProbeState, StartUp,
                NextMigration, RereadVersion, Unlock, db
  <2>6. ASSUME ~\E m \in Migrators : Step(m) PROVE UNCHANGED <<applied, state>>
    BY <2>6 DEF Next, Fail, Crash, Rerun, ReapSession, LoseSession, db, vars
  <2>7. QED
    BY <2>1, <2>2, <2>3, <2>4, <2>5, <2>6
<1>3. QED
  BY <1>1, <1>2, Invariance, PTL DEF Spec, ImplementsGate, Gate!Spec

-----------------------------------------------------------------------------
\* Order does not depend on the lock: every version a migrator acts on is one
\* that was committed, whoever committed it.
OrderInv ==
  /\ AppliedInOrder
  /\ dbVersion \in applied \cup {0}
  /\ \A m \in Migrators : version[m] \in applied \cup {0}

CataloguesExtend ==
  \A m, n \in Migrators : \A v \in Catalogue[m], w \in Catalogue[n] :
    w < v => w \in Catalogue[m]

LEMMA OrderStep ==
  ASSUME CataloguesExtend, TypeInv, OrderInv, [Next]_vars
  PROVE  OrderInv'
<1>t. TypeOK
  BY DEF TypeInv
<1>1. ASSUME NEW m \in Migrators, ApplyMigration(m) PROVE OrderInv'
  <2>1. PICK v \in Pending(m, version[m]) :
          /\ \A w \in Pending(m, version[m]) : v <= w
          /\ dbVersion' = v
          /\ applied' = applied \cup {v}
    BY <1>1 DEF ApplyMigration
  <2>2. v \in Catalogue[m] /\ v \in Nat /\ v > version[m]
    BY <2>1, CatalogueAssumption DEF Pending
  <2>3. ASSUME NEW n \in Migrators, NEW w \in Catalogue[n], w < v PROVE w \in applied
    <3>1. w \in Catalogue[m] /\ w \in Nat \ {0} /\ version[m] \in Nat
      BY <1>t, <2>2, <2>3, CatalogueAssumption DEF CataloguesExtend, TypeOK
    <3>2. w <= version[m]
      BY <2>1, <2>2, <2>3, <3>1 DEF Pending
    <3>3. CASE w = version[m]
      BY <3>1, <3>3 DEF OrderInv
    <3>4. CASE w < version[m]
      BY <3>1, <3>4 DEF OrderInv, AppliedInOrder
    <3>5. QED
      BY <3>1, <3>2, <3>3, <3>4
  <2>4. AppliedInOrder'
    BY <2>1, <2>3 DEF OrderInv, AppliedInOrder
  <2>5. QED
    BY <1>1, <2>1, <2>4 DEF ApplyMigration, OrderInv
<1>2. ASSUME NEW m \in Migrators, ReadVersion(m) \/ NextMigration(m) \/ RereadVersion(m)
      PROVE  OrderInv'
  BY <1>t, <1>2 DEF ReadVersion, NextMigration, RereadVersion, OrderInv, AppliedInOrder, TypeOK, db
<1>3. ASSUME UNCHANGED <<applied, dbVersion, version>> PROVE OrderInv'
  BY <1>3 DEF OrderInv, AppliedInOrder
<1>4. ASSUME NEW m \in Migrators, Step(m), ~ApplyMigration(m),
             ~(ReadVersion(m) \/ NextMigration(m) \/ RereadVersion(m))
      PROVE  UNCHANGED <<applied, dbVersion, version>>
  BY <1>4 DEF Step, TryLock, ValidateCurrentState, ProbeState, MarkDirty, StartUp, Finalize,
              Unlock, db
<1>5. ASSUME ~\E m \in Migrators : Step(m) PROVE UNCHANGED <<applied, dbVersion, version>>
  BY <1>5 DEF Next, Fail, Crash, Rerun, ReapSession, LoseSession, db, vars
<1>6. QED
  BY <1>1, <1>2, <1>3, <1>4, <1>5

\* The row names a version that was committed, or 0, and none is taken back.
LEMMA RowStep ==
  ASSUME TypeInv, OrderInv, state.version \in applied \cup {0}, [Next]_vars
  PROVE  applied \subseteq applied' /\ state'.version \in applied' \cup {0}
<1>t. TypeOK
  BY DEF TypeInv
<1>1. ASSUME NEW m \in Migrators, ApplyMigration(m)
      PROVE  applied \subseteq applied' /\ state'.version \in applied' \cup {0}
  BY <1>1 DEF ApplyMigration, Row
<1>2. ASSUME NEW m \in Migrators, Finalize(m)
      PROVE  applied' = applied /\ state'.version \in applied \cup {0}
  BY <1>2 DEF Finalize, Row, OrderInv
<1>3. ASSUME NEW m \in Migrators, MarkDirty(m)
      PROVE  applied' = applied /\ state'.version = state.version
  BY <1>t, <1>3 DEF MarkDirty, TypeOK
<1>4. ASSUME NEW m \in Migrators, Step(m), ~ApplyMigration(m), ~Finalize(m), ~MarkDirty(m)
      PROVE  UNCHANGED <<applied, state>>
  BY <1>4 DEF Step, TryLock, ReadVersion, ValidateCurrentState, ProbeState, StartUp,
              NextMigration, RereadVersion, Unlock, db
<1>5. ASSUME ~\E m \in Migrators : Step(m) PROVE UNCHANGED <<applied, state>>
  BY <1>5 DEF Next, Fail, Crash, Rerun, ReapSession, LoseSession, db, vars
<1>6. QED
  BY <1>1, <1>2, <1>3, <1>4, <1>5

\* When catalogues extend each other, versions are committed without gaps,
\* even by migrators that run at once after a session was cut.
THEOREM MigrationsApplyInOrder ==
  ASSUME CataloguesExtend
  PROVE  Spec => []AppliedInOrder
<1>1. Init => OrderInv
  BY DEF Init, OrderInv, AppliedInOrder
<1>2. TypeInv /\ OrderInv /\ [Next]_vars => OrderInv'
  BY OrderStep
<1>3. OrderInv => AppliedInOrder
  BY DEF OrderInv
<1>4. QED
  BY <1>1, <1>2, <1>3, TypeInit, TypeStep, PTL DEF Spec
=============================================================================
