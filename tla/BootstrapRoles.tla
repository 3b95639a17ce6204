---------------------------- MODULE BootstrapRoles ----------------------------
(***************************************************************************)
(* Database bootstrap (cmd/bootstrap) and the secret store it uses.  A run *)
(* resolves the password of the API role and of the migration role, each   *)
(* created in the store when it is missing, and then makes sure that the   *)
(* roles exist, have those passwords and hold their grants.  Reading and   *)
(* creating a secret are two requests, no two database statements share a  *)
(* transaction, and nothing keeps a second run out, so every request and   *)
(* every statement is an action.                                           *)
(*                                                                         *)
(* The store refuses to create a name it has, and Postgres to create a     *)
(* role it has.  Passwords are random: each one generated is a new number. *)
(***************************************************************************)
EXTENDS Naturals

CONSTANTS
  Runs,      \* invocations that may overlap; each may be started again
  MaxFaults  \* bound: requests, statements and processes that fail

ASSUME FaultsAssumption == MaxFaults \in Nat

Roles  == 1..2   \* apiRole and migrateRole, in the order they are handled
Grants == 1..7   \* the statements of initialiseDatabase, in their order
None   == 0      \* no password

VARIABLES
  stored,     \* [Roles -> password]: the secret store
  exists,     \* roles in pg_roles
  password,   \* [Roles -> password]: what the role logs in with
  granted,    \* statements of initialiseDatabase that have taken effect
  pc,         \* next request or statement of each run
  at,         \* the role or the grant it is about
  value,      \* [Runs -> [Roles -> password]]: what the run has resolved
  outcome,    \* how each run ended
  generated,  \* passwords generated so far
  faults

database == <<exists, password, granted>>
vars == <<stored, database, pc, at, value, outcome, generated, faults>>

PCs == {"read", "create", "connect", "probe", "createRole", "alter", "grant",
        "report", "done"}

Init ==
  /\ stored = [r \in Roles |-> None]
  /\ exists = {} /\ password = [r \in Roles |-> None] /\ granted = {}
  /\ pc = [p \in Runs |-> "done"] /\ at = [p \in Runs |-> 1]
  /\ value = [p \in Runs |-> [r \in Roles |-> None]]
  /\ outcome = [p \in Runs |-> "none"]
  /\ generated = 0 /\ faults = 0

Goto(p, label, n) == pc' = [pc EXCEPT ![p] = label] /\ at' = [at EXCEPT ![p] = n]

\* run returns an error.
Abort(p) == Goto(p, "done", 1) /\ outcome' = [outcome EXCEPT ![p] = "error"]

\* Run p holds v for the role it is at, and goes on to the next one.
Hold(p, v) == value' = [value EXCEPT ![p][at[p]] = v]
SecretResolved(p) ==
  IF at[p] = 1 THEN Goto(p, "read", 2) ELSE Goto(p, "connect", 1)

-----------------------------------------------------------------------------
\* Seeded defects: forms of the actions below that a bug would give them.

\* The generated password is used although the store refused it.
CreateUnchecked(p) ==
  /\ pc[p] = "create"
  /\ stored' = IF stored[at[p]] = None THEN [stored EXCEPT ![at[p]] = value[p][at[p]]] ELSE stored
  /\ SecretResolved(p)
  /\ UNCHANGED <<database, value, outcome, generated, faults>>

\* A role that exists is taken to be finished.
ProbeSkips(p) ==
  /\ pc[p] = "probe"
  /\ IF at[p] \in exists
     THEN IF at[p] = 1 THEN Goto(p, "probe", 2) ELSE Goto(p, "grant", 1)
     ELSE Goto(p, "createRole", at[p])
  /\ UNCHANGED <<stored, database, value, outcome, generated, faults>>

\* The existence of the role is assumed from a first run.
ProbeAssumesNone(p) ==
  /\ pc[p] = "probe"
  /\ Goto(p, "createRole", at[p])
  /\ UNCHANGED <<stored, database, value, outcome, generated, faults>>

-----------------------------------------------------------------------------
\* One run.

Start(p) ==
  /\ pc[p] = "done"
  /\ Goto(p, "read", 1)
  /\ value' = [value EXCEPT ![p] = [r \in Roles |-> None]]
  /\ outcome' = [outcome EXCEPT ![p] = "none"]
  /\ UNCHANGED <<stored, database, generated, faults>>

\* Login and Read of ResolveOrCreateBatch; a missing secret is generated.
ReadSecret(p) ==
  /\ pc[p] = "read"
  /\ IF stored[at[p]] # None
     THEN Hold(p, stored[at[p]]) /\ SecretResolved(p) /\ UNCHANGED generated
     ELSE Hold(p, generated + 1) /\ Goto(p, "create", at[p]) /\ generated' = generated + 1
  /\ UNCHANGED <<stored, database, outcome, faults>>

CreateSecret(p) ==
  /\ pc[p] = "create"
  /\ \/ /\ stored[at[p]] = None
        /\ stored' = [stored EXCEPT ![at[p]] = value[p][at[p]]]
        /\ SecretResolved(p) /\ UNCHANGED outcome
     \/ /\ stored[at[p]] # None
        /\ Abort(p) /\ UNCHANGED stored
  /\ UNCHANGED <<database, value, generated, faults>>

\* The master password and openMasterDatabase.
Connect(p) ==
  /\ pc[p] = "connect"
  /\ Goto(p, "probe", 1)
  /\ UNCHANGED <<stored, database, value, outcome, generated, faults>>

ProbeRole(p) ==
  /\ pc[p] = "probe"
  /\ Goto(p, IF at[p] \in exists THEN "alter" ELSE "createRole", at[p])
  /\ UNCHANGED <<stored, database, value, outcome, generated, faults>>

CreateRole(p) ==
  /\ pc[p] = "createRole"
  /\ \/ /\ at[p] \notin exists
        /\ exists' = exists \cup {at[p]}
        /\ Goto(p, "alter", at[p]) /\ UNCHANGED outcome
     \/ /\ at[p] \in exists
        /\ Abort(p) /\ UNCHANGED exists
  /\ UNCHANGED <<stored, password, granted, value, generated, faults>>

\* format and the ALTER ROLE it prepares.
AlterRole(p) ==
  /\ pc[p] = "alter"
  /\ password' = [password EXCEPT ![at[p]] = value[p][at[p]]]
  /\ IF at[p] = 1 THEN Goto(p, "probe", 2) ELSE Goto(p, "grant", 1)
  /\ UNCHANGED <<stored, exists, granted, value, outcome, generated, faults>>

Grant(p) ==
  /\ pc[p] = "grant"
  /\ granted' = granted \cup {at[p]}
  /\ IF at[p] < 7 THEN Goto(p, "grant", at[p] + 1) ELSE Goto(p, "report", 1)
  /\ UNCHANGED <<stored, exists, password, value, outcome, generated, faults>>

Report(p) ==
  /\ pc[p] = "report"
  /\ Goto(p, "done", 1)
  /\ outcome' = [outcome EXCEPT ![p] = "ok"]
  /\ UNCHANGED <<stored, database, value, generated, faults>>

\* A request or statement fails, the answer to the one before it was lost
\* after it took effect, or the process dies: the next run starts over.
Fail(p) ==
  /\ pc[p] # "done" /\ faults < MaxFaults
  /\ Abort(p)
  /\ faults' = faults + 1
  /\ UNCHANGED <<stored, database, value, generated>>

Step(p) == \/ ReadSecret(p) \/ CreateSecret(p) \/ Connect(p) \/ ProbeRole(p)
           \/ CreateRole(p) \/ AlterRole(p) \/ Grant(p) \/ Report(p)

Next == \E p \in Runs : Start(p) \/ Step(p) \/ Fail(p)
Spec == Init /\ [][Next]_vars

\* A started run goes on, and a run that has not succeeded is run again.
FairSpec ==
  Spec /\ \A p \in Runs : WF_vars(Step(p)) /\ WF_vars(outcome[p] # "ok" /\ Start(p))

-----------------------------------------------------------------------------
\* What bootstrap promises.

TypeOK ==
  /\ stored \in [Roles -> Nat] /\ password \in [Roles -> Nat]
  /\ exists \in SUBSET Roles /\ granted \in SUBSET Grants
  /\ pc \in [Runs -> PCs] /\ at \in [Runs -> Grants]
  /\ \A p \in Runs : pc[p] # "grant" => at[p] \in Roles
  /\ value \in [Runs -> [Roles -> Nat]]
  /\ outcome \in [Runs -> {"none", "ok", "error"}]
  /\ generated \in Nat /\ faults \in 0..MaxFaults

\* A role that can log in does so with the password in the store, whichever
\* of two overlapping runs created it and whatever answers were lost: the API
\* and the migrator, which read the store, are never locked out.
PasswordIsStored == \A r \in Roles : password[r] # None => password[r] = stored[r]

\* Everything bootstrap is for is in place.
Complete ==
  /\ exists = Roles /\ granted = Grants
  /\ \A r \in Roles : stored[r] # None /\ password[r] = stored[r]

\* A run that reports success has left everything in place, also when it
\* found the remains of runs that stopped half way.
SuccessMeansComplete == \A p \in Runs : outcome[p] = "ok" => Complete

\* Running bootstrap again, or finishing an old run late, takes nothing away
\* from the processes that already use the database.
CompleteStays == [][Complete => Complete']_vars

\* However runs overlap, and after any of the failures, running bootstrap
\* again completes it.
EventuallyComplete == <>[]Complete
=============================================================================
