---------------------------- MODULE BootstrapProofs ----------------------------
(***************************************************************************)
(* Proofs about BootstrapRoles, for any number of overlapping runs and of  *)
(* faults.  The store never replaces a secret, so what a run has resolved  *)
(* stays what the store has, until the run ends.                           *)
(***************************************************************************)
EXTENDS BootstrapRoles, TLAPS

\* Run p has resolved the password of role r, has finished role r, and has
\* executed statement g.
InDatabase(p) == pc[p] \in {"connect", "probe", "createRole", "alter", "grant", "report"}
Resolved(p, r) == InDatabase(p) \/ (pc[p] \in {"read", "create"} /\ r < at[p])
Finished(p, r) ==
  pc[p] \in {"grant", "report"} \/ (pc[p] \in {"probe", "createRole", "alter"} /\ r < at[p])
Executed(p, g) == pc[p] = "report" \/ (pc[p] = "grant" /\ g < at[p])

RoleDone(r) == r \in exists /\ stored[r] # None /\ password[r] = stored[r]

\* What a run knows between two of its requests or statements.
RunInv(p) ==
  /\ \A r \in Roles : Resolved(p, r) => value[p][r] # None /\ value[p][r] = stored[r]
  /\ pc[p] = "create" => value[p][at[p]] # None
  /\ \A r \in Roles : Finished(p, r) => RoleDone(r)
  /\ \A g \in Grants : Executed(p, g) => g \in granted
  /\ pc[p] = "alter" => at[p] \in exists
  /\ outcome[p] = "ok" => Complete

IInv == TypeOK /\ PasswordIsStored /\ \A p \in Runs : RunInv(p)

-----------------------------------------------------------------------------
LEMMA TypeInit == Init => TypeOK
  BY FaultsAssumption DEF Init, TypeOK, PCs, Roles, Grants, None

\* Where a run is, before and after it goes on.
PlaceOK == /\ pc \in [Runs -> PCs] /\ at \in [Runs -> Grants]
           /\ \A p \in Runs : pc[p] # "grant" => at[p] \in Roles

LEMMA GotoType ==
  ASSUME PlaceOK, NEW p \in Runs, NEW l \in PCs, NEW n \in Grants,
         l # "grant" => n \in Roles, Goto(p, l, n)
  PROVE  PlaceOK'
BY DEF PlaceOK, Goto

LEMMA StepPlace ==
  ASSUME TypeOK, Next \/ UNCHANGED vars
  PROVE  PlaceOK'
<1>0. PlaceOK
  BY DEF TypeOK, PlaceOK
<1>1. CASE UNCHANGED vars
  BY <1>0, <1>1 DEF vars, PlaceOK
<1>2. ASSUME NEW p \in Runs, Start(p) \/ Step(p) \/ Fail(p) PROVE PlaceOK'
  <2>a. at[p] \in Nat /\ (pc[p] # "grant" => at[p] = 1 \/ at[p] = 2)
        /\ (pc[p] = "grant" => at[p] \in 1..7)
    BY <1>0 DEF PlaceOK, Grants, Roles
  <2>1. \E l \in PCs, n \in Grants : (l # "grant" => n \in Roles) /\ Goto(p, l, n)
    <3> USE <2>a DEF PCs, Grants, Roles
    <3>1. CASE Start(p)
      BY <3>1 DEF Start
    <3>2. CASE ReadSecret(p)
      BY <3>2 DEF ReadSecret, SecretResolved
    <3>3. CASE CreateSecret(p)
      BY <3>3 DEF CreateSecret, SecretResolved, Abort
    <3>4. CASE Connect(p)
      BY <3>4 DEF Connect
    <3>5. CASE ProbeRole(p)
      BY <3>5 DEF ProbeRole
    <3>6. CASE CreateRole(p)
      BY <3>6 DEF CreateRole, Abort
    <3>7. CASE AlterRole(p)
      BY <3>7 DEF AlterRole
    <3>8. CASE Grant(p)
      BY <3>8 DEF Grant
    <3>9. CASE Report(p)
      BY <3>9 DEF Report
    <3>10. CASE Fail(p)
      BY <3>10 DEF Fail, Abort
    <3>11. QED
      BY <1>2, <3>1, <3>2, <3>3, <3>4, <3>5, <3>6, <3>7, <3>8, <3>9, <3>10 DEF Step
  <2>2. QED
    BY <1>0, <2>1, GotoType
<1>3. QED
  BY <1>1, <1>2 DEF Next

LEMMA TypeStep == TypeOK /\ [Next]_vars => TypeOK'
<1> SUFFICES ASSUME TypeOK, [Next]_vars PROVE TypeOK'
  OBVIOUS
<1>0. PlaceOK'
  BY StepPlace
<1>a. ASSUME NEW p \in Runs, pc[p] # "grant" PROVE at[p] \in Roles
  BY <1>a DEF TypeOK
<1>g. ASSUME NEW p \in Runs PROVE at[p] \in Grants
  BY DEF TypeOK
<1> USE DEF TypeOK, PlaceOK, None, database, Abort, Hold
<1>1. ASSUME NEW p \in Runs, Start(p) PROVE TypeOK'
  BY <1>0, <1>1 DEF Start
<1>2. ASSUME NEW p \in Runs, ReadSecret(p) PROVE TypeOK'
  <2>1. at[p] \in Roles /\ stored[at[p]] \in Nat
    BY <1>2, <1>a DEF ReadSecret
  <2>2. CASE stored[at[p]] # None
    BY <1>0, <1>2, <2>1, <2>2 DEF ReadSecret
  <2>3. CASE stored[at[p]] = None
    <3>1. generated + 1 \in Nat /\ value' = [value EXCEPT ![p][at[p]] = generated + 1]
      BY <1>2, <2>3 DEF ReadSecret
    <3>2. value' \in [Runs -> [Roles -> Nat]]
      BY <2>1, <3>1
    <3>3. QED
      BY <1>0, <1>2, <2>3, <3>1, <3>2 DEF ReadSecret
  <2>4. QED
    BY <2>2, <2>3
<1>3. ASSUME NEW p \in Runs, CreateSecret(p) PROVE TypeOK'
  <2>1. at[p] \in Roles /\ value[p][at[p]] \in Nat
    BY <1>3, <1>a DEF CreateSecret
  <2>2. QED
    BY <1>0, <1>3, <2>1 DEF CreateSecret
<1>4. ASSUME NEW p \in Runs, Connect(p) PROVE TypeOK'
  BY <1>0, <1>4 DEF Connect
<1>5. ASSUME NEW p \in Runs, ProbeRole(p) PROVE TypeOK'
  BY <1>0, <1>5 DEF ProbeRole
<1>6. ASSUME NEW p \in Runs, CreateRole(p) PROVE TypeOK'
  BY <1>0, <1>6, <1>a DEF CreateRole
<1>7. ASSUME NEW p \in Runs, AlterRole(p) PROVE TypeOK'
  <2>1. at[p] \in Roles /\ value[p][at[p]] \in Nat
    BY <1>7, <1>a DEF AlterRole
  <2>2. QED
    BY <1>0, <1>7, <2>1 DEF AlterRole
<1>8. ASSUME NEW p \in Runs, Grant(p) PROVE TypeOK'
  BY <1>0, <1>8, <1>g DEF Grant
<1>9. ASSUME NEW p \in Runs, Report(p) PROVE TypeOK'
  BY <1>0, <1>9 DEF Report
<1>10. ASSUME NEW p \in Runs, Fail(p) PROVE TypeOK'
  BY <1>0, <1>10, FaultsAssumption DEF Fail
<1>11. CASE UNCHANGED vars
  BY <1>11 DEF vars
<1>12. QED
  BY <1>1, <1>2, <1>3, <1>4, <1>5, <1>6, <1>7, <1>8, <1>9, <1>10, <1>11 DEF Next, Step

\* The state of the database and the store keeps its types, and so do runs.
THEOREM TypeCorrect == Spec => []TypeOK
  BY TypeInit, TypeStep, PTL DEF Spec

-----------------------------------------------------------------------------
\* Only the run that steps moves, and its step takes nothing away.

LEMMA OthersWait ==
  ASSUME TypeOK, NEW p \in Runs, Start(p) \/ Step(p) \/ Fail(p), NEW q \in Runs, q # p
  PROVE  pc'[q] = pc[q] /\ at'[q] = at[q] /\ value'[q] = value[q] /\ outcome'[q] = outcome[q]
<1> USE DEF TypeOK, Goto, Hold, Abort, SecretResolved
<1>1. CASE Start(p)
  BY <1>1 DEF Start
<1>2. CASE Step(p)
  <2>1. CASE ReadSecret(p)
    BY <2>1 DEF ReadSecret
  <2>2. CASE CreateSecret(p)
    BY <2>2 DEF CreateSecret
  <2>3. CASE Connect(p) \/ ProbeRole(p)
    BY <2>3 DEF Connect, ProbeRole
  <2>4. CASE CreateRole(p)
    BY <2>4 DEF CreateRole
  <2>5. CASE AlterRole(p)
    BY <2>5 DEF AlterRole
  <2>6. CASE Grant(p) \/ Report(p)
    BY <2>6 DEF Grant, Report
  <2>7. QED
    BY <1>2, <2>1, <2>2, <2>3, <2>4, <2>5, <2>6 DEF Step
<1>3. CASE Fail(p)
  BY <1>3 DEF Fail
<1>4. QED
  BY <1>1, <1>2, <1>3

LEMMA NothingIsLost ==
  ASSUME IInv, NEW p \in Runs, Start(p) \/ Step(p) \/ Fail(p)
  PROVE  /\ \A r \in Roles : stored[r] # None => stored'[r] = stored[r]
         /\ exists \subseteq exists' /\ granted \subseteq granted'
         /\ \A r \in Roles : RoleDone(r) => RoleDone(r)'
         /\ PasswordIsStored'
<1>t. TypeOK /\ PasswordIsStored /\ RunInv(p)
  BY DEF IInv
<1> USE DEF RoleDone, PasswordIsStored
<1>1. CASE CreateSecret(p)
  <2>1. exists' = exists /\ granted' = granted /\ password' = password
    BY <1>1 DEF CreateSecret, database
  <2>2. at[p] \in Roles
    BY <1>t, <1>1 DEF CreateSecret, TypeOK
  <2>3. \A r \in Roles : stored[r] # None => stored'[r] = stored[r]
    BY <1>t, <1>1, <2>2 DEF CreateSecret, TypeOK
  <2>4. QED
    BY <1>t, <2>1, <2>3
<1>2. CASE AlterRole(p)
  <2>1. at[p] \in Roles /\ InDatabase(p)
    BY <1>t, <1>2 DEF AlterRole, TypeOK, InDatabase
  <2>2. value[p][at[p]] # None /\ value[p][at[p]] = stored[at[p]]
    BY <1>t, <2>1 DEF RunInv, Resolved
  <2>3. /\ UNCHANGED <<stored, exists, granted>>
        /\ password' = [password EXCEPT ![at[p]] = stored[at[p]]]
    BY <1>2, <2>2 DEF AlterRole
  <2>4. QED
    BY <1>t, <2>2, <2>3 DEF TypeOK
<1>3. CASE ~CreateSecret(p) /\ ~AlterRole(p)
  <2>1. stored' = stored /\ password' = password
    BY <1>3 DEF Start, Step, Fail, ReadSecret, Connect, ProbeRole, CreateRole, Grant, Report,
                database
  <2>2. exists \subseteq exists' /\ granted \subseteq granted'
    BY <1>3 DEF Start, Step, Fail, ReadSecret, Connect, ProbeRole, CreateRole, Grant, Report,
                database
  <2>3. QED
    BY <1>t, <2>1, <2>2
<1>4. QED
  BY <1>1, <1>2, <1>3

\* What is complete stays complete, whatever run takes a step.
LEMMA CompleteStep ==
  ASSUME IInv, NEW p \in Runs, Start(p) \/ Step(p) \/ Fail(p), Complete
  PROVE  Complete'
<1>1. \A r \in Roles : RoleDone(r)
  BY DEF Complete, RoleDone
<1>2. (\A r \in Roles : RoleDone(r))' /\ Grants \subseteq granted'
  BY <1>1, NothingIsLost DEF Complete
<1>3. exists' \subseteq Roles /\ granted' \subseteq Grants
  BY TypeStep DEF IInv, Next, TypeOK
<1>4. QED
  BY <1>2, <1>3 DEF Complete, RoleDone

LEMMA OtherRuns ==
  ASSUME IInv, NEW p \in Runs, Start(p) \/ Step(p) \/ Fail(p), NEW q \in Runs, q # p
  PROVE  RunInv(q)'
<1>1. RunInv(q)
  BY DEF IInv
<1>2. pc'[q] = pc[q] /\ at'[q] = at[q] /\ value'[q] = value[q] /\ outcome'[q] = outcome[q]
  BY OthersWait DEF IInv
<1>3. /\ \A r \in Roles : stored[r] # None => stored'[r] = stored[r]
      /\ exists \subseteq exists' /\ granted \subseteq granted'
      /\ \A r \in Roles : RoleDone(r) => RoleDone(r)'
  BY NothingIsLost
<1>4. Complete => Complete'
  BY CompleteStep
<1>5. \A r \in Roles : Resolved(q, r)' => value'[q][r] # None /\ value'[q][r] = stored'[r]
  BY <1>1, <1>2, <1>3 DEF RunInv, Resolved, InDatabase
<1>6. \A r \in Roles : Finished(q, r)' => RoleDone(r)'
  BY <1>1, <1>2, <1>3 DEF RunInv, Finished
<1>7. \A g \in Grants : Executed(q, g)' => g \in granted'
  BY <1>1, <1>2, <1>3 DEF RunInv, Executed
<1>8. pc'[q] = "create" => value'[q][at'[q]] # None
  BY <1>1, <1>2 DEF RunInv
<1>9. pc'[q] = "alter" => at'[q] \in exists'
  BY <1>1, <1>2, <1>3 DEF RunInv
<1>10. outcome'[q] = "ok" => Complete'
  BY <1>1, <1>2, <1>4 DEF RunInv
<1>11. QED
  BY <1>5, <1>6, <1>7, <1>8, <1>9, <1>10 DEF RunInv

LEMMA OwnRun ==
  ASSUME IInv, NEW p \in Runs, Start(p) \/ Step(p) \/ Fail(p)
  PROVE  RunInv(p)'
<1>t. TypeOK /\ TypeOK' /\ RunInv(p)
  BY TypeStep DEF IInv, Next
<1>k. /\ \A r \in Roles : stored[r] # None => stored'[r] = stored[r]
      /\ \A r \in Roles : RoleDone(r) => RoleDone(r)'
      /\ Complete => Complete'
  BY NothingIsLost, CompleteStep
<1>r. at[p] \in Nat /\ (pc[p] # "grant" => at[p] = 1 \/ at[p] = 2) /\ Roles = {1, 2}
  BY <1>t DEF TypeOK, Roles, Grants
<1> USE DEF RunInv, Resolved, InDatabase, Finished, Executed
<1>1. CASE Start(p) \/ Fail(p)
  <2>1. /\ (pc'[p] = "read" /\ at'[p] = 1) \/ pc'[p] = "done"
        /\ outcome'[p] # "ok"
    BY <1>t, <1>1 DEF Start, Fail, Goto, Abort, TypeOK
  <2>2. \A r \in Roles : ~(r < 1)
    BY <1>r
  <2>3. QED
    BY <2>1, <2>2
<1>2. CASE ReadSecret(p)
  <2>0. outcome'[p] = outcome[p] /\ UNCHANGED stored
    BY <1>2 DEF ReadSecret
  <2>1. CASE stored[at[p]] # None
    <3>1. /\ value'[p] = [value[p] EXCEPT ![at[p]] = stored[at[p]]]
          /\ at[p] = 1 => pc'[p] = "read" /\ at'[p] = 2
          /\ at[p] = 2 => pc'[p] = "connect"
      BY <1>t, <1>r, <1>2, <2>1 DEF ReadSecret, Hold, SecretResolved, Goto, TypeOK
    <3>2. \A r \in Roles : r <= at[p] => value'[p][r] # None /\ value'[p][r] = stored[r]
      BY <1>t, <1>r, <1>2, <2>1, <3>1 DEF TypeOK, ReadSecret
    <3>3. QED
      BY <1>k, <1>t, <1>r, <1>2, <2>0, <3>1, <3>2 DEF ReadSecret
  <2>2. CASE stored[at[p]] = None
    <3>1. /\ value'[p] = [value[p] EXCEPT ![at[p]] = generated + 1]
          /\ pc'[p] = "create" /\ at'[p] = at[p]
      BY <1>t, <1>r, <1>2, <2>2 DEF ReadSecret, Hold, Goto, TypeOK
    <3>2. value'[p][at[p]] # None
      BY <1>t, <1>r, <1>2, <3>1 DEF TypeOK, ReadSecret, None
    <3>3. \A r \in Roles : r < at[p] => value'[p][r] # None /\ value'[p][r] = stored[r]
      BY <1>t, <1>r, <1>2, <3>1 DEF TypeOK, ReadSecret
    <3>4. QED
      BY <1>k, <1>t, <1>r, <2>0, <3>1, <3>2, <3>3
  <2>3. QED
    BY <2>1, <2>2
<1>3. CASE CreateSecret(p)
  <2>0. value' = value
    BY <1>3 DEF CreateSecret
  <2>1. CASE stored[at[p]] = None
    <3>1. /\ stored' = [stored EXCEPT ![at[p]] = value[p][at[p]]]
          /\ at[p] = 1 => pc'[p] = "read" /\ at'[p] = 2
          /\ at[p] = 2 => pc'[p] = "connect"
          /\ outcome'[p] = outcome[p]
      BY <1>t, <1>r, <1>3, <2>1 DEF CreateSecret, SecretResolved, Goto, TypeOK
    <3>2. \A r \in Roles : r <= at[p] => value[p][r] # None /\ value[p][r] = stored'[r]
      <4>1. pc[p] = "create" /\ at[p] \in Roles /\ value[p][at[p]] # None
        BY <1>t, <1>r, <1>3 DEF CreateSecret
      <4>2. stored'[at[p]] = value[p][at[p]]
        BY <1>t, <3>1, <4>1 DEF TypeOK
      <4>3. \A r \in Roles : r < at[p] => value[p][r] # None /\ value[p][r] = stored[r]
        BY <1>t, <4>1
      <4>4. \A r \in Roles : r < at[p] => value[p][r] = stored'[r]
        BY <1>k, <4>3
      <4>5. ASSUME NEW r \in Roles, r <= at[p]
            PROVE  value[p][r] # None /\ value[p][r] = stored'[r]
        <5>1. CASE r = at[p]
          BY <4>1, <4>2, <5>1
        <5>2. CASE r # at[p]
          <6>1. r < at[p]
            BY <1>r, <4>5, <5>2
          <6>2. QED
            BY <4>3, <4>4, <6>1
        <5>3. QED
          BY <5>1, <5>2
      <4>6. QED
        BY <4>5
    <3>a. outcome'[p] = "ok" => Complete'
      BY <1>k, <1>t, <3>1
    <3>3. CASE at[p] = 1
      <4>1. \A r \in Roles : r < 2 => r <= at[p]
        BY <1>r, <3>3
      <4>2. QED
        BY <2>0, <3>1, <3>2, <3>3, <3>a, <4>1
    <3>4. CASE at[p] = 2
      <4>1. \A r \in Roles : r <= at[p]
        BY <1>r, <3>4
      <4>2. QED
        BY <2>0, <3>1, <3>2, <3>4, <3>a, <4>1
    <3>5. at[p] = 1 \/ at[p] = 2
      BY <1>r, <1>3 DEF CreateSecret
    <3>6. QED
      BY <3>3, <3>4, <3>5
  <2>2. CASE stored[at[p]] # None
    <3>1. pc'[p] = "done" /\ outcome'[p] = "error"
      BY <1>t, <1>3, <2>2 DEF CreateSecret, Abort, Goto, TypeOK
    <3>2. QED
      BY <3>1
  <2>3. QED
    BY <2>1, <2>2
<1>4. CASE Connect(p)
  <2>1. /\ pc[p] = "connect" /\ pc'[p] = "probe" /\ at'[p] = 1
        /\ UNCHANGED <<stored, value, outcome>>
    BY <1>t, <1>4 DEF Connect, Goto, TypeOK
  <2>2. QED
    BY <1>k, <1>t, <1>r, <2>1
<1>5. CASE ProbeRole(p)
  <2>1. /\ pc[p] = "probe" /\ at'[p] = at[p]
        /\ pc'[p] = "createRole" \/ (pc'[p] = "alter" /\ at[p] \in exists)
        /\ UNCHANGED <<stored, value, outcome, exists>>
    BY <1>t, <1>5 DEF ProbeRole, Goto, TypeOK, database
  <2>2. QED
    BY <1>k, <1>t, <1>r, <2>1
<1>6. CASE CreateRole(p)
  <2>1. CASE at[p] \notin exists
    <3>1. /\ pc[p] = "createRole" /\ pc'[p] = "alter" /\ at'[p] = at[p]
          /\ at[p] \in exists' /\ UNCHANGED <<stored, value, outcome>>
      BY <1>t, <1>6, <2>1 DEF CreateRole, Goto, TypeOK
    <3>2. QED
      BY <1>k, <1>t, <1>r, <3>1
  <2>2. CASE at[p] \in exists
    <3>1. pc'[p] = "done" /\ outcome'[p] = "error"
      BY <1>t, <1>6, <2>2 DEF CreateRole, Abort, Goto, TypeOK
    <3>2. QED
      BY <3>1
  <2>3. QED
    BY <2>1, <2>2
<1>7. CASE AlterRole(p)
  <2>1. /\ pc[p] = "alter" /\ password' = [password EXCEPT ![at[p]] = value[p][at[p]]]
        /\ at[p] = 1 => pc'[p] = "probe" /\ at'[p] = 2
        /\ at[p] = 2 => pc'[p] = "grant" /\ at'[p] = 1
        /\ UNCHANGED <<stored, value, outcome, exists, granted>>
    BY <1>t, <1>7 DEF AlterRole, Goto, TypeOK
  <2>2. at[p] \in exists' /\ stored'[at[p]] # None /\ password'[at[p]] = stored'[at[p]]
    <3>1. at[p] \in Roles /\ at[p] \in exists
      BY <1>t, <1>r, <2>1
    <3>2. value[p][at[p]] # None /\ value[p][at[p]] = stored[at[p]]
      BY <1>t, <2>1, <3>1
    <3>3. password'[at[p]] = stored[at[p]]
      BY <1>t, <2>1, <3>1, <3>2 DEF TypeOK
    <3>4. QED
      BY <2>1, <3>1, <3>2, <3>3
  <2>3. ASSUME NEW r \in Roles, r <= at[p] PROVE RoleDone(r)'
    <3>1. r < at[p] => RoleDone(r)
      BY <1>t, <2>1
    <3>2. CASE r = at[p]
      BY <2>2, <3>2 DEF RoleDone
    <3>3. CASE r # at[p]
      <4>1. r < at[p]
        BY <1>r, <2>3, <3>3
      <4>2. QED
        BY <1>k, <3>1, <4>1
    <3>4. QED
      BY <3>2, <3>3
  <2>4. \A g \in Grants : ~(g < 1)
    BY DEF Grants
  <2>5. QED
    BY <1>k, <1>t, <1>r, <2>1, <2>3, <2>4
<1>8. CASE Grant(p)
  <2>1. /\ pc[p] = "grant" /\ granted' = granted \cup {at[p]}
        /\ at[p] < 7 => pc'[p] = "grant" /\ at'[p] = at[p] + 1
        /\ ~(at[p] < 7) => pc'[p] = "report"
        /\ UNCHANGED <<stored, value, outcome, exists>>
    BY <1>t, <1>8 DEF Grant, Goto, TypeOK
  <2>2. \A g \in Grants : g <= at[p] => g \in granted'
    BY <1>t, <1>r, <2>1 DEF Grants
  <2>3. \A g \in Grants : g <= 7
    BY DEF Grants
  <2>4. \A g \in Grants : Executed(p, g)' => g \in granted'
    BY <1>r, <2>1, <2>2, <2>3 DEF Grants
  <2>5. QED
    BY <1>k, <1>t, <1>r, <2>1, <2>4
<1>9. CASE Report(p)
  <2>1. pc[p] = "report" /\ pc'[p] = "done" /\ UNCHANGED <<stored, database>>
    BY <1>t, <1>9 DEF Report, Goto, TypeOK
  <2>2. \A r \in Roles : RoleDone(r)
    BY <1>t, <2>1
  <2>3. Grants \subseteq granted
    BY <1>t, <2>1
  <2>4. Complete
    BY <1>t, <2>2, <2>3 DEF Complete, RoleDone, TypeOK
  <2>5. QED
    BY <1>k, <2>1, <2>4
<1>10. QED
  BY <1>1, <1>2, <1>3, <1>4, <1>5, <1>6, <1>7, <1>8, <1>9 DEF Step

LEMMA InitIInv == Init => IInv
<1> SUFFICES ASSUME Init PROVE IInv
  OBVIOUS
<1>1. TypeOK
  BY TypeInit
<1>2. PasswordIsStored
  BY DEF Init, PasswordIsStored
<1>3. ASSUME NEW p \in Runs PROVE RunInv(p)
  BY <1>3 DEF Init, RunInv, Resolved, InDatabase, Finished, Executed
<1>4. QED
  BY <1>1, <1>2, <1>3 DEF IInv

LEMMA StepIInv == IInv /\ [Next]_vars => IInv'
<1> SUFFICES ASSUME IInv, [Next]_vars PROVE IInv'
  OBVIOUS
<1>1. ASSUME NEW p \in Runs, Start(p) \/ Step(p) \/ Fail(p) PROVE IInv'
  <2>1. \A q \in Runs : RunInv(q)'
    BY <1>1, OwnRun, OtherRuns
  <2>2. TypeOK' /\ PasswordIsStored'
    BY <1>1, TypeStep, NothingIsLost DEF IInv
  <2>3. QED
    BY <2>1, <2>2 DEF IInv
<1>2. CASE UNCHANGED vars
  BY <1>2 DEF vars, database, IInv, TypeOK, PasswordIsStored, RunInv, Resolved, InDatabase,
              Finished, Executed, RoleDone, Complete
<1>3. QED
  BY <1>1, <1>2 DEF Next

LEMMA CompleteKept == IInv /\ [Next]_vars /\ Complete => Complete'
<1> SUFFICES ASSUME IInv, [Next]_vars, Complete PROVE Complete'
  OBVIOUS
<1>1. CASE Next
  BY <1>1, CompleteStep DEF Next
<1>2. CASE UNCHANGED vars
  BY <1>2 DEF vars, database, Complete
<1>3. QED
  BY <1>1, <1>2

LEMMA Invariance == Spec => []IInv
  BY InitIInv, StepIInv, PTL DEF Spec

-----------------------------------------------------------------------------
\* A role that can log in has the password the store holds for it.
THEOREM PasswordsAreStored == Spec => []PasswordIsStored
<1>1. IInv => PasswordIsStored
  BY DEF IInv
<1>2. QED
  BY <1>1, Invariance, PTL

\* A run that reported success left roles, passwords and grants in place.
THEOREM SuccessIsComplete == Spec => []SuccessMeansComplete
<1>1. IInv => SuccessMeansComplete
  BY DEF IInv, RunInv, SuccessMeansComplete
<1>2. QED
  BY <1>1, Invariance, PTL

\* No later run, and no old run that finishes late, takes anything away.
THEOREM CompletenessIsStable == Spec => CompleteStays
<1>1. IInv /\ [Next]_vars => [Complete => Complete']_vars
  BY CompleteKept
<1>2. QED
  BY <1>1, Invariance, PTL DEF Spec, CompleteStays
=============================================================================
