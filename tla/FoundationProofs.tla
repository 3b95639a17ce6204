-------------------------- MODULE FoundationProofs --------------------------
(***************************************************************************)
(* The processes of a cell, for every set of documents and any number of   *)
(* starts and mishaps: no call on the nil secret source, no pool and no    *)
(* object left behind, nothing but managed services in production, and     *)
(* what preflight has passed works.                                        *)
(*                                                                         *)
(* The last one needs the most: what is asked in a stage still holds when  *)
(* the stage is done (Vouched), so that a process that comes later, and    *)
(* Ping, which asks other questions, find their answers among them.        *)
(***************************************************************************)
EXTENDS Foundation, TLAPS

\* A process that runs was loaded from an acceptable document, which never
\* leads to the nil source.
Accepted ==
  /\ pc \notin {"off", "rejected"} => \E x \in BOOLEAN : Loads(binary, doc, x)
  /\ NoNilSource

\* Only a process that builds has stages ahead, and those are of its plan; the
\* pool is opened in stage 3 or 4, so a failure while it is open closes it.
Planned ==
  /\ pc # "building" => todo = {}
  /\ todo \subseteq Plan
  /\ pool => \A i \in todo : i > 4
  /\ pc = "serving" => binary = "api"
  /\ binary = "preflight" => ready = "none"

\* The object is written in stage 12 and removed in stage 14, which is ahead
\* as long as the object is there.
Objects ==
  /\ 12 \in todo => {13, 14} \subseteq todo
  /\ object /\ pc = "building" => 14 \in todo /\ \A i \in todo : i > 12
  /\ object /\ pc \notin Resting => pc = "building"
  /\ ObjectRemoved

Asked(stage) == \A f \in Asks(stage) : world[f]

\* The stages of the API and of preflight.
Checked(stage) ==
  /\ stage # "login"
  /\ stage = "source" => On(doc, "secrets")
  /\ stage \in {"open", "check session", "check skew"} => On(doc, "postgres")
  /\ stage \in {"storage", "put", "get", "delete", "check public access", "check encryption"} =>
       On(doc, "object_storage")
  /\ stage \in {"check public access", "check encryption"} => ~FileStorage
  /\ stage \in {"crypto", "seal"} => On(doc, "kms")

\* What a preflight has asked so far, and what one that passed has asked, is
\* so unless something changed.
Vouched ==
  /\ vouched = "asking" /\ binary = "preflight" /\ pc \in {"loaded", "building"} =>
       Loads("preflight", doc, world["key pair"])
  /\ vouched = "asking" /\ binary = "preflight" /\ pc = "building" =>
       \A i \in Plan \ todo : Asked(Stages[i])
  /\ vouched = "yes" =>
       /\ Loads("preflight", doc, world["key pair"])
       /\ \A i \in DOMAIN Stages : Checked(Stages[i]) => Asked(Stages[i])
  /\ PreflightPredicts

IInv == TypeOK /\ Accepted /\ Planned /\ PoolClosed /\ Objects /\ Vouched

-----------------------------------------------------------------------------
\* The stages by their numbers.
LEMMA StageNumbers ==
  /\ DOMAIN Stages = 1..15
  /\ Stages[1] = "clock" /\ Stages[2] = "source" /\ Stages[3] = "login" /\ Stages[4] = "open"
  /\ Stages[5] = "storage" /\ Stages[6] = "crypto" /\ Stages[7] = "check clock"
  /\ Stages[8] = "check session" /\ Stages[9] = "check skew" /\ Stages[10] = "check public access"
  /\ Stages[11] = "check encryption" /\ Stages[12] = "put" /\ Stages[13] = "get"
  /\ Stages[14] = "delete" /\ Stages[15] = "seal"
BY DEF Stages

\* A stage has one number.
LEMMA StageIsNumber ==
  ASSUME NEW i \in DOMAIN Stages
  PROVE  /\ i \in 1..15
         /\ Stages[i] = "put" <=> i = 12
         /\ Stages[i] = "get" <=> i = 13
         /\ Stages[i] = "delete" <=> i = 14
         /\ Stages[i] = "login" <=> i = 3
         /\ Stages[i] = "open" <=> i = 4
<1>1. i \in 1..15
  BY StageNumbers
<1>2. i = 1 \/ i = 2 \/ i = 3 \/ i = 4 \/ i = 5 \/ i = 6 \/ i = 7 \/ i = 8 \/ i = 9 \/ i = 10
      \/ i = 11 \/ i = 12 \/ i = 13 \/ i = 14 \/ i = 15
  BY <1>1
<1> QED BY <1>1, <1>2, StageNumbers

\* Each stage has one of the names.
LEMMA StageNames ==
  ASSUME NEW i \in DOMAIN Stages
  PROVE  Stages[i] \in
           {"clock", "check clock", "source", "login", "open", "check session", "check skew", "storage",
            "put", "get", "delete", "check public access", "check encryption", "crypto", "seal"}
<1>1. i \in 1..15
  BY StageNumbers
<1>2. i = 1 \/ i = 2 \/ i = 3 \/ i = 4 \/ i = 5 \/ i = 6 \/ i = 7 \/ i = 8 \/ i = 9 \/ i = 10
      \/ i = 11 \/ i = 12 \/ i = 13 \/ i = 14 \/ i = 15
  BY <1>1
<1> QED BY <1>2, StageNumbers

\* Who asks in which stage.
LEMMA PlanIs ==
  ASSUME NEW i \in DOMAIN Stages
  PROVE  /\ binary # "migrate" => (i \in Plan <=> Checked(Stages[i]))
         /\ binary = "migrate" /\ i \in Plan => i = 3 \/ Checked(Stages[i])
<1>1. i \in Plan <=> Wanted(Stages[i])
  BY DEF Plan
<1>2. ASSUME NEW s, s = Stages[i]
      PROVE  /\ binary # "migrate" => (Wanted(s) <=> Checked(s))
             /\ binary = "migrate" /\ Wanted(s) => s = "login" \/ Checked(s)
  <2>1. CASE s \in {"clock", "check clock"}
    BY <2>1 DEF Wanted, Checked
  <2>2. CASE s \in {"source", "login"}
    BY <2>2 DEF Wanted, Checked
  <2>3. CASE s \in {"open", "check session", "check skew"}
    BY <2>3 DEF Wanted, Checked
  <2>4. CASE s \in {"storage", "put", "get", "delete"}
    BY <2>4 DEF Wanted, Checked
  <2>5. CASE s \in {"check public access", "check encryption"}
    BY <2>5 DEF Wanted, Checked
  <2>6. CASE s \in {"crypto", "seal"}
    BY <2>6 DEF Wanted, Checked
  <2> QED BY <1>2, <2>1, <2>2, <2>3, <2>4, <2>5, <2>6, StageNames
<1>3. Stages[i] = "login" => i = 3
  BY StageIsNumber
<1> QED BY <1>1, <1>2, <1>3

\* Who writes the object also reads and removes it.
LEMMA PlanWhole == 12 \in Plan => {13, 14} \subseteq Plan
<1>0. {12, 13, 14} \subseteq 1..15
  OBVIOUS
<1>1. {12, 13, 14} \subseteq DOMAIN Stages
  BY <1>0, StageNumbers
<1>2. Wanted("put") => Wanted("get") /\ Wanted("delete")
  BY DEF Wanted
<1> QED BY <1>1, <1>2, StageNumbers DEF Plan

-----------------------------------------------------------------------------
\* What a document that a binary loads is like.
LEMMA LoadedIs ==
  ASSUME NEW b \in Binaries, NEW x \in BOOLEAN, Loads(b, doc, x)
  PROVE  /\ Parse(doc)
         /\ b = "migrate" => On(doc, "secrets") /\ On(doc, "postgres")
         /\ b = "api" => OriginsAccepted(doc)
<1>1. CASE b = "api"
  BY <1>1 DEF Loads, LoadAPI, LoadRuntime, ParseAPI
<1>2. CASE b = "preflight"
  BY <1>2 DEF Loads, LoadFoundation, LoadRuntime
<1>3. CASE b = "migrate"
  <2>1. LoadRuntime(doc, "migrate")
    BY <1>3 DEF Loads, LoadFoundation
  <2> QED BY <1>3, <2>1 DEF LoadRuntime
<1> QED BY <1>1, <1>2, <1>3 DEF Binaries

\* With a local key the secrets are files; capabilities come with theirs.
LEMMA ParsedIs ==
  ASSUME Parse(doc)
  PROVE  /\ On(doc, "postgres") => On(doc, "secrets")
         /\ On(doc, "kms") /\ LocalKey => On(doc, "secrets") /\ FileSecrets
<1>1. On(doc, "postgres") => On(doc, "secrets")
  BY DEF Parse, CapabilitiesCompatible
<1>2. ASSUME On(doc, "kms"), LocalKey
      PROVE  On(doc, "secrets") /\ FileSecrets
  <2>1. CryptoAccepted(doc)
    BY <1>2 DEF Parse
  <2>2. ~Managed(doc)
    BY <1>2, <2>1 DEF CryptoAccepted, LocalKey
  <2>3. On(doc, "secrets")
    BY <1>2, <2>2 DEF Parse, CapabilitiesCompatible
  <2>4. SecretsAccepted(doc)
    BY <2>3 DEF Parse
  <2> QED BY <2>2, <2>3, <2>4 DEF SecretsAccepted, FileSecrets
<1> QED BY <1>1, <1>2

\* What preflight loads, the binary of the document's role loads.
LEMMA RoleLoads ==
  ASSUME NEW x \in BOOLEAN, Loads("preflight", doc, x),
         NEW b \in Binaries, b \in {doc.top.runtime_role, "preflight"}
  PROVE  Loads(b, doc, x)
<1>1. LoadFoundation(doc, "", x)
  BY DEF Loads
<1>2. CASE b = "preflight"
  BY <1>2
<1>3. CASE b = "api" /\ doc.top.runtime_role = "api"
  <2>1. LoadRuntime(doc, "api") /\ ParseAPI(doc, x)
    BY <1>1, <1>3 DEF LoadFoundation, LoadRuntime
  <2> QED BY <1>3, <2>1 DEF Loads, LoadAPI
<1>4. CASE b = "migrate" /\ doc.top.runtime_role = "migrate"
  <2>1. LoadRuntime(doc, "migrate")
    BY <1>1, <1>4 DEF LoadFoundation, LoadRuntime
  <2>2. LoadFoundation(doc, "migrate", x)
    BY <2>1 DEF LoadFoundation
  <2> QED BY <1>4, <2>2 DEF Loads
<1> QED BY <1>2, <1>3, <1>4 DEF Binaries

\* No stage of a plan calls the nil source.
LEMMA NeverNil ==
  ASSUME IInv, pc = "building", NEW i \in DOMAIN Stages, i \in Plan
  PROVE  ~CallsNil(Stages[i])
<1>1. PICK x \in BOOLEAN : Loads(binary, doc, x)
  BY DEF IInv, Accepted
<1>2. /\ On(doc, "postgres") => On(doc, "secrets")
      /\ On(doc, "kms") /\ LocalKey => On(doc, "secrets")
      /\ binary = "migrate" => On(doc, "secrets")
  BY <1>1, LoadedIs, ParsedIs DEF IInv, TypeOK
<1>3. CASE binary = "migrate"
  BY <1>2, <1>3 DEF CallsNil
<1>4. CASE binary # "migrate"
  <2>1. Checked(Stages[i])
    BY <1>4, PlanIs
  <2>2. /\ Stages[i] # "login"
        /\ Stages[i] = "open" => On(doc, "postgres")
        /\ Stages[i] = "crypto" => On(doc, "kms")
    BY <2>1 DEF Checked
  <2> QED BY <1>2, <2>2 DEF CallsNil
<1> QED BY <1>3, <1>4

\* A vouched document's binary has the answers it asks for.
LEMMA VouchedAnswers ==
  ASSUME IInv, pc = "building", vouched = "yes", NEW i \in DOMAIN Stages, i \in Plan
  PROVE  Asked(Stages[i])
<1>1. \A j \in DOMAIN Stages : Checked(Stages[j]) => Asked(Stages[j])
  BY DEF IInv, Vouched
<1>2. CASE Checked(Stages[i])
  BY <1>1, <1>2
<1>3. CASE binary = "migrate" /\ i = 3
  <2>1. PICK x \in BOOLEAN : Loads(binary, doc, x)
    BY DEF IInv, Accepted
  <2>2. On(doc, "postgres")
    BY <1>3, <2>1, LoadedIs DEF IInv, TypeOK
  <2>0. 4 \in 1..15
    OBVIOUS
  <2>3. 4 \in DOMAIN Stages /\ Stages[4] = "open" /\ Stages[3] = "login"
    BY <2>0, StageNumbers
  <2>4. Checked("open")
    BY <2>2 DEF Checked
  <2>5. Asked("open")
    BY <1>1, <2>3, <2>4
  <2>6. Asks("open") = OpenDatabase /\ Asks("login") = OpenMigrationDatabase
    BY DEF Asks
  <2>7. OpenMigrationDatabase \subseteq OpenDatabase
    BY DEF OpenMigrationDatabase, OpenDatabase, DatabaseCheck
  <2> QED BY <1>3, <2>3, <2>5, <2>6, <2>7 DEF Asked
<1> QED BY <1>2, <1>3, PlanIs DEF IInv, TypeOK

\* The questions of Ping that preflight does not ask are those of PingOnly.
LEMMA PingIsAsked ==
  ASSUME IInv, vouched = "yes", \A f \in PingOnly : world[f]
  PROVE  \A f \in PingAsks : world[f]
<1>0. {1, 4, 5, 6, 8, 10} \subseteq 1..15
  OBVIOUS
<1>1. /\ Checked("clock") => Asked("clock")
      /\ Checked("open") => Asked("open")
      /\ Checked("storage") => Asked("storage")
      /\ Checked("crypto") => Asked("crypto")
      /\ Checked("check public access") => Asked("check public access")
  BY <1>0, StageNumbers DEF IInv, Vouched
<1>2. Parse(doc)
  <2>1. Loads("preflight", doc, world["key pair"])
    BY DEF IInv, Vouched
  <2>2. Parse(doc)
    BY <2>1 DEF Loads, LoadFoundation, LoadRuntime
  <2> QED BY <2>2
<1>3. \A f \in ClockHealth : world[f]
  BY <1>1 DEF Checked, Asked, Asks
<1>4. On(doc, "postgres") => \A f \in Connect : world[f]
  <2>1. On(doc, "postgres") => Asked("open")
    BY <1>1 DEF Checked
  <2>2. Asks("open") = OpenDatabase /\ Connect \subseteq OpenDatabase
    BY DEF Asks, OpenDatabase, DatabaseCheck
  <2> QED BY <2>1, <2>2 DEF Asked
<1>5. On(doc, "object_storage") /\ FileStorage => \A f \in FileProbe : world[f]
  <2>1. On(doc, "object_storage") => Asked("storage")
    BY <1>1 DEF Checked
  <2>2. Asks("storage") = BuildStorage /\ (FileStorage => "root" \in BuildStorage)
    BY DEF Asks, BuildStorage
  <2> QED BY <2>1, <2>2 DEF Asked, FileProbe, PingOnly
<1>6. On(doc, "object_storage") /\ ~FileStorage => \A f \in PublicAccessBlocked : world[f]
  <2>1. On(doc, "object_storage") /\ ~FileStorage => Asked("check public access")
    BY <1>1 DEF Checked
  <2>2. ~FileStorage => Asks("check public access") = PublicAccessBlocked
    BY DEF Asks, S3Check
  <2> QED BY <2>1, <2>2 DEF Asked
<1>7. On(doc, "kms") /\ LocalKey => \A f \in LocalCryptoProbe : world[f]
  <2>1. On(doc, "kms") => Asked("crypto")
    BY <1>1 DEF Checked
  <2>2. On(doc, "kms") /\ LocalKey => FileSecrets
    BY <1>2, ParsedIs
  <2>3. LocalKey => Asks("crypto") = ResolveBatch({"key file", "key value"}) \cup NewLocalCrypto
    BY DEF Asks, BuildCrypto
  <2>4. FileSecrets => LocalCryptoProbe \subseteq ResolveBatch({"key file", "key value"})
    BY DEF ResolveBatch, Resolve, LocalCryptoProbe
  <2> QED BY <2>1, <2>2, <2>3, <2>4 DEF Asked
<1>8. \A f \in AWSCryptoProbe : world[f]
  BY DEF AWSCryptoProbe, PingOnly
<1> QED BY <1>3, <1>4, <1>5, <1>6, <1>7, <1>8 DEF PingAsks

-----------------------------------------------------------------------------
\* Questions depend on the document, their answers on the world.
LEMMA SameQuestions ==
  ASSUME doc' = doc, world' = world, NEW stage
  PROVE  (Checked(stage)' <=> Checked(stage)) /\ (Asked(stage)' <=> Asked(stage))
<1>1. Asks(stage)' = Asks(stage)
  <2>1. (FileSecrets' <=> FileSecrets) /\ (FileStorage' <=> FileStorage) /\ (LocalKey' <=> LocalKey)
    BY DEF FileSecrets, FileStorage, LocalKey
  <2>2. ClockHealth' = ClockHealth /\ NewSource' = NewSource /\ BuildStorage' = BuildStorage
        /\ CryptoCheck' = CryptoCheck
    BY <2>1 DEF ClockHealth, NewSource, BuildStorage, CryptoCheck
  <2>3. OpenMigrationDatabase' = OpenMigrationDatabase /\ OpenDatabase' = OpenDatabase
        /\ BuildCrypto' = BuildCrypto
    BY <2>1 DEF OpenMigrationDatabase, OpenDatabase, BuildCrypto, ResolveBatch
  <2> QED BY <2>1, <2>2, <2>3 DEF Asks
<1>2. Checked(stage)' <=> Checked(stage)
  BY DEF Checked, FileStorage
<1> QED BY <1>1, <1>2 DEF Asked

\* The beginning.
LEMMA InitHolds == Init => IInv
<1> SUFFICES ASSUME Init PROVE IInv
  OBVIOUS
<1>1. TypeOK
  <2>1. todo \subseteq DOMAIN Stages /\ pc \in Resting
    BY DEF Init, Resting
  <2>2. starts \in 0..MaxStarts /\ mishaps \in 0..MaxMishaps
    BY StartsAssumption, MishapsAssumption DEF Init
  <2>3. world \in [Facts -> BOOLEAN]
    BY DEF Init
  <2> QED BY <2>1, <2>2, <2>3 DEF Init, TypeOK, Binaries
<1>2. Accepted /\ Planned /\ PoolClosed /\ Objects
  BY DEF Init, Accepted, NoNilSource, Planned, PoolClosed, Objects, ObjectRemoved
<1>3. Vouched
  BY DEF Init, Vouched, PreflightPredicts
<1> QED BY <1>1, <1>2, <1>3 DEF IInv

\* A process starts.
LEMMA StartKeeps ==
  ASSUME IInv, NEW b \in Binaries, Start(b)
  PROVE  IInv'
<1>1. TypeOK'
  <2>1. starts' \in 0..MaxStarts
    <3>1. starts \in 0..MaxStarts /\ starts < MaxStarts /\ starts' = starts + 1
      BY DEF IInv, TypeOK, Start
    <3> QED BY <3>1, StartsAssumption
  <2>2. pc' \in Resting \cup {"loaded"}
    BY DEF Start, Resting
  <2> QED BY <2>1, <2>2 DEF IInv, TypeOK, Start
<1>2. todo = {} /\ ~pool /\ todo' = {} /\ ~pool' /\ pc' \in {"loaded", "rejected"} /\ ~object'
  BY DEF IInv, TypeOK, Planned, PoolClosed, Start, Resting
<1>3. world["key pair"] \in BOOLEAN
  BY DEF IInv, TypeOK, Facts
<1>4. Accepted'
  BY <1>3 DEF Accepted, NoNilSource, Start
<1>5. Planned' /\ PoolClosed' /\ Objects'
  <2>1. 12 \notin todo' /\ todo' \subseteq Plan' /\ pc' # "serving" /\ ready' = "none" /\ pc' # "building"
    BY <1>2 DEF Start
  <2> QED BY <1>2, <2>1 DEF Planned, PoolClosed, Objects, ObjectRemoved
<1>6. vouched' = "yes" => vouched = "yes"
  BY DEF Start
<1>7. vouched' = "yes" =>
        /\ Loads("preflight", doc', world'["key pair"])
        /\ \A i \in DOMAIN Stages : Checked(Stages[i])' => Asked(Stages[i])'
  <2>1. doc' = doc /\ world' = world
    BY DEF Start
  <2>2. vouched = "yes" =>
          /\ Loads("preflight", doc, world["key pair"])
          /\ \A i \in DOMAIN Stages : Checked(Stages[i]) => Asked(Stages[i])
    BY DEF IInv, Vouched
  <2> QED BY <1>6, <2>1, <2>2, SameQuestions
<1>8. vouched' = "asking" /\ b = "preflight" /\ pc' = "loaded" => Loads("preflight", doc, world["key pair"])'
  BY DEF Start
<1>9. PreflightPredicts'
  <2> SUFFICES ASSUME vouched' = "yes", b \in {doc.top.runtime_role, "preflight"}
               PROVE  pc' = "loaded" /\ ready' = "none"
    BY <1>2 DEF PreflightPredicts, Start
  <2>1. Loads("preflight", doc, world["key pair"])
    BY <1>6 DEF IInv, Vouched
  <2>2. Loads(b, doc, world["key pair"])
    BY <1>3, <2>1, RoleLoads
  <2> QED BY <2>2 DEF Start
<1>10. Vouched'
  BY <1>2, <1>7, <1>8, <1>9 DEF Vouched, Start
<1> QED BY <1>1, <1>4, <1>5, <1>10 DEF IInv

\* A verdict outlives every step that changes neither it nor the world.
LEMMA VerdictStays ==
  ASSUME IInv, UNCHANGED <<doc, world, vouched>>
  PROVE  vouched' = "yes" =>
           /\ Loads("preflight", doc', world'["key pair"])
           /\ \A i \in DOMAIN Stages : Checked(Stages[i])' => Asked(Stages[i])'
<1>1. vouched = "yes" =>
        /\ Loads("preflight", doc, world["key pair"])
        /\ \A i \in DOMAIN Stages : Checked(Stages[i]) => Asked(Stages[i])
  BY DEF IInv, Vouched
<1> QED BY <1>1, SameQuestions

\* So does a plan.
LEMMA PlanStays ==
  ASSUME UNCHANGED <<doc, binary>>
  PROVE  Plan' = Plan
<1>1. \A i \in DOMAIN Stages : Wanted(Stages[i])' <=> Wanted(Stages[i])
  BY DEF Wanted, FileStorage
<1> QED BY <1>1 DEF Plan

\* Build begins.
LEMMA BuildKeeps ==
  ASSUME IInv, Build
  PROVE  IInv'
<1>1. todo' = Plan /\ Plan' = Plan /\ Plan \subseteq DOMAIN Stages /\ pc = "loaded" /\ pc' = "building"
  BY PlanStays DEF Build, Plan
<1>2. ~object /\ ~pool /\ object' = object /\ pool' = pool
  BY <1>1 DEF IInv, Objects, PoolClosed, Build, TypeOK, Resting
<1>3. TypeOK'
  BY <1>1 DEF IInv, TypeOK, Build
<1>4. Accepted'
  BY <1>1 DEF IInv, Accepted, NoNilSource, Build
<1>5. Planned' /\ PoolClosed' /\ Objects'
  BY <1>1, <1>2, PlanWhole DEF IInv, Planned, PoolClosed, Objects, ObjectRemoved, Build
<1>6. Vouched'
  BY <1>1, VerdictStays DEF IInv, Vouched, PreflightPredicts, Build
<1> QED BY <1>3, <1>4, <1>5, <1>6 DEF IInv

\* A plan opens the pool once.
LEMMA OpensOnce == ~({3, 4} \subseteq Plan)
BY DEF Plan, Stages, Wanted

\* A stage succeeds.
LEMMA AdvanceKeeps ==
  ASSUME IInv, NEW i \in DOMAIN Stages, At(i), Asked(Stages[i]),
         NEW opened \in BOOLEAN, NEW left \in BOOLEAN,
         left => i = 12 \/ (object /\ i # 14), opened => pool \/ i \in {3, 4},
         Advance(i, opened, left)
  PROVE  IInv'
<1>1. /\ pc = "building" /\ pc' = "building" /\ i \in todo /\ \A j \in todo : i <= j
      /\ todo' = todo \ {i} /\ todo \subseteq 1..15 /\ Plan' = Plan
  BY StageNumbers, PlanStays DEF At, Advance, IInv, TypeOK
<1>2. TypeOK'
  BY <1>1 DEF IInv, TypeOK, Advance
<1>3. Accepted'
  BY DEF IInv, Accepted, NoNilSource, Advance
<1>4. Planned' /\ PoolClosed'
  <2>1. opened => \A j \in todo' : j > 4
    <3>1. CASE pool
      BY <1>1, <3>1 DEF IInv, Planned
    <3>2. CASE i \in {3, 4}
      BY <1>1, <3>2, OpensOnce DEF IInv, Planned
    <3> QED BY <3>1, <3>2
  <2> QED BY <1>1, <2>1 DEF IInv, Planned, PoolClosed, Advance
<1>5. Objects'
  <2>1. 12 \in todo' => {13, 14} \subseteq todo'
    BY <1>1 DEF IInv, Objects
  <2>2. object' => 14 \in todo' /\ \A j \in todo' : j > 12
    BY <1>1 DEF IInv, Objects, Advance
  <2> QED BY <1>1, <2>1, <2>2 DEF IInv, TypeOK, Objects, ObjectRemoved, Resting
<1>6. vouched = "asking" /\ binary = "preflight" => \A j \in Plan \ todo' : Asked(Stages[j])'
  <2>1. vouched = "asking" /\ binary = "preflight" => \A j \in Plan \ todo : Asked(Stages[j])
    BY <1>1 DEF IInv, Vouched
  <2>2. doc' = doc /\ world' = world
    BY DEF Advance
  <2> QED BY <1>1, <2>1, <2>2, SameQuestions
<1>7. PreflightPredicts'
  BY <1>1 DEF IInv, Vouched, PreflightPredicts, Advance
<1>8. Vouched'
  BY <1>1, <1>6, <1>7, VerdictStays DEF IInv, Vouched, Advance
<1> QED BY <1>2, <1>3, <1>4, <1>5, <1>8 DEF IInv

\* What Fail has in common wherever it is called: no object is left behind
\* without an excuse.
Failed(i) ==
  /\ todo' = {} /\ pool' = FALSE
  /\ pc' = IF CallsNil(Stages[i]) THEN "panic" ELSE "failed"
  /\ object' \in BOOLEAN /\ excused' \in BOOLEAN
  /\ object' => excused' \/ (object /\ i \notin {13, 14})
  /\ UNCHANGED <<doc, world, binary, cancelled, ready, vouched, starts, mishaps>>

\* A stage fails.
LEMMA FailKeeps ==
  ASSUME IInv, NEW i \in DOMAIN Stages, At(i), ~Succeeds(Stages[i]), Failed(i)
  PROVE  IInv'
<1>1. pc = "building" /\ i \in todo /\ i \in Plan /\ \A j \in todo : i <= j
  BY DEF At, IInv, Planned
<1>2. ~CallsNil(Stages[i])
  BY <1>1, NeverNil
<1>3. pc' = "failed" /\ todo' = {} /\ ~pool'
  BY <1>2 DEF Failed
<1>4. TypeOK'
  BY <1>3 DEF IInv, TypeOK, Failed, Resting
<1>5. Accepted'
  BY <1>1, <1>3 DEF IInv, Accepted, NoNilSource, Failed
<1>6. Planned' /\ PoolClosed'
  BY <1>3 DEF IInv, Planned, PoolClosed, Failed
<1>7. Objects'
  <2>1. object => 14 \in todo /\ i > 12
    BY <1>1 DEF IInv, Objects
  <2>2. i \in 1..15
    BY StageNumbers
  <2>3. object => i \in {13, 14}
    BY <1>1, <2>1, <2>2
  <2>4. object' => excused'
    BY <2>3 DEF Failed
  <2> QED BY <1>3, <2>4 DEF Objects, ObjectRemoved, Resting
<1>8. vouched = "yes" => cancelled
  BY <1>1, <1>2, VouchedAnswers DEF Succeeds, Asked
<1>9. PreflightPredicts'
  BY <1>3, <1>8 DEF IInv, Vouched, PreflightPredicts, Failed
<1>10. Vouched'
  BY <1>3, <1>9, VerdictStays DEF Vouched, Failed
<1> QED BY <1>4, <1>5, <1>6, <1>7, <1>10 DEF IInv

\* What a stage that succeeds has asked.
LEMMA SucceedsAsked ==
  ASSUME NEW stage, Succeeds(stage)
  PROVE  Asked(stage)
BY DEF Succeeds, Asked

\* Removal fails for no reason of the process's own.
LEMMA RemovalIsRefused == ~Cleans => Refused
<1>1. Unbounded("delete") /\ ~CallsNil("delete")
  BY DEF Unbounded, CallsNil
<1> QED BY <1>1 DEF Cleans, Refused, Succeeds

\* Whatever stage fails, no pool is left open.
LEMMA FailCloses ==
  ASSUME IInv, NEW i \in DOMAIN Stages, At(i), NEW left, NEW excuse, Fail(i, left, excuse)
  PROVE  pool' = FALSE
<1>1. i \in 1..15 /\ pool \in BOOLEAN /\ (pool => i > 4)
  BY StageNumbers DEF At, IInv, Planned, TypeOK
<1>2. i > 4 => ClosesPool(Stages[i])
  <2>1. i > 4 => i \in {5, 6, 7, 8, 9, 10, 11, 12, 13, 14, 15}
    BY <1>1
  <2>2. \A k \in {5, 6, 7, 8, 9, 10, 11, 12, 13, 14, 15} :
          Stages[k] \notin {"clock", "source", "login", "open"}
    BY StageNumbers
  <2> QED BY <2>1, <2>2 DEF ClosesPool
<1>3. ~(pool /\ ~ClosesPool(Stages[i]) /\ ~CallsNil(Stages[i]))
  BY <1>1, <1>2
<1>4. pool' = (pool /\ ~ClosesPool(Stages[i]) /\ ~CallsNil(Stages[i]))
  BY DEF Fail
<1> QED BY <1>3, <1>4, Zenon

\* One stage.
LEMMA StageKeeps ==
  ASSUME IInv, NEW i \in DOMAIN Stages, Stage(i)
  PROVE  IInv'
<1>0. pool \in BOOLEAN /\ object \in BOOLEAN
  BY DEF IInv, TypeOK
<1>1. CASE Ask(i)
  <2>1. At(i) /\ i \notin {13, 14}
    BY <1>1, StageIsNumber DEF Ask
  <2>2. CASE Succeeds(Stages[i])
    <3>1. Advance(i, pool, object)
      BY <1>1, <2>2 DEF Ask
    <3> QED BY <1>0, <2>1, <2>2, <3>1, AdvanceKeeps, SucceedsAsked
  <2>3. CASE ~Succeeds(Stages[i])
    <3>1. Fail(i, object, FALSE)
      BY <1>1, <2>3 DEF Ask
    <3>2. Failed(i)
      BY <1>0, <2>1, <3>1, FailCloses DEF Fail, Failed
    <3> QED BY <2>1, <2>3, <3>2, FailKeeps
  <2> QED BY <2>2, <2>3
<1>2. CASE Open(i)
  <2>1. At(i) /\ i \notin {13, 14} /\ i \in {3, 4}
    BY <1>2, StageIsNumber DEF Open
  <2>2. CASE Succeeds(Stages[i])
    <3>1. Advance(i, TRUE, object)
      BY <1>2, <2>2 DEF Open
    <3> QED BY <1>0, <2>1, <2>2, <3>1, AdvanceKeeps, SucceedsAsked
  <2>3. CASE ~Succeeds(Stages[i])
    <3>1. Fail(i, object, FALSE)
      BY <1>2, <2>3 DEF Open
    <3>2. Failed(i)
      BY <1>0, <2>1, <3>1, FailCloses DEF Fail, Failed
    <3> QED BY <2>1, <2>3, <3>2, FailKeeps
  <2> QED BY <2>2, <2>3
<1>3. CASE Put(i)
  <2>1. At(i) /\ Stages[i] = "put" /\ i = 12
    BY <1>3, StageIsNumber DEF Put
  <2>0. At(i)
    BY <2>1
  <2>2. CASE Succeeds("put")
    <3>1. Advance(i, pool, TRUE)
      BY <1>3, <2>2 DEF Put
    <3>2. Asked(Stages[i])
      BY <2>1, <2>2, SucceedsAsked
    <3>3. i = 12 \/ (object /\ i # 14)
      BY <2>1
    <3> QED BY <1>0, <2>0, <3>1, <3>2, <3>3, AdvanceKeeps
  <2>3. CASE ~Succeeds("put")
    <3>0. Fail(i, object, FALSE)
      BY <1>3, <2>3 DEF Put
    <3>1. Failed(i)
      <4>1. pool' = FALSE
        BY <2>0, <3>0, FailCloses
      <4> QED BY <1>0, <2>1, <3>0, <4>1 DEF Fail, Failed
    <3>2. ~Succeeds(Stages[i])
      BY <2>1, <2>3
    <3> QED BY <2>0, <3>1, <3>2, FailKeeps
  <2> QED BY <2>2, <2>3
<1>4. CASE Get(i)
  <2>1. At(i) /\ Stages[i] = "get" /\ i = 13
    BY <1>4, StageIsNumber DEF Get
  <2>0. At(i)
    BY <2>1
  <2>2. CASE Succeeds("get")
    <3>1. Advance(i, pool, object)
      BY <1>4, <2>2 DEF Get
    <3>2. Asked(Stages[i])
      BY <2>1, <2>2, SucceedsAsked
    <3>3. i # 14
      BY <2>1
    <3> QED BY <1>0, <2>0, <3>1, <3>2, <3>3, AdvanceKeeps
  <2>3. CASE ~Succeeds("get")
    <3>1. Fail(i, ~Cleans, Refused)
      BY <1>4, <2>3 DEF Get
    <3>2. object' \in BOOLEAN /\ excused' \in BOOLEAN /\ (object' => excused')
      <4>1. object' = (~Cleans) /\ excused' = (excused \/ Refused)
        BY <3>1 DEF Fail
      <4>2. object' \in {TRUE, FALSE} /\ (object' => ~Cleans)
        BY <4>1, Zenon
      <4>3. excused' \in {TRUE, FALSE} /\ (Refused => excused')
        BY <4>1, Zenon
      <4> QED BY <4>2, <4>3, RemovalIsRefused
    <3>3. /\ todo' = {}
          /\ pc' = IF CallsNil(Stages[i]) THEN "panic" ELSE "failed"
          /\ UNCHANGED <<doc, world, binary, cancelled, ready, vouched, starts, mishaps>>
      BY <3>1, Zenon DEF Fail
    <3>4. Failed(i)
      BY <2>0, <3>1, <3>2, <3>3, FailCloses DEF Failed
    <3>5. ~Succeeds(Stages[i])
      BY <2>1, <2>3
    <3> QED BY <2>0, <3>4, <3>5, FailKeeps
  <2> QED BY <2>2, <2>3
<1>5. CASE Delete(i)
  <2>1. At(i) /\ Stages[i] = "delete" /\ i = 14
    BY <1>5, StageIsNumber DEF Delete
  <2>0. At(i)
    BY <2>1
  <2>2. CASE Cleans
    <3>1. Advance(i, pool, FALSE) /\ Succeeds("delete")
      BY <1>5, <2>2 DEF Delete, Cleans
    <3>2. Asked(Stages[i])
      BY <2>1, <3>1, SucceedsAsked
    <3> QED BY <1>0, <2>0, <3>1, <3>2, AdvanceKeeps
  <2>3. CASE ~Cleans
    <3>1. Fail(i, TRUE, Refused) /\ ~Succeeds("delete")
      BY <1>5, <2>3 DEF Delete, Cleans
    <3>2. object' \in BOOLEAN /\ excused' \in BOOLEAN /\ excused'
      <4>1. object' = TRUE /\ excused' = (excused \/ Refused)
        BY <3>1 DEF Fail
      <4>2. excused' \in {TRUE, FALSE} /\ (Refused => excused')
        BY <4>1, Zenon
      <4> QED BY <2>3, <4>1, <4>2, RemovalIsRefused
    <3>3. /\ todo' = {}
          /\ pc' = IF CallsNil(Stages[i]) THEN "panic" ELSE "failed"
          /\ UNCHANGED <<doc, world, binary, cancelled, ready, vouched, starts, mishaps>>
      BY <3>1, Zenon DEF Fail
    <3>4. Failed(i)
      BY <2>0, <3>1, <3>2, <3>3, FailCloses DEF Failed
    <3>5. ~Succeeds(Stages[i])
      BY <2>1, <3>1
    <3> QED BY <2>0, <3>4, <3>5, FailKeeps
  <2> QED BY <2>2, <2>3
<1> QED BY <1>1, <1>2, <1>3, <1>4, <1>5 DEF Stage

\* The answer to the write is lost.
LEMMA PutUnansweredKeeps ==
  ASSUME IInv, NEW i \in DOMAIN Stages, PutUnanswered(i)
  PROVE  IInv'
<1>1. mishaps' \in 0..MaxMishaps
  BY MishapsAssumption DEF IInv, TypeOK, PutUnanswered
<1>2. pc = "building" /\ pc' = "failed" /\ todo' = {} /\ ~pool' /\ excused'
  BY DEF PutUnanswered, At, ClosesPool
<1>3. TypeOK'
  BY <1>1, <1>2 DEF IInv, TypeOK, PutUnanswered, Resting
<1>4. Accepted'
  BY <1>2 DEF IInv, Accepted, NoNilSource, PutUnanswered
<1>5. Planned' /\ PoolClosed' /\ Objects'
  BY <1>2 DEF IInv, Planned, PoolClosed, Objects, ObjectRemoved, PutUnanswered, Resting
<1>6. Vouched'
  BY <1>2, VerdictStays DEF IInv, Vouched, PreflightPredicts, PutUnanswered
<1> QED BY <1>3, <1>4, <1>5, <1>6 DEF IInv

\* Build returns.
LEMMA BuiltKeeps ==
  ASSUME IInv, Built
  PROVE  IInv'
<1>1. /\ pc = "building" /\ todo = {} /\ todo' = {} /\ pc' \in {"serving", "safe", "migrating"}
      /\ pc' = "serving" => binary = "api"
      /\ pc' = "safe" => binary = "preflight"
  BY DEF Built, IInv, TypeOK, Binaries
<1>2. ~object /\ ~object'
  BY <1>1 DEF IInv, Objects, Built, TypeOK
<1>3. TypeOK'
  BY <1>1 DEF IInv, TypeOK, Built, Resting
<1>4. Accepted'
  BY <1>1 DEF IInv, Accepted, NoNilSource, Built
<1>5. Planned' /\ Objects'
  BY <1>1, <1>2 DEF IInv, Planned, Objects, ObjectRemoved, Built
<1>6. PoolClosed'
  BY <1>1 DEF IInv, TypeOK, Binaries, PoolClosed, Built
<1>7. ASSUME vouched' = "yes"
      PROVE  /\ Loads("preflight", doc', world'["key pair"])
             /\ \A i \in DOMAIN Stages : Checked(Stages[i])' => Asked(Stages[i])'
  <2>1. doc' = doc /\ world' = world
    BY DEF Built
  <2>2. CASE vouched = "yes"
    BY <1>7, <2>1, <2>2, VerdictStays DEF Built
  <2>3. CASE vouched = "asking" /\ binary = "preflight"
    <3>1. /\ Loads("preflight", doc, world["key pair"])
          /\ \A i \in Plan : Asked(Stages[i])
      BY <1>1, <2>3 DEF IInv, Vouched
    <3>2. \A i \in DOMAIN Stages : Checked(Stages[i]) => Asked(Stages[i])
      BY <2>3, <3>1, PlanIs
    <3> QED BY <2>1, <3>1, <3>2, SameQuestions
  <2> QED BY <1>7, <2>2, <2>3 DEF Built
<1>8. vouched' = "yes" => vouched = "yes" \/ binary = "preflight"
  BY DEF Built
<1>9. PreflightPredicts'
  BY <1>1, <1>8 DEF IInv, Planned, Vouched, PreflightPredicts, Built
<1>10. Vouched'
  BY <1>1, <1>7, <1>9 DEF Vouched
<1> QED BY <1>3, <1>4, <1>5, <1>6, <1>10 DEF IInv

\* Ping answers.
LEMMA PingKeeps ==
  ASSUME IInv, Ping
  PROVE  IInv'
<1>1. pc = "serving" /\ binary = "api"
  BY DEF Ping, IInv, Planned
<1>2. vouched = "yes" /\ (\A f \in PingOnly : world[f]) => ready' = "yes"
  BY PingIsAsked DEF Ping
<1>3. TypeOK' /\ Accepted' /\ PoolClosed' /\ Objects'
  BY DEF IInv, TypeOK, Accepted, NoNilSource, PoolClosed, Objects, ObjectRemoved, Ping
<1>4. Planned'
  BY <1>1, PlanStays DEF IInv, Planned, Ping
<1>5. PreflightPredicts'
  BY <1>1, <1>2 DEF PreflightPredicts, Ping
<1>6. Vouched'
  BY <1>1, <1>5, VerdictStays DEF Vouched, Ping
<1> QED BY <1>3, <1>4, <1>6 DEF IInv

\* A process ends, is cancelled or killed.
LEMMA EndKeeps ==
  ASSUME IInv, Stop \/ Cancel \/ Crash
  PROVE  IInv'
<1>1. CASE Stop
  <2>1. ~object /\ pc' = "stopped" /\ ~pool' /\ todo = {} /\ todo' = {}
    BY <1>1 DEF IInv, Objects, Planned, Stop, Resting
  <2>2. TypeOK' /\ Accepted' /\ Planned' /\ PoolClosed'
    BY <1>1, <2>1 DEF IInv, TypeOK, Accepted, NoNilSource, Planned, PoolClosed, Stop, Resting
  <2>3. Objects'
    BY <1>1, <2>1 DEF Objects, ObjectRemoved, Stop
  <2>4. Vouched'
    BY <1>1, <2>1, VerdictStays DEF IInv, Vouched, PreflightPredicts, Stop
  <2> QED BY <2>2, <2>3, <2>4 DEF IInv
<1>2. CASE Cancel
  <2>1. mishaps' \in 0..MaxMishaps
    BY <1>2, MishapsAssumption DEF IInv, TypeOK, Cancel, Mishap
  <2>2. TypeOK' /\ Accepted' /\ PoolClosed' /\ Objects'
    BY <1>2, <2>1 DEF IInv, TypeOK, Accepted, NoNilSource, PoolClosed, Objects, ObjectRemoved, Cancel
  <2>3. Plan' = Plan
    BY <1>2, PlanStays DEF Cancel
  <2>4. Planned'
    BY <1>2, <2>3 DEF IInv, Planned, Cancel
  <2>5. doc' = doc /\ world' = world
    BY <1>2 DEF Cancel
  <2>6. Vouched'
    BY <1>2, <2>3, <2>5, VerdictStays, SameQuestions DEF IInv, Vouched, PreflightPredicts, Cancel
  <2> QED BY <2>2, <2>4, <2>6 DEF IInv
<1>3. CASE Crash
  <2>1. mishaps' \in 0..MaxMishaps
    BY <1>3, MishapsAssumption DEF IInv, TypeOK, Crash, Mishap
  <2>2. pc' = "crashed" /\ ~pool' /\ todo' = {} /\ excused' /\ pc \notin {"off", "rejected"}
    BY <1>3 DEF Crash, Resting
  <2>3. TypeOK' /\ Accepted'
    BY <1>3, <2>1, <2>2 DEF IInv, TypeOK, Accepted, NoNilSource, Crash, Resting
  <2>4. Planned' /\ PoolClosed' /\ Objects'
    BY <1>3, <2>2 DEF IInv, Planned, PoolClosed, Objects, ObjectRemoved, Crash, Resting
  <2>5. Vouched'
    BY <1>3, <2>2, VerdictStays DEF IInv, Vouched, PreflightPredicts, Crash
  <2> QED BY <2>3, <2>4, <2>5 DEF IInv
<1> QED BY <1>1, <1>2, <1>3

\* The world changes, and with it goes every verdict.
LEMMA ChangeKeeps ==
  ASSUME IInv, NEW g \in Facts, Change(g)
  PROVE  IInv'
<1>1. mishaps' \in 0..MaxMishaps /\ world' \in [Facts -> BOOLEAN] /\ vouched' = "no"
  BY MishapsAssumption DEF IInv, TypeOK, Change, Mishap
<1>2. TypeOK' /\ Accepted' /\ PoolClosed' /\ Objects'
  BY <1>1 DEF IInv, TypeOK, Accepted, NoNilSource, PoolClosed, Objects, ObjectRemoved, Change
<1>3. Planned'
  BY PlanStays DEF IInv, Planned, Change
<1>4. Vouched'
  BY <1>1 DEF Vouched, PreflightPredicts
<1> QED BY <1>2, <1>3, <1>4 DEF IInv

LEMMA NextKeeps == IInv /\ [Next]_vars => IInv'
<1> SUFFICES ASSUME IInv, [Next]_vars PROVE IInv'
  OBVIOUS
<1>1. CASE UNCHANGED vars
  <2>1. UNCHANGED <<doc, world, binary, vouched>> /\ Plan' = Plan
    BY <1>1, PlanStays DEF vars
  <2>2. TypeOK' /\ Accepted' /\ Planned' /\ PoolClosed' /\ Objects'
    BY <1>1, <2>1 DEF IInv, TypeOK, Accepted, NoNilSource, Planned, PoolClosed, Objects, ObjectRemoved, vars
  <2>3. Vouched'
    BY <1>1, <2>1, VerdictStays, SameQuestions DEF IInv, Vouched, PreflightPredicts, vars
  <2> QED BY <2>2, <2>3 DEF IInv
<1>2. CASE Next
  BY <1>2, StartKeeps, BuildKeeps, BuiltKeeps, StageKeeps, PutUnansweredKeeps, PingKeeps, EndKeeps,
     ChangeKeeps DEF Next, Step
<1> QED BY <1>1, <1>2

\* Every state of the processes satisfies the invariant.
LEMMA Invariance == Spec => []IInv
<1>1. Init => IInv
  BY InitHolds
<1>2. IInv /\ [Next]_vars => IInv'
  BY NextKeeps
<1> QED BY <1>1, <1>2, PTL DEF Spec

-----------------------------------------------------------------------------
\* The variables keep their types.
THEOREM TypeCorrect == Spec => []TypeOK
<1>1. IInv => TypeOK
  BY DEF IInv
<1> QED BY <1>1, Invariance, PTL

\* No accepted document leads to a call on the nil secret source.
THEOREM SourceIsThere == Spec => []NoNilSource
<1>1. IInv => NoNilSource
  BY DEF IInv, Accepted
<1> QED BY <1>1, Invariance, PTL

\* Production runs with managed services only, whatever document it is given.
THEOREM ProductionIsSafe == Spec => []ProductionIsManaged
<1>1. IInv => ProductionIsManaged
  <2> SUFFICES ASSUME IInv, pc \notin {"off", "rejected"}, doc.top.environment = "production"
               PROVE  ProductionIsManaged
    BY DEF ProductionIsManaged
  <2>1. PICK x \in BOOLEAN : Loads(binary, doc, x)
    BY DEF IInv, Accepted
  <2>2. Parse(doc) /\ (binary = "api" => OriginsAccepted(doc))
    BY <2>1, LoadedIs DEF IInv, TypeOK
  <2>3. Managed(doc) /\ ~On(doc, "architecture_probe")
    BY <2>2 DEF Parse, ModeAccepted, CapabilitiesCompatible
  <2>4. doc.time.provider = "linux"
    BY <2>2, <2>3 DEF Parse, TimeAccepted
  <2>5. On(doc, "secrets") => ~FileSecrets /\ doc.secrets.aws_region = doc.top.aws_region
    BY <2>2, <2>3 DEF Parse, SecretsAccepted, FileSecrets
  <2>6. On(doc, "postgres") => doc.postgres.tls_mode = "verify-full"
    BY <2>2, <2>3 DEF Parse, DatabaseAccepted
  <2>7. On(doc, "object_storage") =>
          /\ ~FileStorage
          /\ doc.object_storage.kms_key_arn.region = doc.top.aws_region
          /\ doc.object_storage.kms_key_arn.account = doc.object_storage.expected_owner
    BY <2>2, <2>3 DEF Parse, StorageAccepted, FileStorage, KeyIn
  <2>8. On(doc, "kms") => ~LocalKey /\ doc.kms.kms_key_arn.region = doc.top.aws_region
    BY <2>2, <2>3 DEF Parse, CryptoAccepted, LocalKey, KeyIn
  <2>9. binary = "api" => doc.server.allowed_origins # "http"
    BY <2>2 DEF OriginsAccepted
  <2> QED BY <2>3, <2>4, <2>5, <2>6, <2>7, <2>8, <2>9 DEF ProductionIsManaged
<1> QED BY <1>1, Invariance, PTL

\* A process that has ended has closed its pool, and has removed its object
\* whenever it could.
THEOREM ProcessesCleanUp == Spec => []NothingLeftBehind
<1>1. IInv => NothingLeftBehind
  BY DEF IInv, Objects, NothingLeftBehind
<1> QED BY <1>1, Invariance, PTL

\* What preflight has passed, loads, builds and is ready.
THEOREM PreflightIsRight == Spec => []PreflightPredicts
<1>1. IInv => PreflightPredicts
  BY DEF IInv, Vouched
<1> QED BY <1>1, Invariance, PTL
=============================================================================
