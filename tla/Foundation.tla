----------------------------- MODULE Foundation -----------------------------
(***************************************************************************)
(* The life of a Go process from its configuration to its end: it loads    *)
(* the document, builds its foundation one dependency after the other      *)
(* (bootstrap.Build), and then serves (cmd/api), reports (cmd/preflight)   *)
(* or migrates (cmd/migrate).  Processes follow one another over one       *)
(* document and one world.                                                 *)
(*                                                                         *)
(* The world is what a dependency finds when it is asked; a fact is TRUE   *)
(* while the question is answered as the code wants it.  Facts change at   *)
(* any time, the process may be cancelled (a signal, or the timeout of     *)
(* Check) or die between two requests, and the answer to the write of the  *)
(* preflight object may be lost.                                           *)
(***************************************************************************)
EXTENDS Config, Sequences

CONSTANTS Documents,    \* the documents that may be deployed
          MaxStarts,    \* bound on the number of processes
          MaxMishaps    \* bound on changes, cancellations, deaths, losses

ASSUME StartsAssumption == MaxStarts \in Nat
ASSUME MishapsAssumption == MaxMishaps \in Nat

VARIABLES doc,        \* the document
          world,      \* the facts that hold
          binary,     \* the command that runs
          pc,         \* where it is in its main function
          todo,       \* stages of Build, or of OpenMigrationDatabase, ahead
          pool,       \* whether its database pool is open
          object,     \* whether its preflight object exists
          excused,    \* the object's write or removal went wrong outside
          cancelled,  \* its context has ended
          ready,      \* the last answer of Ping: "none", "yes" or "no"
          vouched,    \* "yes": preflight passed and nothing changed since it began
          starts, mishaps

vars == <<doc, world, binary, pc, todo, pool, object, excused, cancelled,
          ready, vouched, starts, mishaps>>

Binaries == {"api", "preflight", "migrate"}
Facts == {"kernel time", "kernel error", "identity", "infisical", "token",
          "secret directory", "password", "key file", "key value", "key bytes",
          "database", "set role", "timezone", "session", "schema row",
          "schema supported", "clock skew", "root", "root mode", "writable",
          "disk", "public access", "bucket key", "write", "read", "remove",
          "encrypt", "decrypt", "context", "key enabled", "key pair"}
Resting == {"off", "rejected", "failed", "safe", "stopped", "crashed",
            "panic"}

FileSecrets  == doc.secrets.provider = "file"
FileStorage  == doc.object_storage.provider = "filesystem"
LocalKey     == doc.kms.provider = "local"

(***************************************************************************)
(* The stages of Build, in order: the constructors and then Check.  The    *)
(* migrate command only resolves its password and logs in.                 *)
(***************************************************************************)
Stages == <<"clock", "source", "login", "open", "storage", "crypto",
            "check clock", "check session", "check skew",
            "check public access", "check encryption",
            "put", "get", "delete", "seal">>

WantedUnchecked(stage) ==    \* seeded defect
    CASE stage \in {"clock", "check clock"} -> binary # "migrate"
      [] stage = "source" -> On(doc, "secrets")
      [] stage = "login"  -> binary = "migrate"
      [] stage \in {"open", "check session", "check skew"} ->
            binary # "migrate" /\ On(doc, "postgres")
      [] stage \in {"storage", "put", "get", "delete"} ->
            binary # "migrate" /\ On(doc, "object_storage")
      [] stage \in {"check public access", "check encryption"} -> FALSE
      [] stage \in {"crypto", "seal"} -> binary # "migrate" /\ On(doc, "kms")

Wanted(stage) ==
    CASE stage \in {"clock", "check clock"} -> binary # "migrate"
      [] stage = "source" -> On(doc, "secrets")
      [] stage = "login"  -> binary = "migrate"
      [] stage \in {"open", "check session", "check skew"} ->
            binary # "migrate" /\ On(doc, "postgres")
      [] stage \in {"storage", "put", "get", "delete"} ->
            binary # "migrate" /\ On(doc, "object_storage")
      [] stage \in {"check public access", "check encryption"} ->
            binary # "migrate" /\ On(doc, "object_storage") /\ ~FileStorage
      [] stage \in {"crypto", "seal"} -> binary # "migrate" /\ On(doc, "kms")

Plan == {i \in DOMAIN Stages : Wanted(Stages[i])}

(***************************************************************************)
(* What the adapters ask of the world, by the functions that ask.          *)
(***************************************************************************)
\* adjtimex answers that the clock is synchronized, and within its bound.
ClockHealth ==
    IF doc.time.provider = "linux" THEN {"kernel time", "kernel error"} ELSE {}

\* Credentials can be retrieved and have a safe source.
LoadConfig == {"identity"}

NewSource == IF FileSecrets THEN {"secret directory"} ELSE LoadConfig

\* doJSON: an answer of status 2xx that is one short document.
Answered == {"infisical"}

\* STS signs for the identity, and Infisical gives it a token.
Login == {"identity", "token"} \cup Answered

\* The secret is there and not empty.
Read(ref) == Answered \cup {ref}

\* A regular and private file below the root, not empty and not too long.
Resolve(refs) == {"secret directory"} \cup refs

ResolveBatch(refs) ==
    IF FileSecrets THEN Resolve(refs) ELSE Login \cup UNION {Read(r) : r \in refs}

\* A new session: TLS, password, time zone, search path and role.
Connect == {"database", "set role"}

DatabaseCheck ==
    Connect \cup {"timezone", "session", "schema row", "schema supported"}

OpenDatabase == ResolveBatch({"password"}) \cup DatabaseCheck
OpenMigrationDatabase == ResolveBatch({"password"}) \cup Connect
CheckClock == Connect \cup {"clock skew"}

BuildStorage == IF FileStorage THEN {"root"} ELSE LoadConfig

\* A local key is 32 bytes in base64.
NewLocalCrypto == {"key bytes"}

\* NewAWSCrypto asks nothing.
BuildCrypto ==
    IF LocalKey THEN ResolveBatch({"key file", "key value"}) \cup NewLocalCrypto
    ELSE LoadConfig

\* seal and open: Decrypt gives back the encryption context it was given.
SealAndOpen == {"encrypt", "decrypt", "context"}
CryptoCheck == IF LocalKey THEN {} ELSE SealAndOpen

FileCheck(stage) == IF stage = "get" THEN {"disk"} ELSE {"root", "writable"}

PublicAccessBlocked == {"public access"}
UsesKMSKey == {"bucket key"}

S3Check(stage) ==
    CASE stage = "check public access" -> PublicAccessBlocked
      [] stage = "check encryption"    -> UsesKMSKey
      [] stage = "put"    -> {"write"}
      [] stage = "get"    -> {"read"}
      [] stage = "delete" -> {"remove"}

Asks(stage) ==
    CASE stage \in {"clock", "check clock"} -> ClockHealth
      [] stage = "source"  -> NewSource
      [] stage = "login"   -> OpenMigrationDatabase
      [] stage = "open"    -> OpenDatabase
      [] stage = "storage" -> BuildStorage
      [] stage = "crypto"  -> BuildCrypto
      [] stage = "check session" -> DatabaseCheck
      [] stage = "check skew"    -> CheckClock
      [] stage = "seal"    -> CryptoCheck
      [] OTHER -> IF FileStorage THEN FileCheck(stage) ELSE S3Check(stage)

UnboundedExceptDelete(stage) ==    \* seeded defect
    \/ (stage = "source" /\ FileSecrets)
    \/ (stage \in {"storage", "get"} /\ FileStorage)

\* The stages that do not look at their context.
Unbounded(stage) ==
    \/ stage = "delete"
    \/ (stage = "source" /\ FileSecrets)
    \/ (stage \in {"storage", "get"} /\ FileStorage)

\* The stages that call the secret source, which is nil without secrets.
CallsNil(stage) ==
    /\ stage \in {"open", "login"} \/ (stage = "crypto" /\ LocalKey)
    /\ ~On(doc, "secrets")

Succeeds(stage) ==
    /\ ~CallsNil(stage)
    /\ \A f \in Asks(stage) : world[f]
    /\ ~cancelled \/ Unbounded(stage)

(***************************************************************************)
(* Actions.                                                                *)
(***************************************************************************)
\* Build has come to the stage Stages[i].
At(i) ==
    /\ pc = "building" /\ i \in todo
    /\ \A j \in todo : i <= j

Init ==
    /\ doc \in Documents
    /\ world = [f \in Facts |-> TRUE]
    /\ binary = "preflight"
    /\ pc = "off" /\ todo = {} /\ pool = FALSE
    /\ object = FALSE /\ excused = FALSE
    /\ cancelled = FALSE /\ ready = "none" /\ vouched = "no"
    /\ starts = 0 /\ mishaps = 0

\* A process starts and loads its configuration.
Start(b) ==
    /\ pc \in Resting /\ starts < MaxStarts
    /\ starts' = starts + 1
    /\ binary' = b
    /\ pc' = IF Loads(b, doc, world["key pair"]) THEN "loaded" ELSE "rejected"
    /\ object' = FALSE /\ excused' = FALSE /\ cancelled' = FALSE /\ ready' = "none"
    /\ vouched' = IF b = "preflight" /\ vouched = "no" THEN "asking" ELSE vouched
    /\ UNCHANGED <<doc, world, todo, pool, mishaps>>

Build ==
    /\ pc = "loaded"
    /\ pc' = "building" /\ todo' = Plan
    /\ UNCHANGED <<doc, world, binary, pool, object, excused, cancelled, ready,
                   vouched, starts, mishaps>>

Advance(i, opened, left) ==
    /\ todo' = todo \ {i}
    /\ pool' = opened /\ object' = left
    /\ UNCHANGED <<doc, world, binary, pc, excused, cancelled, ready, vouched,
                   starts, mishaps>>

ClosesPoolInConstructors(stage) ==    \* seeded defect
    stage \in {"storage", "crypto"}

\* The stages whose failure Build returns through fail; those before have no
\* pool to close.
ClosesPool(stage) == stage \notin {"clock", "source", "login", "open"}

\* The stage i fails.  A method call on the nil source is a panic, which ends
\* the process.
Fail(i, left, excuse) ==
    /\ todo' = {}
    /\ pool' = (pool /\ ~ClosesPool(Stages[i]) /\ ~CallsNil(Stages[i]))
    /\ pc' = IF CallsNil(Stages[i]) THEN "panic" ELSE "failed"
    /\ object' = left /\ excused' = (excused \/ excuse)
    /\ UNCHANGED <<doc, world, binary, cancelled, ready, vouched, starts, mishaps>>

\* The stages that open nothing and leave nothing.
Ask(i) ==
    /\ At(i) /\ Stages[i] \notin {"open", "login", "put", "get", "delete"}
    /\ IF Succeeds(Stages[i]) THEN Advance(i, pool, object) ELSE Fail(i, object, FALSE)

\* OpenDatabase and OpenMigrationDatabase, which close what they opened.
Open(i) ==
    /\ At(i) /\ Stages[i] \in {"open", "login"}
    /\ IF Succeeds(Stages[i]) THEN Advance(i, TRUE, object) ELSE Fail(i, object, FALSE)

\* PutObject or os.CreateTemp.
Put(i) ==
    /\ At(i) /\ Stages[i] = "put"
    /\ IF Succeeds("put") THEN Advance(i, pool, TRUE) ELSE Fail(i, object, FALSE)

\* The answer to PutObject does not arrive, or the context ends before it.
PutUnanswered(i) ==
    /\ At(i) /\ Stages[i] = "put" /\ ~FileStorage /\ world["write"]
    /\ cancelled \/ mishaps < MaxMishaps
    /\ mishaps' = IF cancelled THEN mishaps ELSE mishaps + 1
    /\ todo' = {} /\ pc' = "failed" /\ pool' = (pool /\ ~ClosesPool("put"))
    /\ object' = TRUE /\ excused' = TRUE
    /\ UNCHANGED <<doc, world, binary, cancelled, ready, vouched, starts>>

\* clean, or the deferred os.Remove: neither looks at the caller's context.
Cleans  == Succeeds("delete")
Refused == \E f \in Asks("delete") : ~world[f]

Get(i) ==
    /\ At(i) /\ Stages[i] = "get"
    /\ IF Succeeds("get") THEN Advance(i, pool, object) ELSE Fail(i, ~Cleans, Refused)

Delete(i) ==
    /\ At(i) /\ Stages[i] = "delete"
    /\ IF Cleans THEN Advance(i, pool, FALSE) ELSE Fail(i, TRUE, Refused)

\* Build returns: Preflight closes and reports, main of migrate goes on to
\* run the migrations, bootstrapAndServe to serve.
Built ==
    /\ pc = "building" /\ todo = {}
    /\ pc' = CASE binary = "api" -> "serving"
               [] binary = "preflight" -> "safe"
               [] binary = "migrate" -> "migrating"
    /\ pool' = (pool /\ binary # "preflight")
    /\ vouched' = IF binary = "preflight" /\ vouched = "asking" THEN "yes" ELSE vouched
    /\ UNCHANGED <<doc, world, binary, todo, object, excused, cancelled, ready,
                   starts, mishaps>>

FileProbe == {"root", "root mode"}
LocalCryptoProbe == {"secret directory", "key file"}
AWSCryptoProbe == {"key enabled"}

PingAsks ==
    ClockHealth
    \cup (IF On(doc, "postgres") THEN Connect ELSE {})
    \cup (IF ~On(doc, "object_storage") THEN {}
          ELSE IF FileStorage THEN FileProbe ELSE PublicAccessBlocked)
    \cup (IF ~On(doc, "kms") THEN {}
          ELSE IF LocalKey THEN LocalCryptoProbe ELSE AWSCryptoProbe)

Ping ==
    /\ pc = "serving" /\ ~cancelled
    /\ ready' = IF \A f \in PingAsks : world[f] THEN "yes" ELSE "no"
    /\ UNCHANGED <<doc, world, binary, pc, todo, pool, object, excused, cancelled,
                   vouched, starts, mishaps>>

\* serve returns after a signal, or migration.Run at its end, and the deferred
\* Close runs.
Stop ==
    /\ (pc = "serving" /\ cancelled) \/ pc = "migrating"
    /\ pc' = "stopped" /\ pool' = FALSE
    /\ UNCHANGED <<doc, world, binary, todo, object, excused, cancelled, ready,
                   vouched, starts, mishaps>>

Mishap == mishaps < MaxMishaps /\ mishaps' = mishaps + 1

\* A signal, or the timeout of Check.
Cancel ==
    /\ Mishap
    /\ pc \in {"building", "serving"} /\ ~cancelled
    /\ cancelled' = TRUE
    /\ UNCHANGED <<doc, world, binary, pc, todo, pool, object, excused, ready,
                   vouched, starts>>

Change(f) ==
    /\ Mishap
    /\ world' = [world EXCEPT ![f] = ~@]
    /\ vouched' = "no"
    /\ UNCHANGED <<doc, binary, pc, todo, pool, object, excused, cancelled, ready,
                   starts>>

\* The process is killed; the operating system closes its sockets.
Crash ==
    /\ Mishap
    /\ pc \notin Resting
    /\ pc' = "crashed" /\ todo' = {} /\ pool' = FALSE /\ excused' = TRUE
    /\ UNCHANGED <<doc, world, binary, object, cancelled, ready, vouched, starts>>

Stage(i) ==
    Ask(i) \/ Open(i) \/ Put(i) \/ Get(i) \/ Delete(i)

Step == Build \/ Built \/ Stop \/ \E i \in DOMAIN Stages : Stage(i)

Next ==
    \/ \E b \in Binaries : Start(b)
    \/ Step \/ Ping \/ Cancel \/ Crash
    \/ \E i \in DOMAIN Stages : PutUnanswered(i)
    \/ \E f \in Facts : Change(f)

Spec == Init /\ [][Next]_vars
FairSpec == Spec /\ WF_vars(Step) /\ WF_vars(Ping)

(***************************************************************************)
(* Properties.                                                             *)
(***************************************************************************)
\* The variables keep their types.
TypeOK ==
    /\ world \in [Facts -> BOOLEAN]
    /\ binary \in Binaries
    /\ pc \in Resting \cup {"loaded", "building", "serving", "migrating"}
    /\ todo \subseteq DOMAIN Stages
    /\ pool \in BOOLEAN /\ object \in BOOLEAN /\ excused \in BOOLEAN
    /\ cancelled \in BOOLEAN
    /\ ready \in {"none", "yes", "no"}
    /\ vouched \in {"no", "asking", "yes"}
    /\ starts \in 0..MaxStarts /\ mishaps \in 0..MaxMishaps

\* No document that a binary accepts leads it to a call on the nil secret
\* source: Build and OpenMigrationDatabase never test their source, they rely
\* on the rules of Parse and loadRuntime.
NoNilSource == pc # "panic"

\* What holds of the pool, and of the object that Check writes.
PoolClosed    == pool => pc \in {"building", "serving", "migrating"}
ObjectRemoved == pc \in Resting /\ object => excused

\* A process that has ended leaves nothing behind, whatever stage failed or was
\* cancelled half way: its pool is closed, and the object that Check writes is
\* gone, unless its write was not answered, its removal was refused or the
\* process was killed.
NothingLeftBehind == PoolClosed /\ ObjectRemoved

\* Whatever runs in production uses managed secrets, storage and keys, a
\* kernel clock, verified TLS and HTTPS origins, in the region of its cell and
\* with a bucket key of the bucket's owner, and has no architecture probe.
\* No single rule says so: the environment decides the mode, and the mode the
\* providers.
ProductionIsManaged ==
    pc \notin {"off", "rejected"} /\ doc.top.environment = "production" =>
        /\ ~On(doc, "architecture_probe")
        /\ doc.time.provider = "linux"
        /\ On(doc, "secrets") => ~FileSecrets /\ doc.secrets.aws_region = doc.top.aws_region
        /\ On(doc, "postgres") => doc.postgres.tls_mode = "verify-full"
        /\ On(doc, "object_storage") =>
              /\ ~FileStorage
              /\ doc.object_storage.kms_key_arn.region = doc.top.aws_region
              /\ doc.object_storage.kms_key_arn.account = doc.object_storage.expected_owner
        /\ On(doc, "kms") => ~LocalKey /\ doc.kms.kms_key_arn.region = doc.top.aws_region
        /\ binary = "api" => doc.server.allowed_origins # "http"

\* What Ping asks and Check does not: the description of a KMS key, and the
\* owner's write bit of the root.
PingOnly == {"key enabled", "root mode"}

\* What preflight has passed, the binary it was for loads and builds, and
\* reports itself ready, as long as nothing changes, no signal arrives and no
\* answer is lost.  Ping asks other questions than Check: it relies on Check
\* having asked for the same facts, all but those of PingOnly.
PreflightPredicts ==
    vouched = "yes" /\ binary \in {doc.top.runtime_role, "preflight"} =>
        /\ pc \in {"rejected", "failed", "panic"} => cancelled \/ excused
        /\ (\A f \in PingOnly : world[f]) => ready # "no"

\* The API of a vouched document comes up and is ready, unless something
\* changes or it is stopped.
VouchedComesUp ==
    (/\ vouched = "yes" /\ binary = "api" /\ pc = "loaded"
     /\ \A f \in PingOnly : world[f])
        ~> (ready = "yes" \/ cancelled \/ excused \/ vouched = "no")
=============================================================================
