------------------------------- MODULE Config -------------------------------
(***************************************************************************)
(* The configuration document of the Go binaries and what each binary      *)
(* makes of it: bootstrap.Parse, appconfig.parseAPI, LoadAPI and           *)
(* LoadFoundation.                                                         *)
(*                                                                         *)
(* A document maps section names to sections; a section maps the TOML      *)
(* fields to values and is empty when the document does not have it.  A    *)
(* missing text is "", a missing boolean "unset", a text that matches no   *)
(* pattern "bad", a duration a number of seconds that is 0 unless the text *)
(* is a positive duration.  What is checked field by field is one          *)
(* conjunct; the order of the error messages is left out.                  *)
(***************************************************************************)
EXTENDS Integers

CONSTANTS Regions,    \* texts that awsRegionPattern matches
          Accounts    \* texts that awsAccountPattern matches

HTTPWriteTimeout == 30

Present(doc, section) == DOMAIN doc[section] # {}
Managed(doc)  == doc.top.deployment_mode = "managed"
On(doc, capability) == doc.capabilities[capability] = "true"
Sectioned == {"postgres", "secrets", "kms", "object_storage"}

(***************************************************************************)
(* bootstrap.Parse.                                                        *)
(***************************************************************************)
CapabilitiesAgree(doc) ==
    /\ \A c \in DOMAIN doc.capabilities : doc.capabilities[c] # "unset"
    /\ \A c \in Sectioned : On(doc, c) <=> Present(doc, c)
    /\ doc.capabilities.telemetry = "false"
    /\ doc.capabilities.redpanda = "false"
    /\ Present(doc, "time")

SecretsAccepted(doc) ==
    LET raw == doc.secrets IN
    IF ~Managed(doc)
    THEN /\ raw.provider = "file"
         /\ raw.directory # ""
         /\ \A f \in DOMAIN raw \ {"provider", "directory"} : raw[f] = ""
    ELSE /\ raw.directory = ""
         /\ raw.provider = "infisical"
         /\ raw.site_url = "https://eu.infisical.com"
         /\ raw.aws_region \in Regions
         /\ raw.aws_region = doc.top.aws_region
         /\ raw.project_id # ""
         /\ raw.machine_identity_id # ""
         /\ raw.environment = doc.top.environment
         /\ raw.auth_method = "aws_iam"
         /\ raw.secret_path = "/clean"

\* secret.ParseRef: a relative, clean name of letters, digits and "._:/-".
ParseRef(ref) == ref = "ref"

DatabaseAccepted(doc) ==
    LET raw == doc.postgres IN
    /\ raw.host # "" /\ raw.port # 0 /\ raw.name # ""
    /\ raw.user = "identifier" /\ raw.role = "identifier"
    /\ ParseRef(raw.password_ref)
    /\ raw.tls_mode = IF Managed(doc) THEN "verify-full" ELSE "disable"
    /\ raw.connect_timeout > 0
    /\ raw.statement_timeout > 0
    /\ raw.health_check_interval > 0
    /\ raw.max_connections \in 1..128
    /\ raw.timezone = "UTC"

\* validateKMSKeyARN: a key of the region and, when one is given, the account.
KeyIn(arn, region, accounts) ==
    arn.region = region /\ arn.account \in accounts

NoArn == [region |-> "", account |-> ""]

StorageAccepted(doc) ==
    LET raw == doc.object_storage IN
    /\ raw.access_purpose = "foundation-proof"
    /\ IF ~Managed(doc)
       THEN /\ raw.provider = "filesystem" /\ raw.root # ""
            /\ \A f \in {"region", "bucket", "prefix", "expected_owner"} : raw[f] = ""
            /\ raw.kms_key_arn = NoArn
       ELSE /\ raw.provider = "s3" /\ raw.root = ""
            /\ raw.region \in Regions
            /\ raw.bucket = "bucket"
            /\ raw.expected_owner \in Accounts
            /\ raw.region = doc.top.aws_region
            /\ raw.prefix = "relative"
            /\ KeyIn(raw.kms_key_arn, raw.region, {raw.expected_owner})

CryptoAccepted(doc) ==
    LET raw == doc.kms IN
    /\ raw.encryption_context_prefix # ""
    /\ IF ~Managed(doc)
       THEN /\ raw.provider = "local"
            /\ ParseRef(raw.key_ref)
            /\ raw.region = "" /\ raw.kms_key_arn = NoArn
       ELSE /\ raw.provider = "aws_kms"
            /\ raw.key_ref = ""
            /\ raw.region \in Regions
            /\ raw.region = doc.top.aws_region
            /\ KeyIn(raw.kms_key_arn, raw.region, Accounts)

TimeAccepted(doc) ==
    /\ doc.time.provider = IF Managed(doc) THEN "linux" ELSE "system"
    /\ doc.time.max_clock_error > 0
    /\ doc.time.max_database_skew > 0

ModeUnrelated(doc) ==    \* seeded defect
    /\ doc.top.environment \in {"development", "staging", "production"}
    /\ doc.top.deployment_mode \in {"local", "managed"}

ModeAccepted(doc) ==
    /\ doc.top.environment \in {"development", "staging", "production"}
    /\ doc.top.deployment_mode \in {"local", "managed"}
    /\ doc.top.environment # "development" => Managed(doc)

CapabilitiesWithoutSecrets(doc) ==    \* seeded defect
    doc.top.environment = "production" => ~On(doc, "architecture_probe")

\* The rules of Parse about which capabilities go together.
CapabilitiesCompatible(doc) ==
    /\ doc.top.environment = "production" => ~On(doc, "architecture_probe")
    /\ On(doc, "postgres") => On(doc, "secrets")
    /\ ~Managed(doc) /\ On(doc, "kms") => On(doc, "secrets")

Parse(doc) ==
    /\ doc.top.schema_version = 1
    /\ doc.top.revision # "bad"
    /\ ModeAccepted(doc)
    /\ doc.top.cell_id # "bad"
    /\ doc.top.aws_region \in Regions
    /\ doc.top.runtime_role \in {"api", "migrate", "preflight"}
    /\ CapabilitiesAgree(doc)
    /\ CapabilitiesCompatible(doc)
    /\ doc.top.foundation_check_timeout > 0
    /\ doc.top.readiness_probe_interval > 0
    /\ On(doc, "secrets") => SecretsAccepted(doc)
    /\ On(doc, "postgres") => DatabaseAccepted(doc)
    /\ On(doc, "object_storage") => StorageAccepted(doc)
    /\ On(doc, "kms") => CryptoAccepted(doc)
    /\ TimeAccepted(doc)

(***************************************************************************)
(* appconfig: the server section, and what each binary loads.              *)
(***************************************************************************)
\* validateAllowedOrigins; the origins are told apart by their scheme.
OriginsAccepted(doc) ==
    /\ doc.server.allowed_origins \in {"none", "http", "https"}
    /\ doc.top.environment = "production" => doc.server.allowed_origins # "http"

\* parseAPI.  loadable: tls.LoadX509KeyPair can read the pair it is given.
ParseAPI(doc, loadable) ==
    /\ Present(doc, "server")
    /\ doc.server.listen_address = "host:port"
    /\ OriginsAccepted(doc)
    /\ doc.server.trusted_proxy_cidrs = "cidrs"
    /\ doc.server.tls_certificate_file = doc.server.tls_private_key_file
    /\ doc.server.tls_certificate_file \in {"", "absolute"}
    /\ doc.server.tls_certificate_file # "" => loadable
    /\ doc.server.unary_rpc_timeout \in 1..(HTTPWriteTimeout - 1)
    /\ doc.server.stream_rpc_timeout \in 1..(HTTPWriteTimeout - 1)

\* loadRuntime; undecoded: fields that toml.DisallowUnknownFields refuses.
LoadRuntime(doc, expectedRole) ==
    /\ ~doc.top.undecoded
    /\ Parse(doc)
    /\ expectedRole # "" => doc.top.runtime_role = expectedRole
    /\ doc.top.runtime_role = "migrate" => On(doc, "secrets") /\ On(doc, "postgres")
    /\ doc.top.runtime_role # "api" => ~Present(doc, "server")

LoadAPI(doc, loadable) == LoadRuntime(doc, "api") /\ ParseAPI(doc, loadable)

LoadFoundation(doc, expectedRole, loadable) ==
    /\ LoadRuntime(doc, expectedRole)
    /\ expectedRole = "" /\ doc.top.runtime_role = "api" => ParseAPI(doc, loadable)

LoadsWithoutServer(binary, doc, loadable) ==    \* seeded defect
    IF binary = "api" THEN LoadAPI(doc, loadable)
    ELSE LoadRuntime(doc, IF binary = "migrate" THEN "migrate" ELSE "")

\* What the binary of a command loads: cmd/api, cmd/preflight, cmd/migrate.
Loads(binary, doc, loadable) ==
    CASE binary = "api"       -> LoadAPI(doc, loadable)
      [] binary = "preflight" -> LoadFoundation(doc, "", loadable)
      [] binary = "migrate"   -> LoadFoundation(doc, "migrate", loadable)
=============================================================================
