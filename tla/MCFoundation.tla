---------------------------- MODULE MCFoundation ----------------------------
(***************************************************************************)
(* Instance of Foundation: every document that is complete and coherent    *)
(* for a mode, a role and a set of capabilities, and every such document   *)
(* with one field or section changed.                                      *)
(***************************************************************************)
EXTENDS Foundation, FiniteSets

Of(fields, value) == [f \in fields |-> value]
Infisical == {"site_url", "aws_region", "project_id", "environment",
              "secret_path", "auth_method", "machine_identity_id"}
Key == [region |-> "eu", account |-> "ours"]

Top(env, mode, role) ==
    [schema_version |-> 1, revision |-> "ok", environment |-> env,
     deployment_mode |-> mode, cell_id |-> "ok", aws_region |-> "eu",
     runtime_role |-> role, foundation_check_timeout |-> 5,
     readiness_probe_interval |-> 5, undecoded |-> FALSE]

Secrets(env, mode) ==
    IF mode = "local"
    THEN [f \in Infisical \cup {"provider", "directory"} |->
            CASE f = "provider" -> "file" [] f = "directory" -> "relative" [] OTHER -> ""]
    ELSE [provider |-> "infisical", directory |-> "", site_url |-> "https://eu.infisical.com",
          aws_region |-> "eu", project_id |-> "id", environment |-> env,
          secret_path |-> "/clean", auth_method |-> "aws_iam", machine_identity_id |-> "id"]

Postgres(mode) ==
    [host |-> "host", port |-> 1, name |-> "name", user |-> "identifier",
     role |-> "identifier", password_ref |-> "ref",
     tls_mode |-> IF mode = "local" THEN "disable" ELSE "verify-full",
     connect_timeout |-> 5, statement_timeout |-> 5, health_check_interval |-> 5,
     max_connections |-> 1, timezone |-> "UTC"]

ObjectStorage(mode) ==
    IF mode = "local"
    THEN [provider |-> "filesystem", root |-> "absolute", region |-> "", bucket |-> "",
          prefix |-> "", expected_owner |-> "", kms_key_arn |-> NoArn,
          access_purpose |-> "foundation-proof"]
    ELSE [provider |-> "s3", root |-> "", region |-> "eu", bucket |-> "bucket",
          prefix |-> "relative", expected_owner |-> "ours", kms_key_arn |-> Key,
          access_purpose |-> "foundation-proof"]

Kms(mode) ==
    IF mode = "local"
    THEN [provider |-> "local", key_ref |-> "ref", region |-> "", kms_key_arn |-> NoArn,
          encryption_context_prefix |-> "prefix"]
    ELSE [provider |-> "aws_kms", key_ref |-> "", region |-> "eu", kms_key_arn |-> Key,
          encryption_context_prefix |-> "prefix"]

Server ==
    [listen_address |-> "host:port", allowed_origins |-> "https",
     trusted_proxy_cidrs |-> "cidrs", tls_certificate_file |-> "absolute",
     tls_private_key_file |-> "absolute", unary_rpc_timeout |-> 10,
     stream_rpc_timeout |-> 29]

None == <<>>
Switch(b) == IF b THEN "true" ELSE "false"

Coherent(env, mode, role, caps, probe) ==
    [top |-> Top(env, mode, role),
     capabilities |-> [c \in Sectioned \cup {"architecture_probe", "telemetry", "redpanda"} |->
                         Switch(c \in caps \/ (c = "architecture_probe" /\ probe))],
     secrets  |-> IF "secrets" \in caps THEN Secrets(env, mode) ELSE None,
     postgres |-> IF "postgres" \in caps THEN Postgres(mode) ELSE None,
     object_storage |-> IF "object_storage" \in caps THEN ObjectStorage(mode) ELSE None,
     kms  |-> IF "kms" \in caps THEN Kms(mode) ELSE None,
     time |-> [provider |-> IF mode = "local" THEN "system" ELSE "linux",
               max_clock_error |-> 1, max_database_skew |-> 1],
     server |-> IF role = "api" THEN Server ELSE None]

\* The values a field is changed to.
Durations == {"foundation_check_timeout", "readiness_probe_interval",
              "connect_timeout", "statement_timeout", "health_check_interval",
              "max_clock_error", "max_database_skew"}

Values(f) ==
    CASE f = "environment"     -> {"production", "staging", "development", "bad"}
      [] f = "deployment_mode" -> {"local", "managed", "bad"}
      [] f = "runtime_role"    -> {"api", "migrate", "preflight", "bad"}
      [] f \in {"region", "aws_region"} -> {"us", "bad", ""}
      [] f = "schema_version"  -> {2}
      [] f = "undecoded"       -> {TRUE}
      [] f \in Durations \cup {"port"} -> {0}
      [] f \in {"unary_rpc_timeout", "stream_rpc_timeout"} -> {0, 30}
      [] f = "max_connections" -> {0, 128, 129}
      [] f \in {"architecture_probe", "telemetry", "redpanda"} \cup Sectioned ->
            {"true", "false", "unset"}
      [] f = "provider"        -> {"file", "infisical", "filesystem", "s3", "local",
                                   "aws_kms", "system", "linux"}
      [] f = "kms_key_arn"     -> {NoArn, [Key EXCEPT !.region = "us"],
                                   [Key EXCEPT !.account = "theirs"]}
      [] f = "allowed_origins" -> {"unset", "none", "http", "bad"}
      [] f = "tls_mode"        -> {"disable", "verify-full"}
      [] f \in {"tls_certificate_file", "tls_private_key_file"} -> {"", "relative"}
      [] f = "expected_owner"  -> {"theirs", "bad", ""}
      [] f \in {"directory", "root"} -> {"absolute", ""}
      [] OTHER -> {"bad", ""}

Edits(d) ==
    {[d EXCEPT ![s] = None] : s \in Sectioned \cup {"time", "server"}}
    \cup {[d EXCEPT !.server = Server]}
    \cup UNION {UNION {{[d EXCEPT ![s] = [@ EXCEPT ![f] = v]] : v \in Values(f)} :
                       f \in DOMAIN d[s]} : s \in DOMAIN d}

Bases ==
    {Coherent(em[1], em[2], role, caps, probe) :
        em \in {<<"development", "local">>, <<"development", "managed">>,
                <<"production", "managed">>},
        role \in {"api", "migrate", "preflight"},
        caps \in {{}, {"postgres"}, {"kms"}, {"secrets", "postgres"},
                  {"object_storage"}, Sectioned},
        probe \in {FALSE}}

MCDocuments ==
    Bases \cup UNION {Edits(d) : d \in {d \in Bases : On(d, "kms") /\ On(d, "postgres")}}
=============================================================================
