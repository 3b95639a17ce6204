------------------------------ MODULE MCPolicy ------------------------------
(***************************************************************************)
(* Instance of TofuPolicy: plans of one resource of each kind with each of *)
(* its values, of up to three buckets and access blocks, and of modules    *)
(* that pass the image on or do not.                                       *)
(***************************************************************************)
EXTENDS TofuPolicy

R(type, v, unknown) ==
    [type |-> type, path |-> <<>>, name |-> "a", key |-> "", v |-> v, unknown |-> unknown,
     usesImage |-> FALSE, refersTo |-> "", exact |-> TRUE, deleted |-> FALSE]

\* In these plans no two buckets without a name have one name of a resource.
MCAssigned(address) == address[3]

\* A resource of which one field f has each value, and then is unknown.
Each(type, v, f, values, absent) ==
    {R(type, [v EXCEPT ![f] = x], {}) : x \in values}
    \cup {R(type, [v EXCEPT ![f] = absent], {f})}

Cidr == {"0.0.0.0/0", "::/0", "10.0.0.0/8", ""}
Database == [multi_az |-> "true", publicly_accessible |-> "false", storage_encrypted |-> "true"]
Rule(x) == [cidr_blocks |-> x, ipv6_cidr_blocks |-> {}, direction |-> "ingress"]
Block(bucket, complete) ==
    [bucket |-> bucket, block_public_acls |-> "true", block_public_policy |-> "true",
     ignore_public_acls |-> "true", restrict_public_buckets |-> complete]
Cache(ttl, blocks) ==
    [default_ttl |-> "0", max_ttl |-> ttl, min_ttl |-> "0.0", parameters |-> blocks]

Tasks ==
    {[r EXCEPT !.usesImage = u[1], !.exact = u[2], !.key = k, !.path = m] :
        r \in Each("task_definition", [container_definitions |-> <<>>], "container_definitions",
                   {<<>>, <<"digest">>, <<"digest", "tag">>}, <<>>),
        u \in {<<FALSE, FALSE>>, <<TRUE, FALSE>>, <<TRUE, TRUE>>},
        k \in {"", "0"}, m \in {<<>>, <<"api">>, <<"api", "task">>}}

Plain ==
    UNION {Each("db_instance", Database, f, Flag, "") : f \in DOMAIN Database}
    \cup Each("lb", [internal |-> ""], "internal", Flag, "")
    \cup {R("ecs_service", [configurations |-> c], {}) :
             c \in {<<>>, <<"true">>, <<"false">>, <<"">>, <<"false", "false">>}}
    \cup UNION {Each("ingress_rule", [cidr_ipv4 |-> "", cidr_ipv6 |-> ""], f, Cidr, "") :
                    f \in {"cidr_ipv4", "cidr_ipv6"}}
    \cup {R("security_group_rule", [Rule(x) EXCEPT !.direction = d], {}) :
             d \in {"ingress", "egress"}, x \in SUBSET {"0.0.0.0/0", "10.0.0.0/8"}}
    \cup {R("security_group", [ingress |-> {Rule(x) : x \in s}], {}) :
             s \in SUBSET {{"::/0"}, {"10.0.0.0/8"}}}
    \cup {[r EXCEPT !.exact = e] : e \in BOOLEAN,
             r \in Each("distribution", [web_acl_id |-> ""], "web_acl_id", {"acl", ""}, "")}
    \cup {R("web_acl", [name |-> "waf"], {})}
    \cup {R("cache_policy", Cache(ttl, blocks), {}) :
             ttl \in {"0", "60"}, blocks \in {<<>>, <<<<"true", "false">>>>, <<<<"false", "">>>>}}
    \cup Tasks

NamedBuckets(n) ==
    {[r EXCEPT !.name = n, !.key = k] :
        r \in Each("bucket", [bucket |-> ""], "bucket", {"x"}, ""), k \in {"", "0"}}
NamedBlocks(n) ==
    {[r EXCEPT !.name = n, !.refersTo = t[1], !.exact = t[2], !.key = k] :
        r \in UNION {Each("public_access_block", Block("", c), "bucket", {"x"}, "") : c \in {"true", "false"}},
        t \in {<<"", FALSE>>, <<"a", TRUE>>, <<"a", FALSE>>}, k \in {"", "0"}}

S3 == UNION {NamedBuckets(n) \cup NamedBlocks(n) : n \in {"a", "b"}}

\* Two resources have two addresses, and a block that is known to be a bucket's
\* has its name.
Possible(rs) ==
    /\ \A i, j \in DOMAIN rs : Address(rs[i]) = Address(rs[j]) => i = j
    /\ \A i, j \in DOMAIN rs :
          /\ rs[i].type = "public_access_block" /\ rs[i].v.bucket = "x" /\ rs[i].exact
          /\ rs[j].type = "bucket" /\ Refers(rs[i], rs[j])
          => rs[j].v.bucket = "x"
    /\ \A i, j \in DOMAIN rs : rs[i].type = rs[j].type /\ rs[i].name = rs[j].name
          /\ rs[i].path = rs[j].path => i = j

Deleted ==
    [R("db_instance", [f \in DOMAIN Database |-> ""], {}) EXCEPT !.name = "gone", !.deleted = TRUE]

Make(rs, providers, image, calls) ==
    [providers |-> providers, image |-> image, calls |-> calls,
     planned |-> <<rs>>, changes |-> Append(rs, Deleted)]

Bound == [n \in {"aws", "aws.edge"} |-> <<"ours">>]
ModulePaths == {<<"api">>, <<"api", "task">>}

Lists ==
    {rs \in {<<x>> : x \in Plain}
            \cup {<<x, y>> : x \in Plain, y \in {r \in Plain : r.type \in {"web_acl", "lb"}}}
            \cup {<<x, y>> : x \in S3, y \in S3}
            \cup {<<x, y, z>> : x \in NamedBuckets("a"), y \in NamedBuckets("b"), z \in NamedBlocks("a")}
            \cup {<<x, y, z>> : x \in NamedBuckets("a"), y \in NamedBlocks("a"), z \in NamedBlocks("b")} :
        Possible(rs)}

\* "aws" only, with no allow-list, one account, two, or another provider.
Providers ==
    {Bound, [Bound EXCEPT !["aws.edge"] = <<"theirs">>],
     [aws |-> <<>>], [aws |-> <<"ours", "theirs">>], [google |-> <<>>],
     [n \in {"aws", "google"} |-> IF n = "aws" THEN <<"ours">> ELSE <<>>]}

MCPlans ==
    {Make(rs, Bound, "digest", [m \in ModulePaths |-> "reference"]) : rs \in Lists}
    \cup {Make(<<x>>, Bound, image, calls) :
            x \in Tasks, image \in {"digest", "tag"},
            calls \in [ModulePaths -> {"reference", "mention", "nothing", "digest", "tag"}]}
    \cup {Make(<<>>, providers, "digest", [m \in ModulePaths |-> "reference"]) : providers \in Providers}
=============================================================================
