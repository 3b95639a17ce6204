----------------------------- MODULE TofuPolicy -----------------------------
(***************************************************************************)
(* The policy that a saved OpenTofu plan has to pass (internal/tofupolicy) *)
(* and what becomes of a plan that passed: it is applied, and the values   *)
(* that were unknown when it was made get their value.                     *)
(*                                                                         *)
(* A plan has                                                              *)
(*   providers  the accounts that each AWS provider provably allows        *)
(*   image      the variable image_uri of the root module                  *)
(*   calls      module path -> what its call passes as image_uri: an image,*)
(*              a "reference" to var.image_uri, an expression that has a   *)
(*              "mention" of it, or "nothing" the policy knows             *)
(*   planned    planned values: the resources of each module, root first   *)
(*   changes    resource changes                                           *)
(* and a resource has a type, a module path, a name and an instance key    *)
(* ("" without count or for_each), its values v (an absent text is "", an  *)
(* absent list empty), the fields that are unknown, whether the            *)
(* configuration of a task definition refers to var.image_uri, the bucket  *)
(* that the configuration of a public access block refers to first ("" for *)
(* none), and deleted, for a change without a value after it.  Whether the *)
(* expression is nothing but that reference (exact) the policy cannot see; *)
(* for a distribution it means that its ACL is one of the plan.            *)
(***************************************************************************)
EXTENDS Naturals, Sequences, SequencesExt

CONSTANTS Plans,      \* the plans that tofu may save
          Expected,   \* the account the policy is asked about
          Assigned(_) \* the name that a bucket without one gets, by its address

VARIABLES plan,       \* the saved plan
          stage,      \* "saved", "passed", "rejected" or "applied"
          final       \* the resources after apply

policyVars == <<plan, stage, final>>

Address(r) == <<r.path, r.type, r.name, r.key>>

(***************************************************************************)
(* Evaluate.                                                               *)
(***************************************************************************)
\* The names "aws" and "aws.<alias>".
AWSProviders == {"aws", "aws.edge"}

\* A provider without an allow-list of exactly the expected account.
AccountViolations(p) ==
    IF "aws" \notin DOMAIN p.providers THEN {<<<<>>, "provider", "aws", "">>}
    ELSE {<<<<>>, "provider", n, "">> :
             n \in {n \in DOMAIN p.providers \cap AWSProviders : p.providers[n] # <<Expected>>}}

\* after_unknown is known for the addresses that the changes list.
WithUnknown(r, changes) ==
    [r EXCEPT !.unknown =
        IF \E c \in ToSet(changes) : Address(c) = Address(r) THEN @ ELSE {}]

Flatten(p) == FlattenSeq(p.planned)

ChangedResources(changes) ==
    FlattenSeq([i \in DOMAIN changes |-> IF changes[i].deleted THEN <<>> ELSE <<changes[i]>>])

Resources(p) ==
    LET flat == Flatten(p) IN
    IF flat = <<>> THEN ChangedResources(p.changes)
    ELSE [i \in DOMAIN flat |-> WithUnknown(flat[i], p.changes)]

\* walkConfigurationImages: the image_uri that each module is given.
Modules(p) == DOMAIN p.calls \cup {<<>>}

Images(p) ==
    LET image[m \in Modules(p)] ==
          IF m = <<>> THEN p.image
          ELSE CASE p.calls[m] \in {"reference", "mention"} -> image[Front(m)]
                 [] p.calls[m] = "nothing" -> ""
                 [] OTHER                  -> p.calls[m]
    IN image

ImageReferenced(r, p) == r.key = "" /\ r.usesImage    \* seeded defect

\* The configuration addresses whose image is a digest; a configuration
\* address has no instance key.
ImageProven(r, p) ==
    r.key = "" /\ r.usesImage /\ Images(p)[r.path] = "digest"

Complete(r) ==
    \A f \in {"block_public_acls", "block_public_policy",
              "ignore_public_acls", "restrict_public_buckets"} : r.v[f] = "true"

\* s3BlockTargets and protectedBucketAddresses.
ProtectedByReference(bucket, rs) ==
    \E b \in ToSet(rs) :
        /\ b.type = "public_access_block" /\ Complete(b)
        /\ b.key = "" /\ b.refersTo # ""
        /\ Address(bucket) = <<b.path, "bucket", b.refersTo, "">>

\* The maps buckets and publicAccessBlocks keep the last resource of a name.
IsLast(i, type, name, rs) ==
    /\ rs[i].type = type /\ rs[i].v.bucket = name
    /\ \A j \in DOMAIN rs : j > i => ~(rs[j].type = type /\ rs[j].v.bucket = name)

ProtectedByName(name, rs) ==
    \E i \in DOMAIN rs : IsLast(i, "public_access_block", name, rs) /\ Complete(rs[i])

\* buckets[name] is the address of this bucket.  Another bucket of the name
\* counts as one without a name.
OwnsName(i, rs) ==
    /\ rs[i].v.bucket # ""
    /\ \E j \in DOMAIN rs :
          IsLast(j, "bucket", rs[i].v.bucket, rs) /\ Address(rs[j]) = Address(rs[i])

BucketViolatesInOnePass(i, rs) ==    \* seeded defect
    LET before == SubSeq(rs, 1, i) IN
    /\ ~ProtectedByReference(rs[i], before)
    /\ OwnsName(i, rs) => ~ProtectedByName(rs[i].v.bucket, before)

BucketViolates(i, rs) ==
    /\ ~ProtectedByReference(rs[i], rs)
    /\ OwnsName(i, rs) => ~ProtectedByName(rs[i].v.bucket, rs)

AssignsPublicIP(v) ==
    Len(v.configurations) # 1 \/ v.configurations[1] # "false"

World == {"0.0.0.0/0", "::/0"}
WorldOpen(rule) == (rule.cidr_blocks \cup rule.ipv6_cidr_blocks) \cap World # {}

\* At least one container, and every image a digest.
UseDigests(images) == images # <<>> /\ ToSet(images) = {"digest"}

IsZero(number) == number \in {"0", "0.0"}

CachesNothingButCompresses(v) ==
    /\ IsZero(v.default_ttl) /\ IsZero(v.max_ttl) /\ IsZero(v.min_ttl)
    /\ v.parameters # <<>> /\ "true" \in ToSet(v.parameters[1])

Violates(i, rs, p) ==
    LET r == rs[i]
        v == rs[i].v
    IN  CASE r.type = "db_instance" ->
               ~(v.multi_az = "true" /\ v.publicly_accessible = "false" /\ v.storage_encrypted = "true")
          [] r.type = "lb" -> v.internal # "true"
          [] r.type = "ecs_service" -> AssignsPublicIP(v)
          [] r.type = "ingress_rule" ->
               {v.cidr_ipv4, v.cidr_ipv6} \cap World # {} \/ r.unknown # {}
          [] r.type = "security_group_rule" -> v.direction = "ingress" /\ WorldOpen(v)
          [] r.type = "security_group" -> \E rule \in v.ingress : WorldOpen(rule)
          [] r.type = "bucket" -> BucketViolates(i, rs)
          [] r.type = "public_access_block" -> ~Complete(r)
          [] r.type = "task_definition" ->
               /\ ~UseDigests(v.container_definitions)
               /\ "container_definitions" \in r.unknown => ~ImageProven(r, p)
          [] r.type = "distribution" ->
               /\ v.web_acl_id = ""
               /\ r.unknown # {} => \A w \in ToSet(rs) : w.type # "web_acl"
          [] r.type = "cache_policy" -> CachesNothingButCompresses(v)
          [] OTHER -> FALSE

ResourceViolations(rs, p) ==
    {Address(rs[i]) : i \in {i \in DOMAIN rs : Violates(i, rs, p)}}

Evaluate(p) == AccountViolations(p) \cup ResourceViolations(Resources(p), p)

(***************************************************************************)
(* What the unknown values become.  Only an exact reference is the value it *)
(* refers to: an expression that mentions something may be anything else.  *)
(***************************************************************************)
NameOf(bucket) == IF bucket.v.bucket # "" THEN bucket.v.bucket ELSE Assigned(Address(bucket))

Buckets(rs) == {r \in ToSet(rs) : r.type = "bucket"}

\* The configuration of the block refers to the bucket or to one of its instances.
Refers(block, bucket) ==
    block.refersTo # "" /\ bucket.path = block.path /\ bucket.name = block.refersTo

\* What image_uri may be in each module: a reference passes the caller's value
\* on, and without one it may be anything: an expression, or the default.
ImageKinds == {"digest", "tag"}
ImageValues(p) ==
    {image \in [Modules(p) -> ImageKinds] :
        /\ image[<<>>] = p.image
        /\ \A m \in DOMAIN p.calls :
              /\ p.calls[m] = "reference" => image[m] = image[Front(m)]
              /\ p.calls[m] \in ImageKinds => image[m] = p.calls[m]}

Becomes(r, rs, p) ==
    CASE r.type = "bucket" -> {NameOf(r)}
      [] r.type = "public_access_block" ->
            LET meant == {b \in Buckets(rs) : r.exact /\ Refers(r, b)} IN
            IF meant # {} THEN {NameOf(b) : b \in meant}
            ELSE {NameOf(b) : b \in Buckets(rs)} \cup {"elsewhere"}
      [] r.type = "task_definition" ->
            IF r.usesImage /\ r.exact THEN {<<image[r.path]>> : image \in ImageValues(p)}
            ELSE {<<"digest">>, <<"tag">>, <<"digest", "tag">>}
      [] r.type = "distribution" ->
            IF r.exact /\ \E w \in ToSet(rs) : w.type = "web_acl" THEN {"acl"} ELSE {"acl", ""}
      [] r.type = "ingress_rule" -> {"0.0.0.0/0", "10.0.0.0/8"}
      [] OTHER -> {"true", "false"}

Settled(r, rs, p) ==
    {[r EXCEPT !.v = [f \in DOMAIN r.v |-> IF f \in r.unknown THEN values[f] ELSE r.v[f]]] :
        values \in [r.unknown -> Becomes(r, rs, p)]}

\* The resources that p lists.
Listed(p) == IF Flatten(p) = <<>> THEN ChangedResources(p.changes) ELSE Flatten(p)

\* The resources that applying p may leave: a choice for each unknown value.
Outcomes(p) ==
    LET rs == Listed(p)
        Left(i) == Settled(rs[i], rs, p)
    IN  {done \in [DOMAIN rs -> UNION {Left(i) : i \in DOMAIN rs}] :
            \A i \in DOMAIN rs : done[i] \in Left(i)}

(***************************************************************************)
(* What OpenTofu guarantees of a plan.                                     *)
(***************************************************************************)
Flag == {"true", "false", ""}
RuleShape == [cidr_blocks : SUBSET STRING, ipv6_cidr_blocks : SUBSET STRING, direction : STRING]

Fields == {"type", "path", "name", "key", "v", "unknown", "usesImage", "refersTo", "exact", "deleted"}

\* The values of a resource, as the schema of its type has them.
Shaped(r) ==
    CASE r.type = "db_instance" ->
           r.v \in [multi_az : Flag, publicly_accessible : Flag, storage_encrypted : Flag]
      [] r.type = "lb" -> r.v \in [internal : Flag]
      [] r.type = "ecs_service" -> r.v \in [configurations : Seq(Flag)]
      [] r.type = "ingress_rule" -> r.v \in [cidr_ipv4 : STRING, cidr_ipv6 : STRING]
      [] r.type = "security_group_rule" -> r.v \in RuleShape
      [] r.type = "security_group" -> r.v \in [ingress : SUBSET RuleShape]
      [] r.type = "bucket" -> r.v \in [bucket : STRING]
      [] r.type = "public_access_block" ->
           r.v \in [bucket : STRING, block_public_acls : Flag, block_public_policy : Flag,
                    ignore_public_acls : Flag, restrict_public_buckets : Flag]
      [] r.type = "task_definition" -> r.v \in [container_definitions : Seq({"digest", "tag"})]
      [] r.type = "distribution" -> r.v \in [web_acl_id : {"acl", ""}]
      [] r.type = "cache_policy" ->
           r.v \in [default_ttl : STRING, max_ttl : STRING, min_ttl : STRING, parameters : Seq(Seq(Flag))]
      [] OTHER -> TRUE

\* A value that is unknown is absent; every bucket has or gets a name, and
\* every block has or gets a bucket.
Absent(f) ==
    CASE f \in {"configurations", "container_definitions", "parameters"} -> <<>>
      [] f \in {"ingress", "cidr_blocks", "ipv6_cidr_blocks"} -> {}
      [] OTHER -> ""

UnknownIsAbsent(r) ==
    /\ r.unknown \subseteq DOMAIN r.v
    /\ \A f \in r.unknown : r.v[f] = Absent(f)
    /\ r.type \in {"bucket", "public_access_block"} => (r.v.bucket = "" <=> "bucket" \in r.unknown)

IsList(s) == Len(s) \in Nat /\ s = [i \in 1..Len(s) |-> s[i]]

\* The lists of a plan and its tree of modules.
PlanShaped(p) ==
    /\ p = [f \in {"providers", "image", "calls", "planned", "changes"} |-> p[f]]
    /\ IsList(p.changes) /\ IsList(p.planned) /\ \A i \in DOMAIN p.planned : IsList(p.planned[i])
    /\ p.image \in ImageKinds
    /\ \A m \in DOMAIN p.calls :
          /\ m \in Seq(STRING) \ {<<>>} /\ Front(m) \in Modules(p)
          /\ p.calls[m] \in ImageKinds \cup {"reference", "mention", "nothing"}

\* Every planned resource is among the changes, and what is unknown is about
\* to change.  A resource without count and for_each is alone of its name, and
\* an exact reference to one is its value.
WellFormed(p) ==
    LET rs == Listed(p) IN
    /\ PlanShaped(p)
    /\ \A i \in DOMAIN rs :
          /\ rs[i] = [f \in Fields |-> rs[i][f]] /\ rs[i].path \in Modules(p)
          /\ Shaped(rs[i]) /\ UnknownIsAbsent(rs[i])
    /\ Flatten(p) # <<>> => ToSet(Flatten(p)) = ToSet(ChangedResources(p.changes))
    /\ \A i, j \in DOMAIN rs :
          rs[i].key = "" /\ <<rs[i].type, rs[i].path, rs[i].name>> = <<rs[j].type, rs[j].path, rs[j].name>> => i = j
    /\ \A i, j \in DOMAIN rs :
          /\ rs[i].type = "public_access_block" /\ rs[i].v.bucket # "" /\ rs[i].exact
          /\ rs[j].type = "bucket" /\ rs[j].key = "" /\ Refers(rs[i], rs[j])
          => rs[j].v.bucket = rs[i].v.bucket

ASSUME PlansAssumption == \A p \in Plans : WellFormed(p)

(***************************************************************************)
(* The workflow: plan, evaluate, apply (cell-plan.yml).                    *)
(***************************************************************************)
PolicyInit == plan \in Plans /\ stage = "saved" /\ final = <<>>

Review ==
    /\ stage = "saved"
    /\ stage' = IF Evaluate(plan) = {} THEN "passed" ELSE "rejected"
    /\ UNCHANGED <<plan, final>>

Apply ==
    /\ stage = "passed"
    /\ final' \in Outcomes(plan)
    /\ stage' = "applied"
    /\ UNCHANGED plan

PolicyNext == Review \/ Apply
PolicySpec == PolicyInit /\ [][PolicyNext]_policyVars

(***************************************************************************)
(* Properties.                                                             *)
(***************************************************************************)
\* What has to hold of a cell: databases, load balancers and services are
\* private, every task runs a digest, every distribution has an ACL, every
\* bucket a complete block, and every AWS provider is bound to the account.
SafeIn(r, rs) ==
    CASE r.type = "db_instance" ->
           /\ r.v.multi_az = "true" /\ r.v.storage_encrypted = "true"
           /\ r.v.publicly_accessible = "false"
      [] r.type = "lb" -> r.v.internal = "true"
      [] r.type = "ecs_service" -> r.v.configurations = <<"false">>
      [] r.type = "ingress_rule" -> {r.v.cidr_ipv4, r.v.cidr_ipv6} \cap World = {}
      [] r.type = "bucket" ->
           \E b \in ToSet(rs) :
              /\ b.type = "public_access_block" /\ Complete(b)
              /\ b.v.bucket = r.v.bucket
      [] r.type = "task_definition" -> UseDigests(r.v.container_definitions)
      [] r.type = "distribution" -> r.v.web_acl_id = "acl"
      [] OTHER -> TRUE

BoundToAccount(p) ==
    /\ "aws" \in DOMAIN p.providers
    /\ \A n \in DOMAIN p.providers \cap AWSProviders : p.providers[n] = <<Expected>>

\* What this module is given comes from a call that only mentions the image.
GivenMention(m, p) ==
    \E n \in 1..Len(m) :
        /\ p.calls[SubSeq(m, 1, n)] = "mention"
        /\ \A k \in (n + 1)..Len(m) : p.calls[SubSeq(m, 1, k)] = "reference"

\* Where the policy takes an expression for proof because something is mentioned
\* in it: the image in a task definition or on its way there, an ACL by being in
\* the plan, a bucket in the only block that may be its own.
RestsOnMention(r, rs, p) ==
    CASE r.type = "task_definition" ->
           /\ r.unknown # {} /\ r.usesImage
           /\ r.exact => GivenMention(r.path, p)
      [] r.type = "distribution" ->
           r.unknown # {} /\ ~r.exact /\ \E w \in ToSet(rs) : w.type = "web_acl"
      [] r.type = "bucket" ->
           LET blocks == {b \in ToSet(rs) : b.type = "public_access_block" /\ Complete(b)} IN
           /\ \E b \in blocks : Refers(b, r)
           /\ \A b \in blocks : ~(b.exact /\ Refers(b, r)) /\ b.v.bucket \notin {r.v.bucket} \ {""}
      [] OTHER -> FALSE

\* A plan that passed leaves a safe cell, whatever OpenTofu makes of what was
\* unknown, but for resources whose verdict rests on a mere mention: everywhere
\* else the policy takes an unknown value for safe only where the configuration
\* proves what it will be.  (The address lists of security groups are read as
\* far as they are known, and are left out here.)
PassedPlanIsSafe ==
    stage = "applied" =>
        /\ BoundToAccount(plan)
        /\ \A i \in DOMAIN final :
              SafeIn(final[i], final) \/ RestsOnMention(Listed(plan)[i], Listed(plan), plan)

Backwards(p) == [p EXCEPT !.planned = Reverse([i \in DOMAIN @ |-> Reverse(@[i])]),
                          !.changes = Reverse(@)]

\* Every bucket has a name of its own: a plan with two of one name is judged by
\* the last of them, and cannot be applied.
NamesDiffer(rs) ==
    \A i, j \in DOMAIN rs :
        /\ rs[i].type = "bucket" /\ rs[j].type = "bucket"
        /\ rs[i].v.bucket # "" /\ rs[i].v.bucket = rs[j].v.bucket
        => Address(rs[i]) = Address(rs[j])

\* The verdict is about the plan and not about how it is written: neither the
\* order of the resources counts, although the last block of a name wins, nor
\* whether they are listed as planned values or as changes, among which are
\* deletions.
VerdictIsStable ==
    stage \in {"passed", "rejected"} /\ NamesDiffer(Listed(plan)) =>
        \A p \in {Backwards(plan), [plan EXCEPT !.planned = <<>>]} :
            stage = "passed" <=> Evaluate(p) = {}
=============================================================================
