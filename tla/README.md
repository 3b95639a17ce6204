# A TLA+ model of accountable

This directory models the control logic of accountable: what its processes do
to the database, the secret store, the network and to each other, in which
order, and what goes wrong when a step fails, is repeated, or meets another
process half way. Modules are checked with TLC on small instances and, where
marked, proved with TLAPS for every value of their constants.

Paths below are relative to `src/`.

## 1. The system

accountable is a cell: one Postgres database, an API process, and one-shot
commands that prepare the database, plus a web application served as static
files. `.github/workflows/cell-runtime.yml` runs, for one cell at a time,
bootstrap, then migrate, then preflight, and then rolls the API out.

| component | state it keeps | operations | talks to |
|---|---|---|---|
| schema migrator (`cmd/migrate`, `internal/migration`) | the advisory lock, goose's version table, the schema-state row | one run: lock, read version, mark dirty, apply, finalize, unlock | Postgres |
| API server process (`cmd/api/serve.go`) | readiness, listener, slots of the limit listener, connections, shutdown timer | listen, serve, monitor dependencies, drain, force close | clients, dependencies, signals |
| request pipeline (`internal/server`, `internal/apierror`) | per request: identity, deadline, problem | availability, deadline and boundary interceptors, problem mapping | API handlers |
| services (`internal/modules`) | none between requests | GetRuntime; Correlate, CookieRoundTrip, Fail, Wait, Stream | request pipeline |
| foundation (`internal/bootstrap/dependencies.go`) | the dependency set and its pool | Build, Check, Ping, Close | database, storage, crypto, clock |
| database access (`internal/platform/database`) | the pool | open, Check, Ping, CheckClock | Postgres, secret source |
| database bootstrap (`cmd/bootstrap`) | roles, passwords and grants in Postgres | one run: two secrets, two roles, seven grants | secret store, Postgres |
| secret store (`internal/platform/secret`) | secrets in Infisical or in files | login, read, create, resolve-or-create | HTTP, file system |
| crypto, storage, clock health, feature flags | none between calls | Seal/Open, S3 posture checks, adjtimex check | KMS, S3, kernel |
| configuration (`internal/bootstrap/config.go`, `internal/appconfig`) | none | parse and cross-check a document | files |
| OpenTofu policy (`internal/tofupolicy`) | none | evaluate a plan | a plan file |
| web providers (`apps/web/src/i18n`, `components/theme-provider.tsx`) | active locale and catalogue, theme | asynchronous catalogue loads, storage events | fetch, local storage |
| web probe (`apps/web/src/lib/architecture-probe-bridge.ts`) | what the page has seen of a stream | startStream, streamState, and functions of one call each | API |

Shared state is the database: bootstrap creates the roles migrate and the API
log in with, migrate writes the schema-state row, and the API and preflight
read that row once, when they build their foundation. Everything else is calls
within a process, signals, and HTTP.

### Hard behaviours, and what makes each component correct

* **Migrator.** Several runs, perhaps of different releases, meet on one
  database; each statement commits on its own. A run may die between any two of
  them, its backend may outlive it, and its session may be cut while it lives.
  Correct means: only one run is inside at a time, a reader that sees a clean
  row sees the schema it names, nothing is applied twice or out of order,
  success means a supported schema, and no failure blocks the lock for good.
* **API process.** Three goroutines and one per connection share the server:
  the accept loop blocks on a semaphore, the monitor sets readiness, main
  drains under a timer. Correct means: slots are neither leaked nor given back
  twice, the limit holds, a draining request is not cut before the timeout, a
  clean exit leaves nobody, a signal ends the process, and readiness follows
  the dependencies.
* **Bootstrap and the secret store.** Resolve-or-create is a read and a create
  with a window between; the create's answer may be lost; the role statements
  are not one transaction. Correct means: after a completed run the password
  of each role is the stored secret, a stored secret is never replaced, and a
  rerun after any failure completes.
* **Request pipeline.** Three clocks run over one request: the server's read
  and write timeouts and the deadline that the interceptor sets, which start at
  different moments. Errors are made by the handlers, by each interceptor, by a
  recovered panic and by connect itself, before the boundary and behind it.
  Correct means: every error that leaves is a safe problem with the identity of
  its own request, every request ends, and an answer that is made is in time to
  be written.
* **Foundation and configuration.** Build opens one dependency after the other
  and may fail, be cancelled or die at each; a check writes an object and has to
  remove it with a context of its own. A document's rules are spread over many
  functions of two files, and code further on relies on what they add up to.
  Correct means: nothing is left behind by a process that has ended, no accepted
  document leads to a nil secret source or to an unmanaged production, and what
  preflight has passed comes up.
* **Plan policy.** A plan is judged before some of its values are known and
  applied after. Correct means: a plan that passed leaves a safe cell, whatever
  these values become, wherever the policy rests its verdict on more than a
  mention (see "What properties exempt"), and the order in which it lists its
  resources is of no account.
* **Web providers.** Loads finish in any order; tabs write one item and hear of
  each other's writes later. Correct means: the last choice wins, a failed load
  does not replace a working catalogue, and tabs end up with the saved theme.
* **Web probe.** Correct means: a stream that ended early is not shown as
  complete.

## 2. Modules

| module | models | status |
|---|---|---|
| `SchemaGate` | the abstract promise of the schema-state row to its readers | checked, refined |
| `Migration` | the migrator, several at once | checked, proved |
| `MCMigration` | instances of `Migration` | |
| `MigrationProofs` | proofs about `Migration` | proved |
| `ApiServer` | goroutines and connections of the API process | checked, proved |
| `ApiServerProofs` | proofs about `ApiServer` | proved |
| `BootstrapRoles` | database bootstrap and the secret store, several runs at once | checked, proved |
| `BootstrapProofs` | proofs about `BootstrapRoles` | proved |
| `Cell` | `BootstrapRoles` and `Migration` composed with the deployment workflow and the readers of the schema | checked, proved |
| `MCCell` | instances of `Cell` | |
| `CellProofs` | proofs about `Cell` | proved |
| `Config` | what `Parse`, `parseAPI`, `LoadAPI` and `LoadFoundation` accept | checked and proved as part of `Foundation` |
| `Foundation` | processes that load a document, build, serve and end | checked, proved |
| `MCFoundation` | documents for `Foundation` | |
| `FoundationProofs` | proofs about `Foundation` and `Config` | proved |
| `TofuPolicy` | the policy on a plan, and the plan applied | checked, proved |
| `MCPolicy` | plans for `TofuPolicy` | |
| `PolicyProofs` | proofs about `TofuPolicy` | proved |
| `MCDelivery` | `Foundation` and `TofuPolicy` in one run | |
| `RequestPipeline` | a request through the routes, the interceptors and the services | checked, proved |
| `RequestProofs` | proofs about `RequestPipeline` | proved |
| `ProbeBridge` | the web probe over `RequestPipeline` | checked, proved |
| `LocaleProvider` | the interface language of the web application | checked, proved |
| `ThemeProvider` | the theme of its tabs | checked, proved |
| `WebProofs` | proofs about `LocaleProvider`, `ThemeProvider` and `ProbeBridge` | proved |
| `MCWeb` | the last three in one run | |

### Migration

Constants give each migrator process the catalogue and the schema window its
binary was compiled with, so that two releases can be run against each other.
Each action is one SQL statement or transaction with the Go code up to the next
one (`pc` names the statement): `TryLock` (lines 30-36 of `migration.go`),
`ReadVersion` (37-62), `ValidateCurrentState` (106-119), `ProbeState` and
`MarkDirty` (87-104), `StartUp`, `NextMigration`, `ApplyMigration` (one
iteration of `goose.UpContext`, line 66), `RereadVersion` (69-75), `Finalize`
(76-84), `Unlock` (34-36 and the closing of the pool). `Fail` is the error
return of any of them, `Crash` the end of the process between two of them,
`ReapSession` Postgres noticing, `LoseSession` a cut session that database/sql
replaces, and `Rerun` another invocation.

The variables are the lock, goose's last version, the set of committed versions
(`applied`, with `twice` as a history of repeats), the row, and per process its
`pc`, the version it last read, how its run returned and how often it ran.

### ApiServer

`main`, `acceptor` and `monitor` are the program counters of
`serveWithDependencies`, of the goroutine running `Serve`, and of
`monitorDependencies`. `conn[c]` is the state of a connection as net/http keeps
it, with `dead` for one that main closed and whose goroutine has not noticed.
`held` and `slots` are the `limitedConn`s not yet closed and the tokens in the
semaphore: they are separate so that a double or a missing release shows.
`Shutdown` is `BeginShutdown` (closes the listener Serve has registered),
`ServeGone` (waits for Serve, ignoring its context), rounds of `PollIdle`, and
`ForceClose` when the timer has fired. What net/http does is modelled from what
this code relies on and marked external where no line of the repository stands
for it.

### BootstrapRoles

A run of `cmd/bootstrap` resolves two passwords and then talks to Postgres.
`ReadSecret` and `CreateSecret` are the two requests of
`InfisicalSecretStore.ResolveOrCreateBatch` (`secret_infisical.go:72-107`) with
the generation of a password between them; `Connect` is the master password and
`openMasterDatabase`; `ProbeRole`, `CreateRole` and `AlterRole` are the
statements of `ensureLoginRole` (`cmd/bootstrap/main.go:222-245`); `Grant` is
one of the seven statements of `initialiseDatabase` (205-219); `Report` is the
nil return. `Fail` is an error, a lost answer (the request or statement took
effect, the run does not know) or the end of the process; `Start` is another
invocation.

`stored` is the secret store and `exists`, `password` and `granted` are the
database; each run has its `pc`, the role or statement it is `at`, the passwords
it holds (`value`) and an `outcome`. Passwords are numbers, a new one each time
one is generated. Two facts about the surroundings are assumed: the store
refuses to create a name it has, and Postgres a role it has.

### Cell

`Cell` instantiates both task modules over a shared store and database and adds
the rest of a deployment:

* the workflow (`.github/workflows/cell-runtime.yml:92-102`): `Dispatch`,
  `AfterBootstrap`, `AfterMigrate`, `AfterPreflight`. Runs of it never overlap,
  but `scripts/aws/run-ecs-task.sh:34` waits for a task with a limit and does
  not stop the task: `GiveUp` leaves it at work while a later run begins;
* the credentials: a migrate task, preflight and the API read their password
  from the store (`ResolvePassword`) and log in with it (`LogIn`), each of which
  turns the task away when the bootstrap state is not there. A network failure
  of a login is `M!Fail` at the first statement or `ReaderFails`;
* the readers (`CheckSchema`): `Build` checks the schema when it opens the pool
  and once more when everything else is built;
* the API service of `compute.tf`: `Deploy` of a release, `RestartApi` for a
  task that ended. Nothing makes a deployment follow preflight, so `Deploy` is
  possible at any time. Releases are dispatched and deployed in order; going
  back to an older one, and ECS's own rollback, are not modelled.

`hidden` records migrations that ran before the statement of bootstrap that
gives the API role the tables of the migration role by default.

### LocaleProvider

`Open` is `loadInitialLocaleState` and the first render, `SetLocale` a change of
the language switcher with `setLocale` (lines 147-162 of `locale-provider.tsx`:
`Keep` when the locale is the active one, `Load` otherwise), `Settle` the end of
a fetch, `Resolved` and `Rejected` the callbacks (163-182), `Commit` a render
with its layout effect (142-145), `Reload` a new page. `cache` is `bundleCache`,
which holds promises: choices of one locale share a fetch. `bundle`, `pending`
and `loadError` are React state as last set; `active` and `display` are what the
last render put on the page. Locales are model values; matching of language tags
is left out, so address and cookie name a selectable locale or none. The cookie
is shared between tabs; one tab is modelled. The formatting locale is not.

### Config

`Config` has no state: it is the predicate `Loads(binary, doc, pair)`, with one
operator for each function of `internal/bootstrap/config.go` and
`internal/appconfig/api.go`. A document is a record of sections, a section a
function from its TOML fields to values. A text is told apart as far as the
rules tell it apart: `"bad"` stands for one that matches no pattern, `""` for
none, and fields that are compared with one another keep their values. Of several errors only that there are some is kept.

### Foundation

`world` says of each question that an adapter asks (does the database answer, is
the bucket's public access blocked, is the kernel clock synchronized) whether it
is answered as the code wants. `Stages` are the constructors of
`bootstrap.Build` and then the parts of `Check`, in their order; `Wanted` says
which of them a document and a binary need, `Asks` what each asks of the world,
and one operator for each adapter function says which questions these are. `Ask`,
`Open`, `Put`, `Get` and `Delete` take the next stage; a failure in it closes the
pool if the return of that stage goes through `fail` (`ClosesPool`) and, behind
the write of the preflight object, removes the object.
`Unbounded` are the stages that do not look at the caller's context, the removal
(`storage_s3.go:66-74`) first among them. `Built` returns to the command:
preflight reports and closes, migrate goes on to migrate, the API serves and its
monitor asks `Ping`. `Stop` is the deferred `Close`.

Facts change, the process is cancelled, dies, or loses the answer to a write, at
any time (`Change`, `Cancel`, `Crash`, `PutUnanswered`). Processes follow each
other over one document and world; `vouched` is a history variable that says that
a preflight has passed and nothing has changed since it began, `excused` that
the object could not be removed for a reason outside the program.

### TofuPolicy

`Evaluate` and the operators above it are the functions of
`internal/tofupolicy/policy.go` on a plan: its providers, the image that each
module call passes on, planned values by module, changes, and for every resource
the fields that are unknown and what its configuration refers to. `Review` is
`cmd/tofupolicy`, `Apply` is `tofu apply` of the workflow `cell-plan.yml`:
`Outcomes` gives every unknown value each value that it may have then, which is
external and owes nothing to the policy's own tests. The policy sees of an
expression only what it refers to (`usesImage`, `refersTo`); the model also has
whether the expression is that reference and nothing else (`exact`). An exact
reference becomes the value it refers to. Any other expression becomes anything
(`Becomes`): containers with a tag among them, a distribution without an ACL, a
block of another bucket or of one outside the plan. What a module has for an image
is not taken from the policy's `Images` but from `ImageValues`: a call that is an
exact reference passes the caller's value on; one that only mentions the variable
(`"mention"`) passes anything; and a module that is given nothing has a default,
which may be a tag. A bucket without a name gets one from its address
(`Assigned`).

`WellFormed` is what a plan owes to OpenTofu rather than to the policy: its lists
are lists and its modules a tree (`PlanShaped`); a value that is unknown is left
out of the planned values; every planned resource, changed or not, is among the
changes, and they add only what is deleted; a resource without `count` and `for_each` is alone of its name; a
block whose known bucket is an exact reference has the name of that bucket;
and the values have the shape of the provider's schema. `PlansAssumption` asks
it of every plan, and TLC evaluates it on those of `MCPolicy`.

### RequestPipeline and ProbeBridge

`flow[r]` is a request: where it is, its age since its headers, the deadline
that the interceptor gave it (`due`), its identity, its answer and whether that
could still be written. `Arrive` is the mux and, for a stream, the interceptors;
`Body` is connect reading a unary message, before any interceptor, and `Message`
the same for a stream, inside of them. `Admit` is the chain of
`BoundaryInterceptor`, `AvailabilityInterceptor` and `DeadlineInterceptor`, and
`Return` the way back through `EnsureSafe`. `Handle`, `CheckWait`, `TimerFires`,
`CheckStream`, `Stream` and `ContextEnds` are the handlers of the system and the
probe service; the system service is an interface, so its implementation may
also panic, wait for its context or return any error.

`ProbeBridge` adds the page: `StartStream` resets the one variable
`streamState`, `Deliver` and `LoopEnds` are the loop that reads in the
background.

### ThemeProvider

Each tab has what it last rendered (`theme`), what it has set and not rendered
(`update`), the theme its effect last ran for (`applied`) and the class on its
page. `KeyDown` is the hotkey with its write to local storage, which may be
refused; React renders it at once, with anything set before. `StorageEvent`,
`RenderTheme`, `Effect` and `HandleChange` are the listeners, a render, the
effect of lines 138-155 and the media query. A tab that opens (`OpenTab`) reads
the item in its first render and listens only after its effects.

## 3. What is checked

| run | question | bounds |
|---|---|---|
| `migration` | exclusion, no stale clean row, nothing twice, refinement and release of the lock with three different binaries | 3 processes, 2 runs each, 3 versions |
| `migration_loss` | order of application and termination when a session is cut | 2 processes, 2 runs each, 1 loss |
| `migration_dirty` | does a failed migration leave a dirty row? (it does not) | 2 processes |
| `migration_bypass` | does the lock exclude when a session is cut? (it does not) | 1 loss |
| `migration_late` | does success mean the catalogue is applied? (it does not) | 2 processes |
| `api_server` | slots, drain, clean exit; a signal ends the process; readiness follows the dependencies | 3 connections, 2 slots |
| `api_server_prompt` | is a shutdown bounded without the idle timeout? (it is not) | 2 connections, 1 slot |
| `bootstrap` | passwords agree, success means complete, nothing complete is undone; running it again completes it | 2 runs, each repeated, 2 failures |
| `cell` | readable tables, no task turned away, nobody serves a schema it does not have | 2 releases, 2 bootstraps, 2 dispatches, 1 failure of each kind, 1 lost session |
| `cell_live` | preflight agrees with migrate; a prepared release serves | as `cell` with 1 bootstrap and no lost session |
| `delivery` | no nil source, nothing left behind, managed production, preflight predicts; a passed plan is safe and its verdict stable | 1,200 documents, 2 processes, 1 mishap; 8,500 plans of up to 3 resources |
| `web` | the last choice wins, what is shown survives a reload, the switcher comes to rest; tabs agree; errors are safe, answers written, requests end, streams whole | 3 locales, 3 choices, 1 reload; 2 tabs, 2 presses, 2 upsets; 2 requests |

`delivery` and `web` each hold parts that share no state: a behaviour is about
one of them, named by the variable `part`, and the variables of the others rest.
A part's properties are checked as if it ran alone.

### Why the bounds are enough

Three migrators are one inside a run, one that
contends and one that arrives after; two runs each give every one of them a
retry over what any other left. The catalogues of `migration` include a gap
(a binary with version 2 only) and a window its own migrations overshoot, so
that goose's refusal and the rejection of an unsupported version both happen.
One lost session is enough to put two migrators inside; that every run ends is checked
with it (`migration_loss`), since no run may hang on it either. With three clients and
two slots the limit is reached, one client waits and one slot changes hands;
more of either repeats it.

Two bootstraps, each started again at will, are one that creates, one that loses
the race, and any number that come after both; a failure in each leaves two
half-finished runs to repair. In `Cell` the second dispatch meets the tasks the first one
left behind, and the second release adds a migration the first does not know.
`PreflightAgrees` is checked without lost sessions: with one, a second migrator
can start between a migrate task and its preflight, as `migration_bypass` shows.

The documents of `delivery` are every coherent one (for each environment and
mode, role and set of capabilities that go together) and each of the full ones with one field
given another value, or one section removed or added: a rule that is missing
shows in one change. Two processes are a preflight and one that relies on it;
one mishap is a change, a cancellation, a death or a lost answer at any of the
fifteen stages. The plans are each kind of resource with each of its values and
with the value unknown, buckets and access blocks in every pair and in threes
of one bucket with two blocks and two buckets with one (of which several may
have, or name, one name), and a task in each of three modules with all ways to
pass the image on; each reference is exact in one plan and a mention in another.

Two requests are enough to mix up identities. Time is counted in ticks of about
seven seconds, so that the deadlines of the repository's configurations (10 s
and 25 s) become 1 and 3 and the server's read and write timeouts (15 s and
30 s) become 2 and 4: their order is what matters. Delays and counts are taken
at, below and above the limits. Two tabs are one that writes and one that
hears; two presses are crossing writes, or one write over another; two upsets
are a tab that opens while the scheme changes.

Three choices of a locale are a load, one that overtakes it, and a retry or a
return to the first; more repeat these.

`MaxAttempts`, `MaxLosses`, `MaxFaults`, `MaxFailures`, `MaxDispatches`,
`MaxChoices`, `MaxReloads`, `MaxStarts`, `MaxMishaps`, `MaxPresses`, `MaxUpsets`
and the sets `Requests` and `Callers` (the requests that are not streams of the
bridge) are the only bounds on counters.

### Fairness

A migrator that can take its next statement takes it (`WF_vars(Step(m))`): it
is a sequential program whose statements return or fail. `Fail` and `Crash`
are not fair: nothing must go wrong. Postgres reaps the backend of a dead
client (`WF_vars(ReapSession)`), by TCP keepalive.

In the API process each goroutine is fair, timers fire, requests end (they have
deadlines), and a client that sends no header is dropped after
`readHeaderTimeout` (`PromptFairness`). `FairSpec` adds that an idle connection
is dropped after `idleTimeout`: that is what `SignalStops` needs, and its
absence is the question `api_server_prompt` asks. Signals and outages are not
fair.

A bootstrap run takes its next step, and bootstrap is started again when its
last run did not succeed: without that nobody would complete it. In `Cell` the
readers run on, the service starts another API task when one ends
(`desired_count`), and a prepared release is deployed; that the workflow is run
again, or a task gives up, is not fair.

In `Foundation` the process runs on, which is sequential Go code whose calls
have timeouts, and the monitor pings (`Step`, `Ping`). That `RequestsEnd` may be
assumed by `api_server` is what `web` checks: handlers run and time passes
(`Work`, `Tick`), and net/http stops waiting for a message at its read timeout
or when the client has gone. That a message arrives, or a client stays, is not
assumed.

In the web application fetches end, callbacks run and React renders; that a
catalogue arrives rather than fails is not assumed.

Deadlock is checked for bootstrap, where a run can always be started. In the
other runs it is not: all migrators are done at the end, a server that has
returned stays so, a cell whose workflow has run out of dispatches rests, and so
do an applied plan, a process that is the last one, and a page that nobody uses.

### What the violations show

* `migration_dirty`: `migration.go:67` reports "schema remains dirty" for any
  failure of goose. On an empty database there is no row, and after a failure
  of the first migration none appears; the readers still refuse the database,
  as behind rather than dirty.
* `migration_bypass`: the lock belongs to a session of the pool, not to a
  dedicated connection. When it is cut, the next statement runs in a new
  session, without the lock.
* `migration_late`: pending means above the database version. A migration
  dated below it is skipped and the run succeeds.
* `api_server_prompt`: with all slots held by idle clients the accept loop
  waits in `l.sem <- struct{}{}` (`serve.go:318`). Closing the listener does
  not wake it, and `Shutdown` waits for `Serve` before it closes idle
  connections or looks at its timeout.

### What properties exempt

`StuckFailsClosed` is a property that holds and is worth knowing: a run that
stops between the last migration and the finalizing update leaves a dirty row
with nothing pending. No later run repairs it; all of them fail, and none
reports success.

`LastChoiceShown` and `SurvivesReload` have one exception, marked by `crossed`:
a choice made between `setBundle` and its render compares with the locale still
on the page (`locale-provider.tsx:151`). If it names that locale, cookie and
address keep it while the page then renders the other one. The runs show that
the next choice or a reload repairs it.

`TabsAgree` exempts a tab that is `loose`: its own write was refused, or an
older event was on its way to it when it wrote (crossing writes leave two tabs
with each other's choice), or it was told before it listened. A later event or a
new tab repairs it.

`NothingLeftBehind` exempts an object whose write took effect without an answer
(the code returns without removing it, `storage_s3.go:63`), whose removal the
store refused, or whose process was killed.

`PreflightPredicts` assumes the two facts that only `Ping` asks for, the
description of the KMS key and the owner's write bit of the root (`PingOnly`).

`ErrorsAreSafe` exempts a cancelled call, which `EnsureSafe` passes unchanged,
and a unary message that cannot be read, which connect answers before any
interceptor has run. `AnswerWritten` rests on `UnaryAssumption`: the time to
read a message and the unary deadline fit the write timeout together. `parseAPI`
compares each deadline with the write timeout alone; the configurations of the
repository (10 s after at most 15 s, within 30 s) satisfy it.

`StreamIsWhole` exempts streams of the page that overlap: both loops write the
same variable.

`VerdictIsStable` is about plans in which no two buckets have the same name
(`NamesDiffer`). Without that it is false: the map from names to addresses
(`policy.go:211`) keeps the last bucket of a name, the other one is then taken for a
bucket without a name, and whether the block of that name counts for it depends
on which of the two is listed last. S3 refuses to create the second, so such a plan
cannot be applied; it is checked nonetheless that what passes is safe.

`PassedPlanIsSafe` exempts a resource whose verdict rests on a mention
(`RestsOnMention`). In four places the policy takes for proof that something
occurs in an expression or in the plan, and cannot tell that from a reference:

* an unknown `web_acl_id` passes if the plan has any ACL (`policy.go:232`), even
  if the distribution ends with none;
* an unknown task definition passes if its containers mention `var.image_uri`
  (`policy.go:280`): a second container or a string built from the variable shows
  no difference;
* a module call passes the image on if its `image_uri` mentions the variable
  (`policy.go:292`), a concatenation or a conditional too;
* a block protects the first bucket that its `bucket` mentions (`policy.go:327`).

In each of them the property fails without its part of the exemption. The
exemption ends where there is other evidence: a task whose module is given a digest
below the mention, a bucket with another block that is exactly its own. The cell's
own configuration has exact references in these places: `image = var.image_uri` in
containers of which every task has one (`compute.tf`), whose module also refuses a
tag (`variables.tf:120`); `web_acl_id = aws_wafv2_web_acl.edge.arn`
(`edge.tf:283`); `bucket = aws_s3_bucket.data.id` (`storage.tf:74`). That it goes on
doing so is not something the policy enforces.

None of these is contradicted by a document or a test; the ones that can go
wrong in the code are recorded as hazards. One hazard has no property: a draining
process may report ready again, since the monitor checks its context
(`serve.go:290`), main sets readiness to false, and the monitor sets it to true
(`serve.go:293`). No document says it must not.

## 4. What is proved

`MigrationProofs` proves, for all sets of migrators, catalogues, windows and
bounds that satisfy the named assumptions of `Migration`:

* `TypeCorrect`, with sessions lost any number of times;
* under `MaxLosses = 0` (the lock is not lost while its holder lives, without
  which `migration_bypass` shows exclusion to be false): `MigratorsExclude`,
  `CleanRowIsSettled`, `MigrationsApplyOnce`, `SuccessfulRunIsSupported`,
  `VersionGrows`, `CleanedOnlyWhenComplete`, `StuckRowFailsClosed` and `MigratorImplementsGate`, the
  refinement of `SchemaGate`;
* `MigrationsApplyInOrder` for catalogues that extend each other, with lost
  sessions.

None of the properties is inductive. `IInv` adds to the types that a migrator
inside its run owns the lock (`LockInv`: a crash hands the lock to `Orphan`, so
exclusion survives the crash), that nothing above goose's version is applied
and a mutating migrator has closed the row (`SchemaInv`), and what the lock
holder has read and may still rely on (`Knows`): between its last read of the
version and its next write the version is unchanged, because nobody else is
inside. `OrderInv`, for the last theorem, does not use the lock.

`ApiServerProofs` proves for any finite set of clients and any number of slots:
`TypeCorrect`, `SlotsAreExact`, `LimitHolds`, `CleanExitIsClean` and
`DrainIsNotCut`. `SlotInv` counts: the tokens in the semaphore are the
connections that hold one and the one the accept loop has taken and not yet
handed on. `LifeInv` relates the stage of the shutdown to what can still be
open in it, which is what a clean exit rests on. That set cardinalities change
by one when a connection opens or closes is stated once, in `OpenAfter` and
`ReleaseCount`.

`BootstrapProofs` proves for any number of runs and failures: `TypeCorrect`,
`PasswordsAreStored`, `SuccessIsComplete` and `CompletenessIsStable`. The
argument: the store never replaces a secret, so once a run holds a resolved
value it is the stored one, for ever (`RunInv`, per run and place in the
program, with what that run has completed so far); `NothingIsLost` says that no
other run can take any of it back.

`CellProofs` rests on two simulations: the bootstrap tasks of a cell implement
`BootstrapRoles` (`BootstrapInCell`) and its migrate tasks implement `Migration`
(`MigrationInCell`); the workflow, the tasks of the other kind and the readers
are stuttering. What the other modules prove of these tasks is cited through
them. `TypeCorrect` adds the types of the workflow. Then, for any number of tasks,
dispatches and failures:

* `TablesStayReadable`. `OrderInv` says that a migrate task is launched, resolves
  its password, logs in and migrates only over a complete bootstrap, and
  completeness is kept by every later step of any bootstrap (`CompleteKept` of
  `BootstrapProofs`).
* `NobodyIsLockedOut`. `LoginInv` adds that what a task has resolved is the
  stored password, and that preflight, like the migrate tasks, is only launched over
  a complete bootstrap; neither is ever undone (`NothingIsLost`).
* `ServingIsNotBehind`, for catalogues that extend each other (`CataloguesExtend`: no
  binary lacks a migration older than one it has, because the repository only
  adds migration files, later than those it has). `ServeInv` says that the
  row names a version that was committed and that versions are committed in order,
  so that a row a reader accepts has everything below it. It does not use the lock, so it holds with any
  number of lost sessions.
* `PreflightAgreesWithMigrate`, under `MaxLosses = 0` and for releases each of which
  has the migrations of the earlier ones (`ReleasesExtend`). `AgreeInv` says that
  when the workflow has seen its migrate task succeed the database is `Settled`: the
  row is clean in the window of that release, and no task of this or an earlier
  release has anything left to apply, so a task that an earlier run of the workflow
  left at work finds nothing to do and does not open the row again. With a lost
  session it is false: a second migrator can start between a migrate task and its
  preflight.

`RequestProofs` proves for any number of requests, any calls and any deadlines
that satisfy `TimeoutAssumption` and `UnaryAssumption`: `TypeCorrect`,
`ErrorsNameTheirRequest` and `AnswersAreInTime`. The invariant is about one
request (`Good`): from the boundary on it has its own identity, where it is
bounds its age (the read timeout for a message, its deadline, which is below the
write timeout, behind it), and its answer is safe when it is over. `OneRequest`
carries it from the request that moves to all.

`FoundationProofs` proves for any set of documents and any number of processes
and mishaps: `TypeCorrect`, `SourceIsThere`, `ProductionIsSafe`,
`ProcessesCleanUp` and `PreflightIsRight`. `Accepted` keeps that a process which
runs loaded its document, from which `ParsedIs` and `NeverNil` conclude that
whatever calls the secret source comes with the capability for it. `Objects`
keeps that the removal is still ahead while the object exists, and `Planned` that
an open pool has only stages ahead that close it when they fail. `Vouched` keeps
what preflight has asked: each stage behind it asked facts that hold unless
something changed, and the questions of the other binaries are among those
(`SameQuestions`), those of `Ping` too but for two (`PingIsAsked`). The pieces of
`Config` are cited one rule at a time, so these proofs also say which rules
each conclusion rests on.

`WebProofs` proves, for any locales and any number of choices, reloads, tabs, key
presses and requests:

* of `LocaleProvider`: `LanguageTypes`, `LastChoiceIsShown`,
  `LanguageSurvivesReload`, `ErrorsAreCurrent` and `FailuresAreForgotten`.
  `LocaleInv` relates the state React holds to the stage of the last choice alone
  (`Latest`): until it is answered the page is busy, an applied one is the bundle,
  a failed one is the error, and older choices are late whatever their catalogue
  does. What a reload would negotiate is then the bundle;
* of `ThemeProvider`: `TabsComeToAgree`. `ThemeInv` follows the last event in a
  tab's inbox: unless the tab is loose, the theme it will have once it has
  heard and rendered everything (`Final`) is the saved one;
* of `ProbeBridge`: `PageIsAClient`, that under the page the API is a behaviour of
  `RequestPipeline`, so that the theorems of `RequestProofs` hold of its
  requests, and `StreamsAreWhole`. `BridgeInv` says that a loop that is alone
  has shown what it has received, and that a request the page reads ends in success
  only with its three messages sent (`ThreeInAll`).

`PolicyProofs` proves, for every set of plans that satisfies `PlansAssumption`,
with any number of resources, modules and references:

* `PassedPlansAreSafe`, with the exemption of `RestsOnMention`. One lemma for each way the policy reaches a verdict: values
  that must be known and right (`PlainIsSafe`), images that must be digests now or
  come from a variable that was given one (`ProvenIsSafe`), and buckets, whose
  access block the policy finds by name or, while names are unknown, by reference
  (`BucketIsSafe`, for which the assumptions on exact references and on resources
  without `count` are needed). `ImageIsPassed` compares the policy's walk over the
  module calls with what OpenTofu makes of them: where the walk ends in a digest and
  has met no mention on its way to the module (`GivenMention`), the module has
  that digest, whatever the defaults are;
* `VerdictsAreStable`. The verdict is a matter of the set of resources
  (`SetDecides`): every rule but that of buckets looks at one resource and at sets,
  and for a bucket a name has one owner, and all blocks of a plan that passes are
  complete, so it does not matter which one is last (`BucketOfTheSet`). A plan
  written backwards, or as changes only, lists the same set
  (`RewrittenListsTheSame`).

Two definitions of this module are recursive, the concatenation of the lists of
all modules (`FlattenSeq`) and the image of a module from that of its caller
(`Images`). What they compute is proved by least counterexample: the depths or
lengths at which a claim fails are a set of numbers, which has a least element if
it has any (`Least`, from the well-foundedness of the numbers), and there the
recursion leads one step lower. `FlattenSteps` and `ImagesIs` show in this way that
the recursive functions exist and satisfy their equations, `Flattened` and
`ImageIsPassed` conclude what they return.

All safety properties of the runs are proved. Model-checked only: all liveness
properties, since fairness and ENABLED are out of the prover's reach.

Proved and not run, because the proofs cover every instance: the types of all
modules with a theorem named `TypeCorrect` or `LanguageTypes`,
`SuccessIsSupported`, `VersionNeverGoesBack` and `ConnectionLimit`.

## 5. Plan

Done: `SchemaGate`, `Migration`, `ApiServer`, `BootstrapRoles`, `Cell`,
`Config`, `Foundation`, `TofuPolicy`, `RequestPipeline`, `ProbeBridge`,
`LocaleProvider`, `ThemeProvider`, with their runs and the proofs of section 4.

Left:

1. `Negotiate`, the matching of language tags, against a reference definition.
2. Readiness of a draining process, once a document says what it must be.

## 6. Not modelled

Generated protocol code, user interface components and styling, OpenTofu
configuration, container files and CI scripts: they keep no control state of the
program. Encryption itself (AES-GCM, KMS) and HTTP encoding are data
transformations out of TLC's reach.

Within the components that are modelled:

* Configuration: the web document and `webconfig`, which prints it, and the
  decoding of TOML.
* Foundation: feature flags, which nothing evaluates yet, and durations as
  numbers of seconds. A `statement_timeout` below a millisecond is accepted and
  becomes 0, which is no timeout: a numeric edge without a property.
* Plan policy: the address lists of security groups, which the policy accepts
  while unknown, are left out of `SafeIn`. Several instances of one `count` are bounded
  out.
* Requests: a `Connect-Timeout-Ms` set by a client, HTTP/2, preflight requests
  of foreign origins, the forwarding headers of proxies, the failure of a uuid,
  and the texts and keys of problems. Clients read what they are sent.
* Web: the formatting locale, the matching of language tags, transitions of
  the theme, the service worker and the display of errors. React 19 is taken to
  render what a key and what an earlier event set in one render.
* Deployment: ECS's own rollback, going back to an older release, and the
  publishing of static files.
