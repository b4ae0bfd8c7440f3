# TLA+ verification of terraform-provider-redpanda

The Redpanda Terraform provider is a plugin process that Terraform calls through
gRPC. For every resource of a configuration it implements Create, Read, Update,
Delete and ImportState; Terraform calls many of them at once and keeps what they
return in its state file. The handlers talk to two kinds of server: the Redpanda
Cloud control plane (clusters, networks, links, shadow links, ...), where work is
asynchronous and takes up to 90 minutes, and the dataplane of each cluster (topics,
users, ACLs, secrets, ...), where work is one call. What can go wrong is between
the two sides: the state file says something else than the cloud does, a resource
is created and then in nobody's state, one is removed that should have stayed, a
handler waits for ever. Between the two is the data: hundreds of attributes that are planned,
expanded into requests and flattened from answers, where one wrong form makes an apply fail
or never come to rest. That is what these modules are about.

Files: `<Component>.tla` models a component, `<Component>Proofs.tla` holds its
theorems, `MC*.tla` and the `.cfg` files are TLC instances, `PROJECT.json` maps each
definition to the lines of the source it models.

## 1. The system

Paths are relative to `src/redpanda/`.

### Components that keep state or coordinate

| Component | State | Operations | Interacts with |
|---|---|---|---|
| Connection pool, `cloud/connpool.go` | mutex, map URL -> connection, singleflight group | `GetConnection`, `CloseAll` | every dataplane handler; grpc's connectivity states; closing goroutines |
| Interceptor chain, `cloud/cloud.go` | semaphore of concurrent calls | every unary call: semaphore, rate limiter, token, `grpcretry` | all handlers; resends mutating calls |
| Rate limiter, `cloud/ratelimiter.go` | a `rate.Limiter` whose limit and burst the server's headers change | wait before, `SetLimit` / `SetBurst`, wait after | interceptor chain |
| Token cache, `cloud/auth/*` | a file that all provider processes of the machine share, a mutex per process, the token in memory | read, fetch with retries, write | token interceptor; other processes |
| Retry loop, `utils/retry.go` | deadline, back-off | repeat until success, final error, deadline or cancelled context | all waits below |
| Operation wait, `utils/utils.go` `AreWeDoneYet` | time of the last answered poll | poll an operation | network, serverless, private link, shadow link, cluster Update |
| Cluster wait, `utils/utils.go` `RetryGetCluster` | count of Unavailable answers | poll a cluster, call back | cluster Create and Delete |
| Topic, user, secret, ACL, `resources/{topic,user,secret,acl}` | Terraform state of the object | the five handlers | a cluster behind a lossy network, other users of it |
| Graceful removal, `utils/graceful_removal.go` | - | decides what an unreachable, denied or missing object does to the state | Read and Delete of the dataplane resources |
| Cluster, `resources/cluster` and the byoc plugin, `utils/byoc.go` | Terraform state, `ranByoc` | the five handlers | control plane, agent in the customer's cloud |
| Network, serverless cluster, private link, shadow link | Terraform state | the five handlers | control plane operations |
| Pipeline, `resources/pipeline` | Terraform state | handlers of several calls: stop, wait, update, start | dataplane |
| Schema, schema registry ACL, `kclients/*` | Terraform state | register then set the compatibility; poll until an ACL has propagated | schema registry (HTTP) |
| Role, role assignment, service account, resource group | Terraform state | one call per handler | dataplane, control plane |
| Schemas, models, conversions, plan modifiers, `resources/*/schema_*_gen.go`, `models/*`, `planmodifiers` | each attribute's value in the plan, the state and the API | plan, expand, flatten, refresh, import, data source | every handler; Terraform's core |

Without state of their own: control plane client set, dataplane clients, import
defaults, validators, provider configuration, and the build-time generators under `cmd/` and
`internal/`.

### What is hard, and what makes each part correct

- **Connection pool.** Goroutines race through a fast path, a singleflight call, a
  double check, a dial without the mutex and a store, while connections break and
  are evicted. Correct: one open connection per URL, none leaked, none of another
  cluster returned, no return with the mutex held, no dial that blocks other
  clusters.
- **Dataplane objects.** A request or its answer may be lost; `grpcretry` resends
  before the handler knows; a request given up on may land during a later handler;
  somebody else uses the same name. Correct: what is recorded was there, nothing
  is dropped from the state silently, `allow_deletion = false` protects whatever
  the cluster answers, a Create does not trip over its own earlier request.
- **Cluster.** The handler waits for the control plane and the control plane waits
  for the handler (the agent). Errors end the wait in a dozen ways. Correct:
  success means ready; a Create that knows the id leaves it in the state; a cluster
  is forgotten only when gone; both Create and Delete come to an end.
- **Operation resources.** Four resources that write the state at different moments
  and read `allow_deletion` in different ways. Correct: as for clusters, and what a
  failed Create leaves behind can be destroyed.
- **Call path.** Every call passes a semaphore, a mutex around a file that other processes write
  too, the rate limiter and `grpcretry`, and may be cut off at each of them; the process may
  die with the file half written. Correct: no slot lost or given back twice, never
  another service principal's token, a call the API carried out is not reported as failed, every
  call returns.
- **Attributes.** An attribute's value goes through the plan and its modifiers, an update mask, a
  request, the API's own defaults and Flatten with the plan as `prev`, and comes back at every
  refresh. Correct: the state is what the plan promised, a plan after an apply is empty, a
  refresh changes nothing, what is configured reaches the API and nothing else is changed there,
  drift is seen, an import does not ask for a replacement, and nothing stays unknown.
- **Oneofs.** The variants of a oneof are sibling attributes with plan modifiers of their own.
  Correct: the variant that is selected is the one that is set.
- **Not modelled yet.** Pipeline: three calls, any may fail. Schema: registration without
  compatibility.

## 2. Modules

### ConnPool, SharedConn, ConnPoolHistory (cloud/connpool.go)

`ConnPool` has one process per goroutine inside `GetConnection` (`pc`, `url`,
`res`), the mutex `mu`, the map `conns`, the singleflight map `flight`, and for
each connection its connectivity `state` and the URL it was dialled for. A section
under the mutex is a `Lock` step and one step that does its work and unlocks:
`FastHit` / `FastMiss` (lines 88-99), `CheckHit` / `CheckMiss` (104-114), `Store`
(121-124). `Lead` / `Join` are `sf.Do`, `Dial` / `DialFails` the dial, `Land` the
return of the flight to the leader and everybody who joined, `Close` one
`go conn.Close()`. `Fail` and `Recover` are grpc's. `CloseAll` is an atomic
action since it holds the mutex from beginning to end.

`SharedConn` is the promise without mutex and singleflight: a URL has at most one
shared connection, a connection is shared once, retired before the next takes its
place, and a request is answered with a connection that has been shared under its
URL or with an error. `ConnPool!Implements` maps the one onto the other.
`ConnPoolHistory` adds the connections that were closed when a call began.

### ClusterObject (resources/topic, user, secret, acl; utils/graceful_removal.go)

One object with a name on a cluster (`obj`), the requests that are at large
(`late`), Terraform's state (`held`, `allow`), and the handler that runs (`op`,
`at`, `given`). One module for four resources, `kind` says which: they share
their structure (call, probe after a transient error, adopt on AlreadyExists, graceful
removal), and differ in the topic's read-back, partition call and configuration
sync, and the ACL's local Update. A topic's configuration is one key and
its value: `Configured` records what the broker reports of it, or, when the broker is `"silent"` about
the key, what `mergeWithPlannedConfig` synthesizes (`Unreported`: the plan's value, or the prior state's in a
Read). That it leaves out the `redpanda.*` keys the server adds is not modelled. Every call ends in one of: processed and
answered (`Created`, `AlreadyExists`, `Updated`, `UpdatedNothing`, `Deleted`),
resent by `grpcretry` (`Resend`), a transient error (`Transient`, after which
Create probes and Update and Delete repeat or give up), any other error (`Fails`),
refused without effect (`Refused`). In the cases with a lost answer the request
joins `late` or not, and `Land` applies it at any later moment. `Others` is
somebody else's create or delete, `Killed` the death of the provider.

### Resource (what the handlers promise to Terraform)

The three modules around this section are nine resources with their calls, polls, probes and retries.
`Resource` is what they have in common, without any of these: an object that is there or is not and that
others create and delete as well (`Change`), the state that has it or not (`tracked`), the handler that
runs and what the object has been while it ran (`seen`). A handler may return in five ways. `Remember`:
the object enters the state, and was seen. `Confirm`: success, and it was seen. `Forget`: it leaves the
state, with a warning or because it was seen absent, and never with an error. `Miss`: there is nothing to
import. `Fail`: the state has what it had. So Create, Read, Update and Delete may
say "ok" only of what they have seen, and no error loses an object. `Accept` is the moment from which a Create knows an
object of its own. `misled` marks the behaviours with errors that are taken for absence and are none, in which alone `Forget`
may be wrong. `ClusterObject`, `ClusterLifecycle` and `OperationResource` map to it by `Promise`
(nothing but the presence of the object is kept, and "killed" is an error), and each implements it (`Implements`).

### ClusterLifecycle (resources/cluster; RetryGetCluster)

The cluster's state at the control plane (`cl`, `doomed`), the agent, Terraform's
state (`held`: none, the minimal state, or the full one; `allow`), the
configuration's wish, and the handler with `ranByoc` (`ran`) and
`transientRetryCount` (`misses`). The callback of `RetryGetCluster` is split by what it
finds: `PollWaits`, `PollRunsPlugin`, `PollReady`, `PollUnexpected`; what the
function itself does is `PollNotFound`, `PollUnavailable`, `PollFails`.
`PluginDone` and `PluginFails` end the plugin. `GivesUp` is how Create and Delete
take an error of the wait.

### OperationResource (resources/network, serverlesscluster, serverlessprivatelink, shadowlink; AreWeDoneYet)

The entity's state (`st`), what the control plane is doing to it (`work`), the
operation the handler waits for (`oper`), Terraform's state with the three values
of `allow_deletion` (true, false, null), the handler and the unanswered polls
since the last answered one (`quiet`). One module for four resources; where they
differ `kind` appears in a guard (`Deletable`, `DeleteNotFound`, `Flattened`,
`ReadDeleting`, `ReadBackFails`).

### CallPath, TokenCache (cloud/cloud.go, cloud/ratelimiter.go, cloud/auth)

One process per RPC. `pc` says in which interceptor it is, in the order of
`spawnConnInternal`: `Acquire` / `GiveUp` the semaphore (`sem`, one per connection), `GetToken`
the token, `Answer` / `Fails` / `Refused` the request and `grpcretry` around it (`attempt`),
`SetLimit` and `SetBurst` the two setters of the rate limiter (`limiter`, one per process),
`Pause` the wait for the reset, `Limited` the wait of the limiter, `Release` the
deferred release. `home` says on which connection a call runs, and `ProcessOf` in which process.
`End` ends a context, `Crash` kills a process, which keeps nothing but the file.

`TokenCache` is `cachingTokenSource.Token` over the `client_credentials` source: `Lock`
the package's mutex, `Lookup` the read of the file, `Fetch` / `FetchFails` the inner source with its
own token in memory (`inner`), `Truncate` and `Write` the two steps of `os.WriteFile`, between
which another process may read, write or die. `file` is the entries by audience and client, or
`Torn`, which `readCache` takes for an empty cache. `now` counts ticks of 5 seconds.

### Attribute, Conversion, AttributeTable and the tables (models, schemas, conversions)

The generated files say a few things about hundreds of attributes. The tables
(`AclTable`, `ClusterModel`, `ClusterConversion`, `ClusterSchema`, `ClusterDataSource`, `ClusterTable`,
`NetworkTable`, `PipelineTable`, `ResourceGroupTable`, `RoleTable`, `ServerlessClusterTable`,
`ServerlessPrivateLinkTable`, `ServiceAccountTable`, `ShadowLinkTable`, `TopicTable`, `UserTable`)
say each once, for the set of attributes it holds of, in the vocabulary of
`Tables`: its type in the model and in the attribute map, the form in which Flatten takes it from the
wire and Expand puts it there, how the schema lets it be set, its kind, default and plan
modifiers, and the same of the data source. `AttributeTable` brings them together to
one row per attribute and enclosing block, 418 rows of twelve resources, with the code
around Flatten: fields restored from the plan, ids a handler makes, siblings that a
plan modifier watches. `fits` says that model, decoder and schema give the attribute one type.
What the rows have in common is stated once more, as laws that the proofs rest on
(`RowsAssumption`), with the reason a row keeps to them in the generator, the schemas or the handlers:

| Law | Says | Because |
|---|---|---|
| `Enclosing` | a block is never a default and never write-only, is sent exactly if it can be configured, and one that the API may add has a plan modifier that keeps it | the generator has one way to write a block that may be null, one for a block behind `Has`, and one that keeps the plan's |
| `Placed` | where a request has no place for a block it has none for its attributes; what an update cannot send is computed, asks for a replacement, or belongs to the network, whose update is empty | one Expand per block, `RequiresReplace` on the fields a create alone has |
| `Suited` | the form in which Flatten takes an attribute suits the way the schema lets it be set (a default is not null after a read, a write-only value is not read at all, a pointer tells absence from zero) | the generator chooses both from one descriptor, and a restored field is one that the handler copies from the plan |
| `Planned` | one plan modifier that pins, on every computed attribute without a default; what asks for a replacement is kept by the plan; a handler that stores the plan or the prior state finds no unknown in it | the modifiers listed in `resources/*/schema_*_gen.go` |

With them goes `fits`. TLC evaluates the laws for all 418 rows before it makes a step: an attribute that is added and breaks one fails
the run `attribute`, and the theorems below are about it as soon as it does not.

`Conversion` holds what a form does to a value: null, unknown, zero, `a`, `b` on the Terraform side;
absent or a value on the wire, where a field without presence cannot hold zero. `alias` is `a` in another
spelling, which only durations, timestamps and JSON objects have: Expand parses it (`Parsed`), and Flatten, which writes
`a`, never makes it.

`Attribute` takes a row through every history: `Configure` is an edit of the configuration,
`Create` and `Update` an apply (plan with its modifiers, Expand, the API's answer, Flatten,
Terraform's verdict on the result), `Drift` a change by somebody else, `Read`, `ImportState`. An
attribute is followed together with the block it is nested in (`up`, `own`). Update is one of
five, by the resource: `MaskedUpdate` (cluster, serverless cluster and private link, service
account, shadow link) sends nothing where the payloads of plan and state agree; `WholeUpdate`
(pipeline, user) sends the plan; `PlanStored` (topic, role, resource group) makes the plan the state;
`StateUpdate` (ACL, and a user without a change of password) keeps the state; `EmptyUpdate` is the
network's. What else changes in the same apply is `other`, a change of the sibling a plan
modifier watches is `moved`. `policy` is what the API assigns to what is left out.

### Oneof (maintenance_window_config, start_at)

The variants of a oneof as a set of attributes: which the configuration selects, which the plan
modifier keeps from the state, and Expand, in which the last one set wins.

### Abstractions

- ClusterObject, ClusterLifecycle and OperationResource have a rigid variable `faults`, chosen once in
  `Init`: the errors that make the code draw a wrong conclusion (a denied lookup, an error whose text
  merely looks like not found, an answer without an operation, a configuration key
  that the broker does not report). A property that
  does not hold with one of them says so; all others hold with them too. Every
  ordinary error is possible everywhere, always.
- Time is a choice: a timeout, a cancelled context or a spent deadline may end a
  wait at any poll (`PollFails`, `Transient`). `AreWeDoneYet`'s stuck cap is a number
  of polls.
- `was` (a history variable) holds what the object has been since the handler started; the
  properties compare what a handler says with it.
- In the handlers' modules data is a value: a plan is one of two values and an `allow_deletion`.
  What happens to each attribute is the subject of `Attribute`, which in turn has no
  failures: an apply succeeds. An attribute's siblings are there as
  `other` and `moved`, not with their values. Element conversions of lists and maps are a value.
- The API is taken to keep its own values: an Update that leaves a Computed attribute alone changes it only
  if it is coupled to what the update moves (`coupled`), and what it assigns to an optional attribute it does not take
  back. A value the API changes by itself, a status say, is `Drift`, which a refresh sees first. If it fell
  between the plan and the answer of an Update, a pinned value would contradict the plan.
- A call with a static token, which has no cache, is not in `CallPath`.
- Update of a cluster is one step with its wait, since nothing is saved between.
- A Read of a topic or an ACL whose state has no `cluster_api_url` removes it without
  asking; no handler writes such a state, so the model has none.

## 3. Runs

| Run | Checks | Shows | States |
|---|---|---|---|
| conn_pool | `IInv`, `NoLeak`, `SingleConnection`, `Implements`, `OtherClustersServed` | one open connection per URL even while it is replaced, none leaked, mutex and flights consistent, the pool implements `SharedConn`, and calls return while the dials to another cluster do not | 321711 |
| conn_pool_stale | `NeverReturnsClosed`, violated | finding 1 | |
| cluster_object | `IInv`, `NeverSilent`, `Recorded`, `Protected`, `Implements` | nothing is dropped silently, what is recorded was there (or is kept of the plan where the broker is silent), `allow_deletion = false` protects, and the handlers implement `Resource` | 132197 |
| cluster_object_orphan | `NoOrphan`, violated | finding 2 | |
| cluster_lifecycle | `IInv`, `Created`, `CreateHolds`, `ForgottenWhenGone`, `Implements`, `CreateFinishes`, `DeleteFinishes` | success means ready, no cluster lost, both waits end, and the handlers implement `Resource` | 30486 |
| cluster_lifecycle_denied | `CreateHoldsDenied`, violated | finding 3 | |
| operation_resource | `IInv`, `Tracked`, `FailedNetworkIsDeletable`, `CreatedWhenReady`, `Implements`, `HandlerReturns` | the same for four resources, and what a failed Create leaves can be destroyed | 36878 |
| operation_resource_stuck | `FailedIsDeletable`, violated | finding 4 | |
| attribute | `IInv`, `Consistent`, `Complete`, `DataAgrees`, `Converges`, `RefreshStable`, `NoSpuriousReplacement`, `Reaches`, `LeavesAlone`, `DriftSeen`, `ImportAdopts` | 418 attributes: plans are kept and come to rest, what is configured reaches the API and nothing else does, drift is seen, imports adopt, the data sources agree; outside the gaps of section 4 | 37653 |
| attribute_network | `Consistent`, violated | finding 5 | |
| oneof | `TerminalNull`, violated | finding 6 | |
| call_path | `IInv`, `SlotsCounted`, `MutexHeld`, `OwnTokens`, `SuccessReported`, `AllReturn` | no slot lost, one call at a time at the file, no token mixed up, an answered success reported as success, every call returns | 411574 |

Every property of a passing run has a mutant of the code in its module (a definition
marked "Mutant"), a plausible bug with which TLC finds the property violated.

### Bounds, and why they are enough

- `ConnPool`: two goroutines, two URLs and three dials: a leader and a follower, or one that
  returns a connection and one that evicts it; the third dial makes a URL get a second connection
  after an eviction while the other URL has one. Connections are not reused (`grpc.NewClient`
  makes new ones), so the number of dials bounds a behaviour; when none is left the only outcome
  of a dial is its failure. `conn_pool_stale` has the three goroutines its counterexample needs.
  For any number of all of them the safety properties are proved.
- `ClusterObject`: two planned values and somebody else's, so that a change, the
  object's own value and a foreign one differ; `MaxLate = 2` requests at large, enough for
  two different ones to arrive in the wrong order. Values are interchangeable (symmetry).
- `ClusterLifecycle`: `MaxTransient = 2` in place of 10: one tolerated Unavailable
  answer and one that is too many.
- `OperationResource`: `StuckCap = 2` silent polls in place of minutes.
- `CallPath`: two calls, on one connection, on two of one process, or in two processes under two
  service principals: all the ways two calls can share a semaphore, a mutex, a limiter or only the file. One
  slot in place of 5, so that two calls contend; two attempts in place of 5; one crash, one ended context and
  one call with a deadline; tokens that live two ticks on a clock of two, so that one expires
  while it is cached, while it is in memory and while a call goes with it. A limit of 60 is the smallest with which
  `SuccessReported` is true, and it differs from the initial one.
  With one limit to send, TLC interleaves the two setters of two calls but not two different headers; the proof has any
  set of limits from 60 on.
- `Attribute`: three known values (zero and two others), which every form treats alike except for zero, and one more
  spelling;
  every row, every policy of the API. A configuration may change any number of times.
- No bound on the number of handlers: after a handler ends any other may start.

### Fairness

- `Scheduling` (ConnPool): weak fairness of every goroutine's own steps and of the closing
  goroutines, because Go runs what is runnable; strong fairness of `Lock`, because
  `sync.Mutex` switches to starvation mode, in which the mutex goes to the longest
  waiter, after 1 ms. `SlowDial` adds weak fairness of the dials to all URLs but one.
  The URLs being interchangeable, the run shows as well that every call returns when
  every dial does. The property names one caller; the callers are interchangeable too.
- `FairSpec` (ClusterLifecycle): calls and polls are answered at last (`WF`; a server that
  is unavailable for ever ends the wait by the count anyway), the control plane does what it
  has to (`WF`), and a plugin that is repeated for ever succeeds at last
  (`SF_vars(PluginDone)`; without it a plugin that always says "please retry later" would
  keep the handler busy until its timeout). Nothing is assumed of the timeout,
  which would make every wait end trivially.
- `FairSpec` (OperationResource): calls and polls are answered, the control plane ends what it is
  doing, well or badly.
- `FairSpec` (CallPath): weak fairness of each call's next step, so the API and the token endpoint
  answer at last and an announced reset comes. A mutex or a slot that is free again and again suffices
  under weak fairness here, because a call takes it once and gives it back before it returns. A
  call that the limiter starves (a rate of 0) is exempt, and named in `AllReturn`.

Liveness is checked without symmetry.

## 4. Findings

Each is a run that TLC finishes with a counterexample.

1. **A late follower gets a closed connection** (`conn_pool_stale`, `cloud/connpool.go:125`).
   The leader of a flight has stored its connection but singleflight has not yet forgotten the
   call; the connection fails, another caller evicts it and it is closed; a caller that
   begins only now finds no entry, joins the old flight and is given the closed connection.
   The comment at lines 83-85 promises that unhealthy connections are replaced.
2. **A Create orphans the topic it made** (`cluster_object_orphan`,
   `resources/topic/resource_topic.go:128`). `grpcretry` resends after a lost answer, the second
   answer is AlreadyExists, and lines 128-130 give up without looking, although lines
   132-133 say that the check is there "to avoid orphans".
3. **One PermissionDenied ends a cluster's Create without a state**
   (`cluster_lifecycle_denied`, `utils/utils.go:554`). The function's comment names three ends;
   this fourth one returns neither a cluster nor an error, and Create sets no state for a
   cluster that is being created.
4. **A failed serverless cluster cannot be destroyed** (`operation_resource_stuck`,
   `resources/serverlesscluster/resource_serverless_cluster.go:193`). Create writes the id alone so
   that "a failed create is still trackable / deletable"; Delete refuses unless
   `allow_deletion` is true, and it is null, or false after a refresh.
5. **A network's customer managed resources change only on paper** (`attribute_network`,
   `resources/network/resource_network.go:132`). The empty Update rests on the comment that all
   configurable elements are marked RequiresReplace. `customer_managed_resources` and `timeouts` are not: adding
   or removing the block is planned in place, the state stays, and Terraform reports an inconsistent result.
6. **A oneof's new variant loses to the pinned one** (`oneof`, `models/cluster/conv_gen.go:2010`).
   UseStateForUnknown keeps `maintenance_window_config.unspecified` true in a plan that selects
   another variant, and Expand sets it last: nothing is sent, the selection never takes effect. The schema
   promises that it is null then. A shadow link's `start_at` does the same among its variants.

Gaps of the attributes. `Attribute` has a constant `Beyond`; a configuration or step that falls in a gap is taken only if
`Beyond` names it. The run `attribute` has none, so its properties hold outside the gaps; with one
named, TLC finds it:

- `in_place`, 4 rows of the network: finding 5.
- `new_block`, 45 rows: a leaf with UseStateForUnknown under a block that the configuration adds later is
  planned as the null of the prior state, and the API's value contradicts the plan (Kafka and HTTP
  proxy `mtls` and `sasl`, the maintenance hour, a shadow link's options, ...). `UseNonNullStateForUnknown` is what avoids it
  elsewhere.
- `cleared`, 21 rows: an explicit `[]`, `{}` or false oneof reads back as null, where no
  `ListCarryKnownEmpty` carries it; the comment at `modelconv.go:40-43` describes the effect.
- `switched_off`, 32 rows: an explicit zero value of a field without presence is not sent, so that the API keeps or
  assigns its own.
- `left_out`, 1 row: an optional enum left out of its block reads back as the zero name
  (`maintenance_window_config.day_hour.day_of_week`).
- `respelled`, 4 rows: a duration or timestamp that is not written as Flatten writes it, the three `interval` of a shadow link
  and its `start_at_timestamp`. Flatten writes a timestamp in UTC without a fraction and a duration as Go does, "1m0s" for
  "60s" (`internal/modelconv/modelconv.go:341-346, 375-380`), and nothing restores the practitioner's spelling: Terraform refuses
  the result, and the next plan is not empty. docs/resources/shadow_link.md promises more: any RFC3339 timestamp for the start
  (line 340), and `interval` "0" (lines 124, 152, 209), which comes back as "0s". `resources/pipeline/schema.yaml:23-29` knows the
  effect and has `flatten_from_prev` against it. (In the model "0" and "60s" are the same case, a value and its `alias`.) The
  cluster's `custom_properties_json`, a JSON object that Flatten writes anew as well, is not in the gap: Flatten restores it
  from `prev` (`models/cluster/conv_gen.go:181`), so its spelling survives, which the run checks.
- `block_removed`, 3 rows: a private link status that the API no longer reports stays in the state, since Flatten
  falls back on `prev`.

Smaller deviations that the models show, or exclude by a named condition:

- A limit below 60 gives the limiter a rate of 0 and one below 10 a burst of 0
  (`ratelimiter.go:113`): after that every call that has an answer with a header waits for good or
  fails although the API has carried it out. Hence `Limits` from 60 on in `SuccessReported`, and
  `Starved` in `AllReturn`. Two calls that store different limits can leave the rate of one and the burst of the
  other.
- A call whose context ends in the limiter's wait after the answer is reported as failed although the API did what it
  was asked (`ratelimiter.go:143`); `SuccessReported` makes it the only case, with the calls that have a deadline.
- An imported cluster never sends `redpanda_version`, and `gcp_enable_global_access_api_gateway = false` is not sent after an
  import. Four attributes cannot be read back at all and are in no import: `redpanda_version` (cluster),
  `role_bindings` (service account), `source_redpanda_id` (shadow link), `replica_assignments` (topic).
- A drift of `custom_properties_json` shows in no refresh, since it is restored, and an update whose plan and state agree
  on it leaves it out of its mask: the API keeps what somebody else set. It is the exception `Hidden` in `Reaches`, and
  restored attributes are none of `Faithful`. Values that no response shows (`Unread`) are excepted likewise.
- docs/resources/shadow_link.md:303 calls `client_options.bootstrap_servers` immutable and says that a change replaces
  the shadow link; its schema (`resources/shadowlink/schema_resource_gen.go:138`) has no RequiresReplace, and the change is made
  in place.
- `privateLinkConfigChanged` does not look at AWS `supported_regions`.

- A user, secret or ACL that somebody else made is adopted at the first attempt, though the
  comments speak of "a prior retry's lost response" (`resource_user.go:116`). A plan's password is
  recorded that the user does not have. Hence `Recorded` asks of these kinds only that some
  object was there.
- A topic's configuration key that the broker does not report (`min.insync.replicas`, says the comment at
  `resource_topic.go:565`) is recorded as it is in the plan, or in the state before: after a probe that found somebody
  else's topic, and at every refresh, the state may say what the topic never had, without a diagnostic. It is the
  exception in `Recorded`.
- `IsNotFound` takes any error for absence whose text contains "404", "not found", "notfound" or
  "does not exist" (`utils.go:71-75`), against its comment. Hence `"misread" \notin faults` in
  `NeverSilent`, `faults = {}` in `ForgottenWhenGone`, and `misled` in `Resource`.
- A shadow link whose creation completed is in no state when the read-back fails
  (`resource_shadowlink.go:183-192`). It is the exception in `Tracked`.
- The minimal state of a failed cluster Create allows deletion; when only the wait
  failed and the cluster became ready, the tainted cluster is deleted though no configuration
  allowed it (docs/resources/cluster.md: "set to true to enable destruction"). A shadow link's
  null does the same, since its Delete refuses only an explicit false, where its schema
  says "must be allow_deletion=true to be destroyed".
- `resource_acl.go:324-325` says that the import leaves the rest to the next Read, while the code
  sets everything but the cluster's answers.

## 5. Proofs

TLAPS proves, for every value of the constants:

| Module | Theorem | States |
|---|---|---|
| ConnPoolProofs | `Invariance`, `NothingLeaks`, `OneConnectionPerURL`, `Refinement` | `[]IInv`, `[]NoLeak`, `[]SingleConnection`, and `ConnPool` implements `SharedConn` |
| ClusterObjectProofs | `Invariance`, `NothingLostSilently`, `RecordedWasThere`, `DeletionProtected`, `Refinement` | `[]IInv`, `NeverSilent`, `Recorded`, `Protected`, and `ClusterObject` implements `Resource` |
| ClusterLifecycleProofs | `Invariance`, `CreatedWhenReady`, `NoOrphanWithoutFaults`, `ForgottenOnlyWhenGone`, `Refinement` | `[]IInv`, `Created`, `CreateHolds`, `ForgottenWhenGone`, and `ClusterLifecycle` implements `Resource` |
| OperationResourceProofs | `Invariance`, `CreatedOnlyWhenReady`, `NoOrphan`, `FailedCanBeDeleted`, `Refinement` | `[]IInv`, `CreatedWhenReady`, `Tracked`, `FailedNetworkIsDeletable`, and `OperationResource` implements `Resource` |
| CallPathProofs | `Invariance`, `SlotsInvariant`, `MutexInvariant`, `TokensInvariant`, `SuccessInvariant` | `[]IInv`, `[]SlotsCounted`, `[]MutexHeld`, `[]OwnTokens`, and `[]SuccessReported` where every limit is at least 60 |
| AttributePlanProofs | `Invariance`, `NeverInconsistent`, `NothingUnknown` | `[]IInv`, `[]Consistent`, `[]Complete`, for every table that keeps to the row laws |
| AttributeApplyProofs | `PlansConverge`, `RefreshChangesNothing`, `NeverReplacesSpuriously`, `ApplyReaches`, `OthersLeftAlone`, `DriftIsSeen`, `ImportIsAdopted`, `DataSourceAgrees` | `Converges`, `RefreshStable`, `NoSpuriousReplacement`, `Reaches`, `LeavesAlone`, `DriftSeen`, `ImportAdopts`, `[]DataAgrees`, for the same tables |

Assumptions: `None` is none of the callers, URLs and connections (ConnPool); the planned
values, the foreign one and `None` differ (ClusterObject); `MaxTransient` is a positive
number, `MaxLate` and `StuckCap` are natural numbers; the calls are finitely many, and `None` and `Torn` are no
calls, entries or caches (CallPath); rows have classes, kinds and forms of the vocabulary and keep to the row laws (Attribute). TLC
evaluates all of them. The theorems of `Attribute` have `Beyond = {}` as a hypothesis: no step falls in a
gap of section 4. In each gap some of them are false; the run `attribute_network` shows it of
one. So `Invariance` and `NeverInconsistent` say that no apply is refused, and `PlansConverge` that plans come to rest,
of durations and timestamps only as Flatten writes them, and nothing of the other gaps.

**ConnPool.** `NoLeak` and `SingleConnection` are not inductive. `Store` could overwrite an
entry and leak it: `NoOverwrite` says that the entry is empty from the double check on, which
needs the leader to be the only one between `sf.Do` and the end of its function for its URL
(`FlightInv`) and a section of the mutex to have one owner (`MutexInv`). The connection about to be
stored must be open and nobody else's (`HandInv`). `IInv` is the conjunction. Given
it, `OneConnectionPerURL` is a consequence: two open connections to one URL would both have to be in the
pool, or in a leader's hand while the entry is empty, and there is one leader. The refinement maps a
store to `Share`, the three kinds of eviction to `Retire`, the returns to `Answer`, the start of
a call to `Ask`, and everything else to a stutter.

**ClusterObject.** `IInv` says that the object is part of the running handler's history, that a
handler still has the state it was given, that adoption is only for kinds that do it, and that nothing
locked is being deleted. The action properties then follow from the ways a handler returns
(lemma `CleanReturn`). `RecordedWasThere` has the exception of `Recorded`: a key the broker is silent about is proved to be
the planned or the held one, and not to be the cluster's.

**ClusterLifecycle, OperationResource.** Again the history holds the current state, and every handler
is at one of its own places. For `CreatedWhenReady` the invariant has to say what a completed
operation means: while a handler waits and its operation runs, the control plane's work is this
handler's (a deletion elsewhere fails the operation), so that a completed creation has
been ready and a completed deletion has been gone. `CreateReturns` lists the ways a Create ends.

**Resource.** The three refinements have one argument. A step starts a handler (`Starting`), happens while none runs
(`Idling`), is a running handler's or the world's (`Continuing`), or returns (`ReturningWays`); each lemma says in terms of the
detailed module what such a step does to the object, the state, the diagnostic and the history, and
`StepRefines` turns it into the step of `Resource`, or into none. For the returns the invariants had to say more than the
other properties need: a topic whose configuration is asked for has been there since its Create called, a Create that waits
knows an object, an import has none in the state and does not allow its deletion.

**CallPath.** `IInv` is the types and what a call's place says of it (`Phases`): it is inductive, and the four properties rest
on it. `SlotsCounted` is the one that needs cardinalities: a step moves one call over the border of
the semaphore or none, and a crash empties all connections of a process at once. For `OwnTokens` a
write over another process's file leaves either what one process wrote or `Torn`.
`SuccessInvariant` adds that every limiter has a rate and a burst (`LimiterLive`), which follows from limits of at least
60.

**Attribute.** The theorems are about any table whose rows keep to the laws of section 2, with any number of
rows. Nothing is said of particular rows, so they hold of attributes that will be added as well.
`Consistent` is not inductive: whether an apply keeps its promise depends on what the state and the API hold when it
begins, and that on every apply, drift and refresh before. `IInv` says what they leave behind:

- `Shape`: an attribute is only where its block is, no state holds unknown, zero values
  are only on fields that have room for them, and the API assigns only what is computed;
- `Assigned`: what the API has assigned it does not take back, so that a value which the plan keeps from the state is
  still there when the answer comes;
- `Refreshed`: a fresh state is a fixed point of Flatten, that is, it is what Flatten makes of what the API holds;
- no apply was refused so far.

`AttributeProofs` has the types and what every form of Flatten and Expand returns (`FlattenIdempotent`: Flatten
with its own result as `prev` makes it again). `AttributePlanProofs` follows a plan through the request, the answer and
Flatten. `PlanOneValue` says what a plan holds: what is configured, what the modifiers keep of the state, or
unknown. `Fits(w, v)` says that Flatten of the field `w` makes the planned `v` again, and there are two reasons for it:
`v` was sent (`GivenServed`), or it was not and the API still holds what the state shows (`StateServed`,
`GivenUnsent`). `Keeps` is the same of an attribute and its block, and gives the verdict
(`KeepsAgrees`). Then the step is closed: what Flatten makes has the shape again and is a fixed point
(`FlattenPairStores`, `FlattenSettles`), for each way to update (`UpdateKeeps`, `StateUpdateSettles`,
`UpdateSettles`), for a refresh or an import (`ReadSettles`), and for a drift, where the state is not fresh and nothing has to fit
(`DriftSettles`).

`AttributeApplyProofs` starts from what an apply leaves: a fresh state that answers the configuration
(`AppliedState`). A plan made from such a state is the state (`Replanned`), which is `Converges`, and
`NoSpuriousReplacement` since what asks for a replacement is kept by its modifier (`ReplacingKept`).
For `Reaches` an update that leaves the attribute out of its mask has to find the configured value in the API already, which is
`Refreshed` read backwards: Flatten without `prev` shows what the API holds (`FaithfulState`, `AskedShown`).
`DriftSeen`, `ImportAdopts` and `DataAgrees` rest on the same lemma. For `LeavesAlone` the value that is sent along
is the one the API holds (`SameServed`).

Only model-checked: the five liveness properties (the prover has no ENABLED), and the violations. Every invariant
and every action property of the passing runs is proved.

## 6. Plan

In this order; each gets its proofs module.

1. `Pipeline`: Create, Update and Delete of `resources/pipeline` as sequences of calls (stop, wait,
   update, start), each of which fails alone. An abstract specification: the state's
   `state` attribute agrees with the pipeline after every handler that reports success; a failed
   Update is repaired by the next one. Theorems: type invariant, and that no update is sent to a running
   pipeline unless a warning was given.
2. `Schema` and the schema registry ACL: registration without compatibility, an ACL not propagated.
3. `Retry`: the deadline looked at after the call, a sleep cut short by the context; an abstract
   "call until done or out of time" that it implements, for the loops of the modules above.
4. A composition of `ConnPool` with `CallPath` and handlers that hold connections: what an eviction
   does to the calls in flight.
5. `OneCall`: role assignment, and the handlers of role, service account and resource group,
   whose attributes are modelled.
6. `Attribute` for the resources without generated conversions: secret, schema, schema registry ACL.

The handlers of 1, 2 and 5 are to implement `Resource`, too.

## 7. Not modelled

The region and tier data sources (one read each, no resource beside them), enums and their names,
validators (pure), provider configuration (runs once, before everything), control plane and dataplane
clients (thin; each call is a step of its caller), the byoc plugin itself (a downloaded program; its
outcomes are in `ClusterLifecycle`), a static token, the generators under `cmd/` and `internal/` (they run
at build time; the code they write is what the tables say), and the clean-up scripts (tools that repeat
delete calls by hand). Terraform itself is modelled as far as it matters: it runs one handler for a resource
at a time, in any order its state allows, keeps the prior state when a handler fails before setting one,
plans from configuration and prior state, and compares the result of an apply with its plan.
