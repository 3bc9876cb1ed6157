# Shimanism: a TLA+ verification project

`shim` is a process that speaks one cloud's API (a *frontend*: AWS, GCP or
Azure wire format) and serves it from another system (a *backend*: one of the
three clouds, a self-hosted peer such as NATS, etcd, MinIO, Vault or CoreDNS,
or an in-process implementation). For each of sixteen services there is a
`domain` interface; frontends call it and backends implement it. This project
models that middle: what the backends do with state, how the frontends combine
backend calls, and what may happen between two calls.

Everything is translated from the Go source under `src/`. `PROJECT.json` maps
each definition to its lines, lists the runs, the mutants that show each
property can fail, the hazards, the findings and the theorems.

## 1. Inventory

### How the parts work together

* A shim process builds one backend and one frontend from its flags
  (`cmd/shim`) and serves HTTP. `net/http` runs one goroutine per request.
  Frontend and backend never change while the process lives; every model
  keeps them in variables that `Init` chooses and no step changes.
* Remote backends keep no state of their own: what a request knows is on its
  goroutine's stack, and everything else is in the remote system. Between two
  remote calls of one request other requests run, a call may fail, and the
  process may die. In-process backends keep maps under one mutex, so a method
  is atomic unless it releases the mutex (only long polling does).
* A frontend handler makes one domain call or several. A handler that makes
  several is interleaved with others in between.
* Nothing is persisted by the shim, so a crash loses the requests in progress
  and nothing else (an in-process backend dies with its data).

### Components

| component | state | operations | what is hard | what makes it correct |
|---|---|---|---|---|
| queue, in process | queues, pending and in-flight messages, leases, receipt handles | create, delete, attributes, tags, send, receive (long poll), delete message, change visibility | lazy reclaim of lapsed leases, stale handles, racing receivers, long polls over deleted queues | no message lost or delivered twice under a lease, a handle names one delivery, polls end |
| queue, remote | topic + subscription, stream + consumer, queue; attributes, labels | the administration of these | two objects per queue, roll-back, read-modify-write | undisturbed creates are all or nothing, undisturbed deletes clean up |
| queue frontends | requests in progress | SQS, Pub/Sub, Service Bus handlers | loops that stop at the first error, renewals that read first | lapsed locks stay lapsed, answers are true, requests end |
| storage | objects, multipart sessions, marker and part objects, scratch objects | objects, copies, multipart uploads, listings | composing from parts through intermediate objects, clean-up that fails, asynchronous copies, page tokens | objects are what one caller asked for; aborts clean up; listings are complete and end |
| nosql | tables (schema, tags), items | tables, items, tags | tables that are only metadata, drains, read-modify-write of tags | items belong to their table, acknowledged items stay, schemas are fixed |
| secrets | one secret: labels, values by version, hidden versions, deletion mark | create, put, get, update, delete with recovery and purge | two-write creation (vault), version numbers derived by listing (aws, azure), soft deletion in the way | a version a caller was told of keeps its value; a forced deletion frees the name |
| pubsub | topics, subscriptions, leased messages | topics, subscriptions, publish, receive, ack, visibility | topic + queue pairs on aws, subscriptions known by name alone, topics deleted under them, stale handles | what is due to a subscription is delivered or kept |
| eventstream and kafkaserver | clusters, topics, partition logs, committed offsets | clusters, topics, produce, fetch, commit | retention by producers' timestamps, clusters deleted under requests, multi-topic requests | a consumer that goes on misses nothing retained; committed offsets stay within the log |
| dns | zones, record sets, SOA serials, the served copy | zones, change batches | zone files re-served only when their serial changed, batches call by call | the served zone is the file; an acknowledged change is in force |
| registry and ocidistribution | repositories, blobs, manifests, tags, upload sessions | push, pull, delete | chunked uploads, tags that move, deletions manifest by manifest | tags resolve; a deleted repository is empty |
| apigateway | gateways, route tables, the AWS frontend's memory, goroutines | create, deploy, delete | replacement of routes one by one, errors passed over, memory lost with the process | the routes a deployment reported are the ones in force |
| rdbms, cache, functions | instances with a status, credentials, snapshots, goroutines asleep | create, modify, reboot, delete, snapshot, restore | changes carried out later, goroutines that find an instance by name, read-modify-write | statuses settle, deletions are carried out, updates keep what others did |
| compute: networks | networks, subnets, groups with rules, addresses | create, delete, rules, association | lookups by name before every call, rules replaced one by one with errors discarded, lost updates | firewalls are as asked; acknowledged rules stay |
| compute: machines | instances, volumes, snapshots, attachments | run, start, stop, terminate, attach, detach, snapshot | repeated PUTs, stale lookups, names used as ids | a repeated PUT finds what the first made; attachments stay |
| loadbalancer | load balancers, target groups, listeners, rules, blobs | the operations of ELBv2, and the assembly and taking down of GCP forwarding rules and Azure gateways | assemblies of many calls whose errors are discarded, read-modify-write of ingresses | what was added stays until removed; a forwarding rule goes with its parts |
| kms | keys with their material, key rings, ciphertexts handed out | create, encrypt, decrypt, deletion, rotation | names used again, rotation, deletion and recovery | ciphertexts stay readable |
| bearer tokens | the cached key set of the issuer, its mutex | verify | keys that rotate, fetches that are slow or fail, requests that wait for another's fetch | withdrawn keys die in time, new ones are found |
| signatures, wire protocols, code generators, configuration, harness | none at run time | encode, decode, generate | - | pure functions, out of scope |

The released binary (`cmd/shim`) wires storage, secrets, queue, pubsub, rdbms,
cache, functions and apigateway to their frontends; the other services are
wired the same way by the harness and the integration tests.

`PROJECT.json` has the same list with sources and status, and the hazards, each
at its line with the properties that would catch it.

## 2. Modules

| module | models | source |
|---|---|---|
| `QueueService` | what the domain interface promises about messages | `internal/queue/domain` |
| `QueueInmem` | the in-process queue backend | `services/queue/backends/inmem` |
| `QueueShim` | the three queue frontends, composed with `QueueInmem` | `internal/queue/frontends` |
| `QueueRemote` | queue administration on aws, gcp, azure and nats | `services/queue/backends/{aws,gcp,azure,nats}` |
| `Storage` | objects and multipart uploads, five backends, three frontends | `services/storage/backends`, `internal/storage/frontends` |
| `Listing` | seven listings page by page | `ListObjects`, `ListBuckets`, `ListClusters` |
| `Nosql` | tables, items and tags, five backends, three frontends | `services/nosql/backends`, `internal/nosql/frontends` |
| `Shim` | what all services below have in common: a process for one service and backend, its requests, failing calls | `cmd/shim` |
| `Secrets` | secrets, five backends, three frontends | `services/secrets`, `internal/secrets` |
| `Pubsub` | topics and subscriptions, five backends, four frontends | `services/pubsub`, `internal/pubsub` |
| `EventStream` | clusters, topics, logs and offsets; the Kafka server | `services/eventstream`, `internal/eventstream` |
| `Dns` | zones and record sets, five backends, three frontends | `services/dns`, `internal/dns` |
| `Registry` | images, five backends, the OCI server and three frontends | `services/registry`, `internal/registry` |
| `ApiGateway` | gateways, five backends, three frontends | `services/apigateway`, `internal/apigateway` |
| `ControlPlane` | rdbms, cache and functions, fifteen backends, nine frontends | `services/{rdbms,cache,functions}` and their `internal/` |
| `Network` | networks, subnets, security groups, addresses | `services/compute`, `internal/compute` |
| `Machines` | instances, volumes, snapshots | `services/compute`, `internal/compute` |
| `LoadBalancer` | load balancers, three backends, three frontends | `services/loadbalancer`, `internal/loadbalancer` |
| `Kms` | keys and ciphertexts, four backends, three frontends | `services/kms`, `internal/kms` |
| `Bearer` | the verification of bearer tokens and its key cache | `internal/gcpbearer`, `internal/azurebearer` |
| `QueueProofs`, `QueueRemoteProofs`, `StorageProofs`, `NosqlProofs`, `SecretsControlProofs`, `PubsubStreamProofs`, `DnsRegistryKmsProofs`, `MachinesProofs` | theorems | |
| `MCQueueInmem`, `MCQueueShim`, `MCStorage`, `MCNosql`, `MCControl` | small instances of one specification | |
| `MCGatewaySecretsRegistryKms`, `MCComputePubsub`, `MCBalancerStreamDns` | small instances of several services | |

Definitions whose comment begins with *Mutation:* or *Mutant:* are wrong on purpose. They
are used by no specification; `PROJECT.json` names, for every property, the
definition that one of them replaces and the property it then breaks.

### QueueInmem and QueueService

One action per method of the backend. `pending` is a set, because
`takeVisible` sorts it by send time whenever it reads it; messages are numbered
in that order. `inflight` maps handles to messages as in the code, and the
handle a message carries (`receiptHandle`) is kept apart from it, so that their
agreement is a property. Deadlines are numbers of ticks that are left, and
`Tick` lets time pass for all of them; so a behaviour may run for ever with a
finite number of states. Reclaiming a lapsed lease happens inside
`HeadQueue` and `TryReceive`, never by itself, as in the code.
`ReceiveMessages` is a process: `StartReceive`, then `TryReceive` until it
returns, `CancelReceive` for a cancelled context, which the code only notices
while it sleeps.

`QueueService` is the abstract specification: which messages are owed, which
handle leases them, which handles were ever given out. The mapping takes
`pending` and `inflight` together as `owed` and `receiptHandle` as `lease`.

### QueueShim

Extends `QueueInmem`. A handler with one backend call is that call's action;
`createQueue` with tags, `publish`, `acknowledge`, `modifyAckDeadline`,
`createSubscription` and `renewLock` are processes in `req`. Bodies are "ok",
"huge" (refused by the backend) or "garbled" (refused by the handler).

### QueueRemote

One queue name. A queue is a parent object and, on gcp and nats, a child.
Every remote call is one step with the two outcomes the code distinguishes, and
`Crash` ends all requests. The variables `alone` and `promised` are history
variables that only properties read.

### Storage

One bucket. `object` maps keys to data (a sequence of chunks) and a content
type; `upload`, `part` and `scratch` are the session, part and intermediate
objects. `aws`, `minio` and `inmem` act in one step per call; `gcs` and
`azureblob` build multipart uploads from objects, one step per remote call.
Deletes whose errors the code discards may fail silently.

### Listing

A caller walks a listing while names are added and removed. Each backend's way
to cut and continue a page is an operator from the state to a page and a token.

### Nosql

One table name. A location is a pair of a schema and a key, because the key of
an item is computed from the attributes the schema names: the same item under
another schema is stored elsewhere. `life` counts the tables the name has had,
and each item remembers the one it was put into. Frontends begin requests
(`Dynamodb`, `Firestore`, `Cosmos`); `FrontRead` is the look at the table that
some handlers take first, which on aws sees no tags when their listing fails
(`TagsSeen`); the rest is one action per remote call and backend. An upsert of
azure merges (`Upserted`), and a record without tags does not mention them.
`acked`, `alone`, `mixed`, `answer` and `life` are history variables.

### Shim

What the modules below share. A process is started for one service over one
backend (`service`, `backend`); a service that was not started takes no step.
`req` holds, per client, the request in progress: what was asked (`op` and its
arguments) and where the handler is, either the next call (`at`) or the calls
it has still to make (`todo`). Every remote call is one step. `Dies` ends a
request wherever it is: its call failed, or the process died. For remote
backends the two look the same to everyone else, because the shim keeps
nothing. An in-process backend does not fail half way and loses its data with
the process, so `Dies` does not apply to it. `alone` and `answer` are history
variables: a property that is about what an answer means reads the answer of a
request that nothing overlapped.

### Secrets

One name. Each value that is sent is a new number, so that a value tells which
write it came from; `told` remembers every version number the shim has
named together with its value. vault and gcp number versions themselves, aws
and azure do not: there the number is a count made by another call, and is
`told` only by requests that ran alone. aws counts the versions of one page of
their list (`VersionPage`). A create of azure or vault that fails to look takes
the secret for absent: on vault the write is then refused, on azure it appends
a version, which the answer calls 1; that number is not counted as told, and
is a finding.

### Pubsub

`links` says which topic feeds which subscription, `box` what the subscription
holds, pending or leased; a delivery is a message and the number of its
delivery, so that an old handle is told from a new one. On inmem and azure only
the handle of the last delivery acknowledges; on nats, gcp and aws an old one
may settle the message too (`OldHandlesCount`). nats and azure keep a
box per topic and subscription, the others one per subscription name. A remote
system drops messages that are older than its retention (`MessageExpires`). SNS
delivers to the queues that allow it: the shim never sets such a policy, so a
publish of aws reaches any subset of them. `due` is
what a subscription owes since it was promised to its caller and until the
message is acknowledged or expires, or someone asks to delete the subscription
or its topic.

### EventStream

Clusters, topics and one partition log each, with records, retention and
committed offsets; the Kafka server's requests name several topics and make one
call each. A record may be too old from the start, because its timestamp is
its producer's. A fetch has a maximum of records (`Fetched`), 0 for none.
`Decoded` is what a reader makes of the batches of a response, so that the batch
encoding is modelled by what it does to offsets.

### Dns

`hosted` is what the backend keeps per zone, with up to two zones of one name
(`Slots`); `served` the copy CoreDNS has loaded. A file write takes the next
serial, or the clock if that is later. A batch is a sequence of calls, in the
order the frontend makes them. `lineage` says whether the loaded copy comes
from the file there is now.

### Registry

`repo` holds manifests, tags and blobs; `upload` the sessions. The bytes of a
blob are the chunks in the order they arrived, and the digest is that
sequence. `distribution` deletes a repository manifest by manifest. A DELETE
of the OCI server on aws goes to the registry's own HEAD and DELETE, that of
the ECR frontend to `BatchDeleteImage`.

### ApiGateway

`apis` are all gateways ever created; `table` or `httpRoutes` the routes in
force, in slots, as they are replaced one by one. Where a gateway is described
although the listing of its routes failed, it has none (`ToldRoutes`). `pending` and `intIDs` are
the memory of `aws_apigatewayv2`, the only frontend with state; `Dies` keeps it
and a restart clears it. `timers` are the goroutines of inmem, found by name.

### ControlPlane

rdbms, cache and functions share one module because their backends share one
shape: write what is wanted, let it be carried out later. `sleepers` counts the
goroutines of inmem per kind and name; `CloudSettles` is the cloud or operator
finishing what it accepted. `revision` numbers the resource versions that cnpg,
redisop, knative and gcp give out and updates may compare. `creds` are the
Secrets beside the resources.

### Network, Machines, LoadBalancer

A handler is the sequence of backend calls it will make (`todo`): lookups fill
identifiers into the calls that follow, as local variables do in the code. The
`mode` of a call is what the handler does with its failure: "must" ends the
request, "may" goes on as the code discards the error, "opt", "put" and
"skip" are lookups that may find nothing, find the answer, or leave out the
next call, and "assembly" gives up the rules that follow. `clean` in a request
says that no discarded call has failed. `granted`, `attached` and `assured` are
histories of what was acknowledged and not undone.

A rule is a direction, a protocol and a range of ports, and one address range.
Each backend keeps it in its own way: a policy of k8s knows tcp, udp or all
(`PolicyRule`), and a removal takes the first rule of the direction and port
(`MatchesDomain`). An entry of a firewall body names a protocol and any number
of port ranges, of which `gcp_compute` reads the first. On gcp an instance has
`devices`, as a volume is attached under a device name and detached by one that
need not be it.

Creates of aws are idempotent where ELBv2's are: a load balancer, target group
or listener that is there is answered as if made, and deleting a load balancer
that is not there succeeds.

The services are split so that TLC can explore them: `network`, `address`,
`group` and `firewall`; `compute`, `vm` and `snapshots`; `balancer`, `routing` and
`appgateway`. A shim serves all of them; a part holds the requests that meet in
the same objects (some are in two parts), with the steps of every backend, and
requests of different parts are not interleaved. Within a part the requests of
all three frontends are mixed, as of several shims before one backend.

### Kms

A ciphertext is the key id it names and the material that made it. A key has
the material it encrypts with and the set of what it decrypts. `issued` is the
history of ciphertexts. The names that callers choose may be names that the
in-process backend generates: it then takes over the key that is there, which
is a finding, and `replaced` is the history of the material lost that way.

### Bearer

`cached` and `age` are the cache of the issuer's keys, `holder` and `waited`
the fetch that holds its mutex, `offered` what the issuer publishes. The issuer
may change its keys at any time, a fetch may fail or take up to `FetchTime`.
`gone` counts since when a key is no longer published, `steady` are the
requests whose key has been published since they came. The package comment of
`gcpbearer` says that a rotation fails until restart; the code fetches again
for a key it does not know, which is what is modelled, and the difference is a
finding.

## 3. Runs

| run | result | distinct states | what it shows |
|---|---|---|---|
| `queue_inmem` | pass | 124k | conservation; agreement of handles and leases; exclusive leases; handles never reused; long polls return; refinement of `QueueService` |
| `queue_frontends` | pass | 371k | a lapsed Service Bus lock is not renewed; every request ends |
| `queue_remote` | pass | 192k | an undisturbed delete leaves nothing; an undisturbed create is all or nothing |
| `storage` | pass | 1.4M | objects have the content of one put or one completed upload; undisturbed aborts clean up; only deletes remove objects |
| `listing` | pass | 7.7k | listings whose token is a name are complete and without repetition; all but gcs end |
| `nosql` | pass | 1.3M | items belong to the table they are found in; acknowledged items stay; a quiet request that reports success has done its work; schemas are fixed |
| `control` | pass | 544k | statuses settle once requests have ended; deletions are carried out; no step undoes what another request was told is done |
| `gateway_secrets_registry_kms` | pass | 4.4M | a reported deployment is in force; versions keep the values that were told and a forced deletion frees the name; tags resolve and deleted repositories are empty; ciphertexts stay readable, but for keys taken over on inmem; bearer keys are found in time and die in time |
| `compute_pubsub` | pass | 3.9M | a repeated PUT makes one machine; attachments stay until a detach names them; firewalls allow nothing that was not asked for and acknowledged rules stay; what is due to a subscription is kept until it is acknowledged or expires |
| `balancer_stream_dns` | pass | 3.0M | targets, listeners and rules stay until removed; a forwarding rule goes with its parts; fetches continue without gaps; committed offsets stay within the log; CoreDNS sees every change and reported batches are in force |
| `queue_create_race` | violation | | the roll-back of one `CreateQueue` deletes the topic of another's queue (gcp) |
| `storage_complete_overlap` | violation | | two overlapping `CompleteMultipartUpload` of one upload assemble an object that neither part list describes (gcs) |

Each violation run states what a comment of the repository says; `findings`
quotes it. The other findings were met while modelling: some as
counterexamples of a property that is therefore claimed of fewer backends
(its comment says which, and why), some as differences between the code and a
document. They have no run.

The last three passing runs hold several services each. A shim serves one of
them, so their states are disjoint and one run explores their sum, not their
product.

Type invariants are not in the cfgs: that of the queue is the theorem
`TypeCorrect`, those of the other modules are parts of the invariants that are
proved. The inductive invariants were checked by TLC on the instances of the
runs before they were proved.

### Bounds

* Queue: two queues so that state could leak from one to the other; two
  messages and a batch of two so that a receive splits or takes all; two
  receivers; four handles, so that each message can be delivered twice and one
  lapsed handle compete with a fresh one. A receive is admitted only while all
  admitted ones can get their handles (`StartReceive`), so that the bound never
  blocks a poll and liveness is not vacuous. The frontends are run with one
  queue, as no handler touches two.
* Remote queue: two requests at a time; the lost-update and roll-back races
  need two. Time-outs include one above the limit Pub/Sub accepts.
* Storage: three parts with groups of two (`ComposeMax`, 32 in the code) need
  intermediate objects; two keys, so that copies have a source and a
  destination; two requests. Five parts need two levels of them, the case where
  the names of the levels matter: `storage_complete_overlap` has them. Its
  instance with one client keeps `CompletedContent` (26 thousand states; too
  close to `storage` to be a run of its own).
* Listing: four names and pages of two, so that a page can be full, partial or
  empty and a change can fall before, on and after the boundary.
* Nosql: two schemas, two keys, one tag, two tables in a row, two requests:
  enough for a drain loop of two items and for a table created again.
* Control: one instance and one snapshot, two requests at a time and four in
  all (`MaxRequests`): create, delete, create again and one that crosses them.
* Secrets: two values (`MaxValues`), two creates (`MaxSecrets`), one tag and
  the description, a create with neither or both (`GivenLabels`): a second
  version, which is beyond the page of one (`VersionPage`), and a secret made
  again.
* Gateways: two gateways in a row of one name (`MaxApis`), tables of two routes
  (`MaxRoutes`), of one key, so that tables of zero, one and two equal or
  different routes replace each other; one goroutine of a kind (`MaxTimers`).
* Pubsub: two topics and one subscription name, so that two subscriptions can
  share a name; two messages, two deliveries in a subscription, so that a handle
  can be old, two subscribe requests.
* Event streams: one cluster with two topics, so that one request names both;
  two records, and fetches of none, one or both; three topic creations, so that
  a topic can be made again.
* Bearer: two keys, a time-to-live of two ticks, fetches of up to one.
* Network: one name, two generated ids, one address range, which is all
  addresses; rules for udp 53 in and out, groups of two rules; firewall bodies
  for udp 53, and for udp 53 and 54 with tcp 53 (an entry with two ports, and
  two protocols of one port), from no range or from all.
* Dns: one zone name with two slots, one plain record set and one delegation
  with one value each, serials up to three, a clock of two: two writes in one
  second, and a serial that has run ahead of the clock.
* Registry: one repository, two manifests, two tags (both may name one
  manifest), one session of two chunks.
* Kms: one chosen id, which is also the first that is generated, and two
  materials: one rotation, or a key made again or taken over.
* Machines: one name besides the defaults, three generated ids, two instances
  in a request.
* Load balancers: one name of each kind, one generated id of each kind, two
  targets.

All bounds on ids, values and requests count what was ever made, so that these
models stop. `MCControl` and the three runs of several services therefore say
`CHECK_DEADLOCK FALSE`; in the older models a new request can always begin or
time pass, and deadlock is checked.

The three runs of several services, which check safety only, use the symmetry of
clients, as `storage` and `nosql` do, and `compute_pubsub` and
`balancer_stream_dns` that of topics: no step depends on their order or names.
The other runs use none.

`storage` and `nosql` also have a view: states are taken as one that differ only
in what no later step and no property reads.

* `MCStorageView`: once a gcs Complete has composed its object, only the names
  that it has still to delete matter; `alone` is read by `QuietAbortCleans`
  only, of an abort in progress, and a new request sets it afresh.
* `MCNosqlView`: a tag request past the frontend acts by the tags it wants, not
  by the edit they came from; a put that has read the schema acts by that and
  not by what the frontend knew; `acked` is read of the backends that
  `AckedKept` is about. `answer` is left out altogether, as `AnsweredIsDone`
  reads only the answer that the step itself gives and TLC evaluates an action
  property on every step it generates, also on those to states it has seen.

In `storage` the key of the only upload is 1 (`MCStorageNext`). The two keys are
interchangeable and an upload is made once, so that the behaviours with key 2
are those with key 1 renamed; the other key is the source or the destination of
its copies. All properties are about both keys.

### Fairness

* `QueueInmem!Fairness`: weak fairness of `Tick` (time passes) and of each
  client's `TryReceive` (the timer of the poll loop fires and the Go scheduler
  runs its goroutine; the mutex is held only for terminating sections).
* `QueueShim!ShimSpec` adds weak fairness of each handler's next step: a
  goroutine that is not blocked runs, and no backend call blocks.
* `Listing!ListingSpec`: weak fairness of the next page: a caller that follows
  a listing asks again. No fairness is assumed of whoever adds and removes.
* `ControlPlane!ControlFairness`: weak fairness of each sleeping goroutine
  (`time.Sleep` returns) and of the cloud or operator carrying
  out what it accepted. Nothing is assumed of clients or of requests in
  progress, which is why `SettlesWhenQuiet` starts from their having ended.
* All others state safety only. Remote calls may take for ever, so nothing is
  claimed about ends.

## 4. Proofs

TLAPS checks all proofs with Z3, Zenon and LS4. Every theorem is about any set of clients
and any value of the bounds; the constants' assumptions it rests on are named
below (all of them are evaluated by TLC in the runs). Many say only that the
value standing for absence is none of the values it stands beside
(`NoneIsNo...`, `NoUploadIsNoClient`, `MetaAssumption`) or that a bound is a
number; those are not repeated.

### QueueProofs

*The in-process backend*, for every set of queues, clients and handles.
`TypeCorrect` comes first. `Conservation` and `HandleAgreement` are not
inductive alone: a delivery puts a new handle into `inflight`, and without
knowing that keys of `inflight` were issued the fresh handle might overwrite a
lease; and a sent message could already be counted as acknowledged. So
`MessageInv` adds `IssuedKeys` (each key of `inflight` was issued) and
`SentOnly` (only sent messages were acknowledged or dropped). One lemma per
action (`...Moves`) describes where messages move. From `MessageInv` follow
`MessagesConserved`, `HandlesAgree` and the action properties
`LeasesExclusive` and `HandlesNameOneDelivery`, and with one lemma per action
(`...Implements`) the refinement `BackendImplementsService`:
`Spec => Service!Spec`. Assumptions: handles are a finite set, inputs are
numbers (`NamesAssumption`, `BoundsAssumption`, `InputsAssumption`).

*The frontends over it.* `ShimSpec` is not a refinement of `Spec`, because a
handler may be refused between two calls and frontends send what a client of
the backend alone does not. The lemmas are therefore about any call with inputs of the
right type (`AnyCall`), and `FrontendsCall` shows that every step of a handler
is such a call or leaves the backend alone. `ShimInv` adds what handlers
remember between calls. From it `FrontendsConserveMessages`,
`FrontendsImplementService` (the whole shim refines `QueueService`),
`FrontendsLeasesExclusive`, and `LapsedLocksNotRenewed`: `renewLock` first
looks the queue up, which reclaims lapsed leases, and then extends the lease
with another call; the invariant needed says that a handle that had lapsed
before the look-up is known to the backend and leases nothing any more.
Assumption: `FrontendInputs`.

### QueueRemoteProofs

The two properties are about the answer of a request that ran alone and are
not inductive: between the two calls of a `DeleteQueue` another request could
make the child again. `RemoteInv` adds that a request that has run alone is the
only one in progress (`Solitary`), that each call is made by its own backend
(`Placed`), that on aws and azure a queue is one object (`OneObject`), and that
an undisturbed delete still finds the subscription gone when it comes to the
topic (`SubscriptionGone`). From it `DeleteAlwaysCleans` and
`CreateAlwaysAllOrNothing`, with calls that fail and crashes of the shim
anywhere. Assumption: `RemoteInputs`.

### StorageProofs

*Listings*, for every number of names and every page size.
`FirstOfIsBeginning` shows that the page is an initial segment of what is left;
`PagesAreGood` that each of the four listers with name tokens returns such a
page and the token that continues it. `ListingInv` says that what was seen so
far is everything below the token that was there all along. From it,
`KeyTokenListingsComplete`.

*Aborts*, for every set of keys, uploads and part lists. `QuietAbortCleans` is
about the end of a request; `AbortInv` says what holds on the way: a client
that is alone stays so until another begins (`Sole`), and every part, marker
and intermediate object that is left of the upload it aborts is among what it
has still to delete, unless one of its deletes has failed (`Aborting`). From it `AbortsAlwaysClean`. Assumption: part numbers are
`1..MaxPart` and part lists are sequences of them (`PartsAreNumbered`).

### NosqlProofs

For every set of schemas, keys and tags.
`AckedKept` is not inductive: a `DeleteItem` in progress could remove an item
acknowledged meanwhile. `NosqlInv` adds that the items a running `DeleteItem`
names, and with a forced `DeleteTable` all items, are not counted as
acknowledged, and that the drain loops run only in forced deletions.
From it `AcknowledgedItemsKept`, and with the type invariant `SchemasFixed`.
`ItemsAlwaysBelong` is about tables that nothing was written to while they were
created or deleted. `BelongInv` adds that then no two requests in progress
clash (`Unmixed`), and that what each has read is still so (`Fits`): a put that
is about to write has seen the table there is, a drain has found every item
that is left, and a table that is about to go is empty.
`AnswersAreDone` is about the end of an undisturbed request; `AloneInv` says what
holds on the way, for each call it has still to make (`OnTheWay`): the table it
found is the one that is there, what it has written is in place, and every tag
it has to take away is among those it has listed. On azure a table that was
asked for without tags may have kept old ones, and nothing is said of its tags.
Assumption: `NoneIsNoAnswer`.

### SecretsControlProofs

*Secrets*. What was told of a version (`told`) must hold however the number
was found. `SecretInv` says that what was told went with the secret it was told
of (`ToldOfThis`), that a request that runs alone is the only one, and of such
a request (`Undisturbed`) that what it has read or written is still so when it
makes its next call: this is what a number counted by another call (aws, azure)
rests on. Of aws it is said of as many versions as one page holds, and an
azure create that did not see the secret tells nothing.
From it `VersionsAlwaysTold` and the action property
`ForcedDeleteAlwaysFrees`. Assumptions: `DescriptionAssumption`,
`GivenLabelsAssumption`, `VersionPageAssumption`, `SecretBackends`.

*Control planes*. `UpdateKeepsOthers` is about single steps, but whether a step
that writes back an object undoes a change depends on what was read before:
`CtlInv` says that an object that still has the version a request has read is
the object it read (`ReadFits`), since versions were given out once
(`CtlVersions`: no object has a later one than `revision`) and nothing wakes
up on a versioned backend and writes without one. Each of the 92 calls has an
effect of the same form (`CtlEffect`: at most one write, of fields that the
request mentions), shown once per family of backends; one lemma shows that
such an effect keeps the invariant and the property. From it
`ControlInvariant` and `UpdatesAlwaysKeepOthers`. Assumption:
`RequestsAreCounted`.

### PubsubStreamProofs

*Pubsub*. `DueIsKept` could fail by a box being taken away: that of another
subscription of the same name, so `PubsubInv` has that a name is linked once
where boxes go by name (`OneLink`); that of a subscription nobody has
(`Boxed`); or the one a deletion in progress names, of which nothing is
promised any more (`Withdrawn`). On aws a subscription is promised something
only when its queue was made first (`QueueMade`). Whatever takes a message out
of a box settles what was due of it: an acknowledgement with a handle that
counts there, or its expiry. From it `DueIsAlwaysKept`.

*Event streams*. `StreamInv` says that a log is the end of what was
acknowledged, each value at its offset (`LogsTell`): records are appended at
the next offset, and retention takes away the first ones only (`FromIs`, from
the library's facts on sequences and well-founded sets). From it
`CommittedAlwaysWithinLog` and, as what a fetch returns is then contiguous and
one batch, `FetchAlwaysContinues`. Assumption:
`KafkaClusterIsOne`.

*Bearer*, for every set of keys, every time-to-live and
fetch time. `BearerInv` says that at most one client fetches and holds the mutex
(`OneFetch`), that what a fetch has read was published since it began
(`AnswerRecent`), that what is cached was published at most its age and one
fetch ago (`CacheRecent`), that the answer of a fetch holds the key of a request for
which it was published all along (`SteadyAnswered`), and that what is offered is not
gone (`OfferedNow`). From it `KeyLookupsTimely`. Assumption: `TimesAreNumbers`.

*API gateways*, for every number of gateways, routes and clients.
`DeployedInForce` is about the end of a deployment that ran alone. `GwInv`
follows it call by call (`Way`): the gateway it has found is still there, every
route that an earlier deployment left is among those it has still to delete,
and then the table holds exactly the routes created so far. On azure the
operations are looked up again for each call, so that a route must be the only
one of its name (`OneOfAName`); `GwReqs` and `GwTypes` are the types of the
requests and of the tables. From it `DeployedAlwaysInForce`. The list of routes
that a handler reads back is computed with `SelectSeq`, which the provers know nothing about: the
guard of `DescribesRoutes` names its type (`RouteLists`), which is also the
bound on its length. Assumptions: `RoutesAreSome`, `ApisAreSome`.

### DnsRegistryKmsProofs

*Dns*. `Follows`: a copy that CoreDNS has loaded from the file there is never has
a later serial than it, and is the same when the serials are. `Promised`: what
an undisturbed batch wants of a record set is what its last change that is
still to come does, or else is in force, and the zone it has found is the
one its name stands for (`Sole`: nobody else runs meanwhile). From `DnsInv`
follow `ServedAlwaysFollows` and `ChangesAlwaysInForce`. Assumption:
`DelegationIsUserSet`.

*Registry*, for every set of repositories, digests, tags and chunks and
every backend. `RegistryInv` is the type of the
repositories and requests together with `TagsResolve`. A repository is made
empty, takes a manifest (`Tagged`), loses one with its tags
(`WithoutManifest`), loses a tag or takes a blob; one lemma (`...IsSound`) for
each of these shows that it leaves tags resolved, and the lemma of each action
(`...Keeps`) that the action does one of them. From it `TagsAlwaysResolve`.
`DeletedIsAlwaysGone` needs what holds during the deletion that distribution
makes tag by tag: of every tag that is left, either its manifest is still to be
looked up or it has been found and is still to be deleted (`SweepCovers`).

*Kms*, for every set of chosen ids. `StillReadable` is
not inductive: an encryption must use material its key can also decrypt with,
and a key must not be made under an id that has ciphertexts it cannot read.
`KmsInv` adds that a key decrypts what it encrypts (`Encrypts`, not azure),
that on inmem and gcp, where callers choose ids, no key with ciphertexts ever
goes (`Kept`), and that on aws there is neither a key nor a ciphertext of a
generated id that is still to come (`Fresh`). A generated id of inmem may be
that of a key a caller chose: what that key could decrypt is then `replaced`,
and the property excepts it. From it `CiphertextsStayReadable`. Assumptions:
`ChosenIsSome` (0, which stands for no id, is not chosen), `MaterialIsCounted`.

### MachinesProofs

`AttachmentsAlwaysKept`, on inmem, gcp and aws: a volume is attached to one
instance at a time (`Exclusive`), so that detaching it from one takes it from
nobody else, and a detach ends the claim for every attachment that it names: on
gcp for the volume whose device name it sends.
`AssuredAlwaysKept`: a target group is the only one of its identifier
(`PoolsOnce`), because it is a number given out once (`PoolsNumbered`) or, on
k8s, a name taken once; so the one a request writes back replaces no other.
`MachineInv` and `BalancerInv` put these together with the properties,
restated over the records. Assumptions:
`VmNamesAreNotGenerated`, `LbNamesAreNotGenerated`.
`PutsAlwaysIdempotent`: what an undisturbed PUT has found of a name still holds
when it creates, and then until its answer (`PutPromise`), because an instance
made for a name bears it and a generated identifier is no name (`VmState`).
`PutInv` puts these together. Assumption: `VmNamesAreNumbers`.

`GrantsAlwaysKept`: a security group is the only one of its identifier
(`GroupsOnce`), a number given out once (`GroupsNumbered`) or, on k8s, a name
taken once; every step adds a group, drops one or changes the rules of one
(`GroupEffect`), and what a change leaves out has been withdrawn
(`GrantsThere`). Rules are counted as the backend files them. On k8s a removal
withdraws every rule of its direction and port, and the rest is kept by the
version compared on the write back.
`FirewallsAlwaysAsAsked`: while an undisturbed request removes, the removals
still to come cover what is left of the old rules, on k8s one by one and in
their order, because there a removal takes the first rule of its port; from
the last removal on, the rules in force together with the additions still to
come are what the frontend reads of the body (`FwLeft`): nothing that was not
asked for, and all of it when no entry names two ports. A discarded error ends the claim
(`clean`), not the request. `FwInv` puts these together. Assumptions:
`MatchesAreRecords` and `BodiesAreLists`, the lists of a body being of any
length and ports any numbers.

`ForwardingRulesDeletedWhole`: during an undisturbed deletion, the load
balancer has its deletion among the calls still to come, every listener of it
its own or the listing of its rules, and every rule of those listeners its own
or that listing (`PartsLeft`); a call that is refused has nothing left to
delete. Only inmem answers it as done: k8s and aws refuse the call every
deletion ends with, that of the blob (`Cascade`). A load balancer that is not found
has no parts, as an identifier is never empty (`IdsNumbered`). `DeletionInv`
puts these together with `BalancerInv`. Assumption: `NoneIsNoNumber`.

### Checked by TLC only

* Liveness (`LongPollReturns`, `RequestsEnd`, `ListingEnds`,
  `SettlesWhenQuiet`, `DeletedGoes`), which this version of TLAPS cannot handle.
* `Storage!CompletedContent`: an object is the concatenation of its parts over
  several levels, which is an induction over data; `ObjectsStay`, whose
  objects hold such concatenations, of no type the provers could use.

## 5. What the models leave out

* Wire formats, headers and error envelopes; the message signatures of AWS and
  of Azure shared keys, which are functions of the request; of bearer tokens,
  parsing, claims and the test keys.
* Reads that change nothing and whose result no property is about, such as
  `GetObject`, `GetItem`, `Scan` and the describe calls. Reads that a handler
  makes before a write are modelled.
* Values of tags and attributes; metadata and ETags of objects; sizes, images,
  zones and instance types; certificates and health checks.
* `QueueRemote` has no messages: the remote systems keep them.
* The transitional states of DynamoDB tables (`CREATING`, `DELETING`) and of
  instances (`pending`, `stopping`). The long-running operations of gcp that
  the code does not wait for count as done when accepted.
* The ports of a load balancer's targets: a target is its identifier, as the
  backends compare it; the second port they pass over is a finding.
* Validation by the clouds and by the Kubernetes API of what is sent to them,
  beyond the refusals the code tells apart.
* Generated code (`gen/`, most of the repository's lines), which declares wire
  types and dispatches operations, and the generators that write it; the
  configuration tool, the harness.
* Several shim processes in front of one remote system are covered for remote
  backends, as they share nothing else: two clients may be on two shims. The
  exceptions are the zone files of coredns and the memory of
  `aws_apigatewayv2`, which belong to one process.

Some properties are not claimed of every backend, because the code does not
have them there: `FirewallAsAsked` and `GrantsKept` (not gcp, azure; on k8s of
what a policy expresses), `AttachmentKept` (not azure), `PutIsIdempotent` (not
aws), `StillReadable` (not azure, nor keys taken over on inmem),
`UpdateKeepsOthers` (not azure), `AnsweredIsDone` (not of tables left without
tags on azure), `VersionsTold` (not beyond a page on aws, nor of creates that
did not see the secret on azure). The findings say what happens instead.

## 6. Plan

All services are modelled, and every safety property within the provers' reach
is proved. What could be added: the message plane of the remote queue backends,
with lost acknowledgements (nats) and lapsed locks, as one more refinement of
`QueueService`.
