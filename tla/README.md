# TLA+ models of regnant

regnant is a load-balancer-as-a-service platform. A platform (Cloud Foundry style) asks an **Open
Service Broker** for an instance; the broker renders Envoy resources into an S3 bucket;
**Sovereign** reads the bucket and serves the resources to **Envoy** over XDS; Envoy asks the
**auth-sidecar** about every request. This directory models the parts where the system's state
changes: the broker, its queues and its workers, the plugins through which Sovereign reads what they
publish, the way from there to Envoy, the sidecar's key cache, and the demo backends behind it all.

## 1. Inventory

| Component | State | Operations | Talks to | What is hard | What makes it correct |
| --- | --- | --- | --- | --- | --- |
| OSB API (`services/osb/osb/api`) | none of its own | provision, update, deprovision, bind, unbind, fetch, last_operation | writes a DynamoDB row, then sends an SQS task | two calls that are not atomic; concurrent requests; a read that is stale when the write happens | a row in progress has a task; conflicting requests are refused; a replay changes nothing |
| OSB storage (`storage.py`) | instances table, bindings table, artifact bucket | get, create (conditional), transition and complete (unconditional), delete | DynamoDB, S3 | an update of an absent key creates half a row | table and bucket agree when nothing is pending |
| Task queues (`storage.py`, `terraform/modules/osb/sqs.tf`) | messages, receive counts | send, receive, delete, visibility timeout, redrive | SQS | at-least-once delivery, no order, old receipts | no task is lost, none is redelivered for ever |
| OSB worker (`worker/main.py`) | the batch it holds, the stop flag | run, _tick, _handle, the five tasks | all of the above | crash or SIGTERM in a batch, several workers, exceptions | a message is deleted only after its task was carried out |
| Renderer (`sovereign_yaml.py`) | none | render_resources | called by the worker; Envoy resolves the names it writes | parameters it raises on; names of clusters, routes and filter services that must match across resources | an available instance is reachable |
| Schemas, catalog, auth, config, errors | none | validation, constants | API | - | - |
| Sovereign plugins (`services/sovereign/plugins`) | cached payload and its age | list and read the bucket, read secrets | S3, Secrets Manager | a store that changes between pages and between list and get; failures | a context is made of what was there during one refresh, and recent |
| auth-sidecar (`services/auth-sidecar`) | cached JWKS with a TTL | check, refresh | Keycloak | concurrent refreshes, key rotation, slow fetches | tokens are judged by keys of the last moments; every check ends |
| CLI (`services/cli`) | token file | device login, one call per command | Keycloak, broker | polling with back-off and deadline | login ends; back-off is obeyed |
| WASM filters (`envoy/filters`) | none | per-request header edits | Envoy | bucket arithmetic at 0 and 100 | the split is the configured one |
| Demo backends (`services/backend-*-clone`) | dictionaries in memory | create, list | Envoy | handlers run in a pool of threads without locks; an iteration is overtaken by a create; a branch is overwritten; a restart empties everything | creates are atomic, listings regular, references exist |
| SDKs, Terraform, compose, images, edge, identity, observability | - | - | - | configuration | - |

The interactions that matter for the models: the API never calls the worker; they share the tables
and the queues only. The worker shares the bucket with Sovereign only. Everything the API promises
asynchronously is kept, or not, by the worker. Sovereign reads the bucket, never the tables; Envoy sees
what Sovereign's templates make of it.

## 2. Modules

| Module | Models | Kind |
| --- | --- | --- |
| `TaskQueue` | an SQS standard queue with its dead-letter queue | component |
| `TaskWorker` | the worker loop over a `TaskQueue` (EXTENDS), with its faults | component |
| `TaskLedger` | what a task queue and its workers promise | abstract specification |
| `InstanceRecords` | rows, parameters, artifacts and the functions on them | data |
| `OsbInstances` | provision, update, deprovision, from the API to the worker; instantiates `TaskWorker` as `Task` | composition |
| `BrokerContract` | what the broker promises a platform that waits for each operation | abstract specification |
| `OsbBindings` | bind and unbind, from the API to the worker; instantiates `TaskWorker` as `Task` | composition |
| `BindingContract` | what the broker promises about a binding to a platform that waits for each operation | abstract specification |
| `ContextPlugin` | the S3 and the Secrets context plugin of Sovereign, over a store that others change | component |
| `AuthSidecar` | concurrent checks over the cached key set of a provider that rotates keys | component |
| `Publication` | worker, bucket, context, templates and Envoy's subscriptions in a row, with the names of what is rendered | composition |
| `DemoTables` | the tables of the three demo backends and the functions on them | data |
| `DemoBackends` | the handlers of one demo backend, thread by thread | component |
| `AtomicStore` | what a demo backend promises its callers | abstract specification |
| `TaskWorkerProofs`, `OsbInstancesProofs`, `OsbContractProofs`, `OsbBindingsProofs`, `ContextPluginProofs`, `AuthSidecarProofs`, `PublicationProofs`, `DemoBackendsProofs` | theorems | proofs |
| `MCOsbInstances`, `MCOsbBindings` | menus of calls and symmetry for TLC | model checking |
| `MCContextPlugin`, `MCAuthSidecar`, `MCPublication`, `MCDemoBackends` | names, values, lives of keys and menus for TLC | model checking |

### How state and actions correspond to the code

*One action is one call* of a handler to DynamoDB, S3 or SQS, together with the local computation
that leads to it. Between two calls anything may happen: other requests, other workers, faults.

`OsbInstances`:

| Variable | Code |
| --- | --- |
| `call`, `pc`, `resp` | a request, how far its handler in `routes.py` is, its answer |
| `body`, `sendable` | what the handler computed from the row it read: plan and parameters, and whether `json.dumps` takes them |
| `rows`, `artifacts` | the instances table, the artifact bucket |
| `status`, `receives` | where a message is, `ApproximateReceiveCount` |
| `at`, `job`, `held`, `stopping` | a worker: the step of the task it runs, the message, the receipts of the batch, `Worker._stopping` |
| `handled`, `writer` | history: how often a message was handled to the end, whose operation a row was last written for |

| Code | Actions |
| --- | --- |
| `provision_instance` | `Arrive`, `ProvisionRead`, `ProvisionCreate` (conditional put), `Send` |
| `update_instance` | `Arrive`, `UpdateRead`, `UpdateTransition` (unconditional), `Send` or `SendRaises` |
| `deprovision_instance` | `Arrive`, `DeprovisionRead`, `DeprovisionTransition`, `Send` |
| `instance_last_operation` | operator `LastOperation` |
| `Worker._tick`, `_handle` | `Loop` (poll, acknowledge, restart), `Take`, `Fail` |
| `Worker._provision` | `Write`, `Record` |
| `Worker._update` | `Get`, `Write`, `Record` |
| `Worker._deprovision` | `Erase`, `Remove` |
| SIGTERM, a killed process, compose's `restart: unless-stopped` | `Disturb`, and `Restart` in `Loop` |
| visibility timeout, redrive policy | `Requeue` |

`OsbBindings` is built the same way: `LookAtInstance`, `BindRead`, `BindCreate`, `BindSend`;
`UnbindRead`, `UnbindSend`, `UnbindRemove`; `Complete` (`_bind`), `Cleanup` (`_unbind`);
`binding_last_operation` is its operator `LastOperation`.

`ContextPlugin` has one action per call to the store. The two plugins differ in one thing, the
variable `skips`: a secret that is gone when it is read is skipped, an artifact that is gone makes
`get_object` raise, which ends the refresh (`Raise`).

| Code | Actions |
| --- | --- |
| `__call__` with a cache that is too old | `Begin`; a cache that is not is returned, which changes nothing |
| `list_objects_v2`, `list_secrets` | `List`: a page of the names that are there, and whether there are more |
| `get_object`, `get_secret_value` | `Get`, `Raise` |
| the assignment to `_cache` | `Finish` |
| a call that fails after its retries | `Fail` |
| `ArtifactStore.write` and `delete` of the broker, rotation of secrets | `Change` |

`during` (what a name stood for since the refresh began) and `ago` (how long ago it stood for a
value) are history variables.

`AuthSidecar` has one action for what a check does up to its next await:

| Code | Actions |
| --- | --- |
| `check`, header of the token | `Arrive` |
| `jwks` with a live cache, then `verify` | `Hit` |
| `jwks` without, up to `send().await` | `Miss` |
| the provider | `Respond`, with the keys it publishes at that moment |
| the rest of `jwks`, then `verify` | `Store` |
| `?` on an error, the 5 s timeout of the client | `FetchFails`, `GiveUp` |
| Envoy's 500 ms timeout on the call | `Cancel` |
| a process that dies, `restart: unless-stopped` | `Restart` |

`Publication` abstracts from faults, which the modules above have, and keeps the names:

| Code | Actions |
| --- | --- |
| `provision_instance`, `deprovision_instance` | `Accept` |
| `_provision`, `_deprovision` | `Write`, `Record`; `Erase`, `Remove` |
| a refresh of `S3ContextPlugin`, artifact by artifact | `Refresh` |
| `clusters.yaml.j2` and Envoy's `cds_config` | `TakeClusters` |
| `listeners.yaml.j2` and Envoy's `lds_config` | `TakeListeners`, which leaves out listeners whose port is taken |

`Rendered` is `render_resources`: a cluster, a route, and a listener whose connection manager names the
services of its filters and, in its inline route, a cluster. `Routed` says when Envoy can follow them all.

`DemoBackends` is one of the three programs, chosen in `Init`; `DemoTables` says which tables each has,
which refer to which, and what a row is kept under.

| Code | Actions |
| --- | --- |
| a call of POST or GET | `Arrive` |
| `if payload.project_id and payload.project_id not in projects` | `Check`, `Refuse` |
| `issues[issue.id] = issue` | `Insert` |
| `list(issues.values())` | `ListAll` |
| `[i for i in issues.values() if ...]` | `Begin`, `Visit` for each item, `Finish`; `Fail` when the dictionary has grown |
| a process that exits, `restart: unless-stopped` | `Restart` |

`contents`, a history variable, has what the table of a pending listing held since its call.

Parameters are a partial map from a few keys to a few values, some of which the renderer raises on
(`Unrenderable`, for example a `listener_port` that is no number) and some of which are numbers
(`Numbers`): boto3 reads numbers of a row back as `Decimal`, which `json.dumps` refuses.

### What is abstracted

- `get_item` is eventually consistent. A handler that reads a stale row is a handler that read
  earlier, which the interleaving allows, since nothing orders the arrival of a request after the
  answer to another. With `Serial` or `WaitingSpec`, where the platform waits, and for the worker's own
  read in `_update`, reads are taken to be consistent.
- SQS may deliver a message of a standard queue twice without a cause. The fault "overrun" covers the
  repetition of a message that is held, whether its visibility timeout ran out or not. A repetition
  after `delete_message` is left out: to the tables and the bucket it is a crash between the return of a
  handler and the delete, which "crash" covers. Theorems that exclude crashes and overruns exclude it too.
- A lost answer is not told apart from one that arrives. A retry is another request.
- A float parameter makes boto3 raise before the row is written: the same as `Abort` at that call.
- PATCH with the service id of another service is in the menus: the artifact is then rendered for
  the other service and the row keeps its own (`routes.py:108`), so the contract compares plans and
  parameters only.
- A worker polls the two queues in turn. The two are modelled apart: they share no data, and a
  worker that is busy with one queue is, for the other, a worker that is slow to poll.
- Sovereign calls a plugin one call at a time, and a listing shows what is there when it is answered
  (S3 and the paginated `list_secrets` are taken to be strongly consistent). What YAML and JSON hold
  is left out; a value either parses or does not. A value that makes the parser raise something other
  than the exception the plugin catches is left out.
- A token is the name of its key. That the signature, the issuer or the expiry is wrong is a choice
  of `Verify`. What the sidecar computes takes no time; only awaiting does. The time of the actions
  that a busy runtime delays is therefore counted from when they are due.
- Envoy is external: a listener that names an unknown cluster, in a filter or in its route, serves no
  request, and of two listeners on a port one is taken. Host, path and TLS of the listeners are left out.
- The demo backends run in CPython with its GIL: threads switch between bytecodes, so that one call
  into C (`list(d.values())`, `d[k] = v`, `k in d`) is one step. The order of a dictionary is left out,
  which gives a listing more orders than it has. No handler removes a row, so a dictionary has the size
  it had if and only if it has the keys it had, which is what `Grown` compares. Timestamps, and
  columns nothing is looked up by, are left out, as is `/health`.
- Message retention, malformed bodies, unknown operations (the API sends neither), draining a
  dead-letter queue by hand, and boto's own retries are left out.

## 3. Runs

| Run | Question | Instance | Result |
| --- | --- | --- | --- |
| `osb_faulty` | do rows, tasks and artifacts stay together under every fault? | 3 requests, 1 worker, all 5 faults, 2 receives | holds |
| `osb_serial` | does a platform that waits get the contract? | 4 requests, 2 workers, handlers die and calls fail | holds |
| `osb_liveness` | do tasks and operations end? | 2 requests, 2 workers, fair; handlers die, workers crash, batches overrun | holds |
| `osb_redelivery` | does a repeated delivery change nothing? | 2 requests, 1 worker, crashes | **violated** |
| `osb_stuck` | does `last_operation` always move on while the worker runs? | 2 requests, 1 worker, no fault | **violated** |
| `bind_faulty` | do bindings and their tasks stay together under every fault? | 3 requests, 1 worker, all 5 faults | holds |
| `bind_gone` | is an unbound binding gone? | 2 requests, 1 worker, no fault | **violated** |
| `context` | is a context right, recent, and finally current? | 3 names, 1 of them ignored, pages of 2, 2 changes or failures, fair | holds |
| `sidecar` | are tokens judged by keys of the last moments, and checks answered? | 3 checks, 1 key with 3 possible lives, fair | holds |
| `sidecar_fetches` | is a live key set left alone? | 2 checks, 1 key | **violated** |
| `demo_backends` | do threads without locks keep the promise of an atomic store? | 6 requests, 3 backends, 2 branch names, 1 restart | holds |
| `routed` | does an available instance come to be reachable through Envoy? | 2 instances, 2 ports, no fault, fair | **violated** |

What the properties say:

- `InProgressIsBacked` - no acknowledged task ever leaves a row that is reported "in progress". What
  can leave one is a handler that dies, or raises, between its write and its message, or a task in
  the dead-letter queue.
- `AtRestAgreement` - with one worker, an instance with nothing pending is gone from table and bucket, or
  available with an artifact of the plan and parameters of its row, or it was spoilt by a late provision:
  a provision's task that is handled, again after a crash or for the first time because the queue keeps
  no order, after another task of the instance. `LateProvision` says how it may be spoilt, and no more:
  after a deprovision, half a row without `service_id`, "available", on which every later call answers 500
  (`transition` is an unconditional upsert); after an update, the artifact of the provision under the row
  of the update. A provision writes back neither plan nor parameters (`worker/main.py:101`), an update does
  (`worker/main.py:125`), which is why an update that comes late leaves both old but equal. Another
  update that is carried out repairs the second of these, nothing repairs the first.
- `KeepsLedger`, `EmptiesLedger` - refinement of `TaskLedger`: handled to the end before it is
  acknowledged, at most `MaxReceive` deliveries, buried only after the last, never in the queue for
  ever.
- `KeepsContract` - refinement of `BrokerContract`: what is published is what was last asked for, with
  parameters merged over every update, and "available" is reported only while it is published. It
  needs `Serial`, and fails as soon as a task can be delivered again *after it was carried out* (a
  crash or an overrun), which is what `osb_redelivery` shows.
- `SucceededIsPublished` - what such a platform reads can be believed: "succeeded" means that plan and
  parameters of the row are published, 404 that nothing is, also after updates that failed on the way.
- `OperationEnds` - an operation in progress ends, unless its handler died or raised between write and
  message, or its task is dead-lettered.
- `BindingInProgressIsBacked`, `OneBindPerRow` - the same for bindings, and two binds of one id never
  overwrite each other's credentials unless an unbind came between.
- `ComesBackAfterUnbind` - a row that no bind puts is the trace of a removed one: it takes a bind's task
  that is carried out after an unbind of that binding.
- `RefreshIsRegular` - a refresh is not atomic: the store changes between its calls. Still, under
  every name a complete payload has what the name stood for at some moment of *this* refresh, so an
  artifact that is there all the time is not missed at a page boundary.
- `CacheIsRecent` - a payload returned from the cache was right, name by name, less than an interval ago.
- `CatchesUp` - when the store rests, the plugin comes to return exactly what is in it, failures and
  an artifact that vanished in the middle of a refresh notwithstanding.
- `AnswersAreRecent` - a token is accepted only under a key that was published, and refused as
  unknown only if its key was not, no longer ago than cache lifetime plus client timeout. Slow
  answers that overwrite newer ones do not break that bound, which is what one would doubt.
- `RefetchesOverlap` - a key set that is fresh is replaced only by a fetch that had begun when it was
  stored, although the lock is released between the look at the cache and the store.
- `ChecksEnd` - every check is answered or lost, although the provider may never answer.

- `ReferencesExist` - an issue, page, pull request or branch that names a parent names one that is
  there, although another thread may run, or the process restart, between the lookup and the insertion.
- `KeepsStore` - refinement of `AtomicStore`: a create takes effect at one moment; a filtered listing
  has one row under every key that was in use at one moment since its call, and each row was under its
  key at some such moment; it fails only if a create overtook it. A branch that is overwritten while it
  is listed makes the second half of that promise necessary.
- `AvailableIsRouted` - requests to an instance that stays available, on a port no other instance asks
  for, sooner or later reach its upstream.

The five violations are the findings of `PROJECT.json`:

1. `osb_redelivery`: `services/osb/README.md:33` says the SQS message id is the idempotency key and
   that conditional writes prevent duplicates. The id is only logged and the worker's writes carry no
   condition: a redelivered provision makes a row "available" that an update has just set to
   "updating".
2. `osb_stuck`: provision with a number among the parameters (as `README.md:615` does), then PATCH
   the plan. The row is set to "updating", then `json.dumps` raises on the `Decimal` that DynamoDB
   gave back; the call answers 500 and `last_operation` says "in progress" with no task behind it.
3. `bind_gone`: a bind task that is handled after the unbind writes the row back, without a service
   id; the binding then answers 500 instead of 404.
4. `sidecar_fetches`: `services/auth-sidecar/README.md:27` says that the key set is fetched once on
   first request and cached for five minutes. Checks that miss together each fetch it, and the later
   answer, which may hold the older key set, replaces a live cache.
5. `routed`: `README.md:628` follows a request through the new listener, authorization and rate limiting to
   the backend. The inline route of a listener names the cluster `<id>-route-cluster`, and the cluster is
   called `<id>-cluster`; no bootstrap and no artifact defines the cluster `auth-sidecar`, without which
   the authorization filter refuses every request (`failure_mode_allow: False`). Each of the two alone
   violates the property; with both names put right it holds, for 20,412 states. The cluster `ratelimit`
   is not defined either, but Envoy's rate limit filter then lets requests pass.

### Bounds

- *Requests* (2 to 4): each property relates the operations of one instance. Three calls are enough
  for one operation to change the row another one read while a third is pending (read, overtaken,
  written), and four for provision, two updates and a deprovision in sequence. The menu of `osb_faulty`
  has two updates that differ in plan and parameters, so that it shows which of two was applied last.
- *Faults*: all five in the safety runs; `osb_liveness` leaves out failing calls and SIGTERM, which
  with two workers and overruns exceed what TLC can check of liveness in minutes. A task that raises at
  every delivery is in its menu, and a stopped worker is in `osb_faulty` and in the theorems.
- *Instances* (1): no action reads or writes the row, artifact or task of another instance. The
  theorems do not bound it.
- *Workers* (1 or 2): two interleave their writes; a third adds a third task in progress.
- *MaxReceive* = 2 (the code: 5) is the least that tells a redelivery from the last delivery.
  *MaxBatch* = 2 (the code: 5) is the least for a batch that outlives the timeout of its second message.
- *handled* counts handlings, at most `MaxReceive` for each message, since each needs a receive.
- *Names* (3, one ignored) *in pages of 2*: a full page that mixes read and ignored names, and a
  second one. *MaxEvents* = 2: an object is erased and written again, or a change meets a failure, in
  one refresh. *Interval* = 2: a refresh can take less than, or as long as, the interval.
- *Checks* (3): two that fetch at once, in either order, and one that uses what they left behind.
  *Keys* (1): a check looks at the key of its token only; its lives are retired early, published late,
  published for a moment. *Ttl* = 2, *Timeout* = 1, *MaxTime* = 5: a cache expires and is filled again,
  and every fetch that starts can end within the bound. The theorems bound none of this.
- *Demo backends* (6 requests): a parent, four creates and one listing. That is what a listing needs
  which sees the branch that was overwritten under one name and the older one under the other, and a
  create that makes it fail. *MaxRestarts* = 1 separates rows of before and after.
- *Publication* (2 instances, 2 ports): a listener that another one keeps from its port, and one that it
  does not.
- Symmetry of requests and workers is used in runs without liveness only; menus are the same for
  every request there.

### Fairness

`FairSpec` is weak fairness of the handlers of each request (uvicorn runs them), of the tasks and the
loop of each worker (`while not self._stopping`, and docker compose restarts a worker that exits:
`docker-compose.yml`, `restart: unless-stopped`), and of the queue (a visibility timeout runs out; a
polling worker makes SQS redrive). Nothing is assumed to make a platform call, a fault or its absence
happen. `_tick` waits 20 s and `run` sleeps 0.5 s, so a worker that is up always polls again.

`ContextPlugin`: weak fairness of the refresh (Sovereign polls its context, and a plugin that was
called runs) and of time. Changes and failures are bounded, so that the store rests at last.
`AuthSidecar`: weak fairness of each check (tokio runs what is ready) and of time; none of the
provider, of `FetchFails` or of `Cancel`: it is the client's timeout that ends a silent fetch.

`Publication`: weak fairness of the worker on each instance, of each artifact's refresh, and of Envoy's
two subscriptions, which Sovereign answers whenever a context changes. None of the platform.

`CHECK_DEADLOCK FALSE` in the runs of the broker, the sidecar and the demo backends: when all requests
are answered and the queue is empty they wait for calls that the bounded set of requests does not contain.

## 4. Proofs

| Theorem | Module | Says |
| --- | --- | --- |
| `WorkerKeepsLedger` | `TaskWorkerProofs` | `WorkerSpec => KeepsLedger`: the loop over SQS implements the ledger |
| `SteadyHandlesOnce` | `TaskWorkerProofs` | `WorkerSpec => []HandledOnce`, when `Steady`: no message is handled to the end twice |
| `TypeCorrect` | `OsbInstancesProofs` | `Spec => []TypeOK` |
| `TasksKeepLedger` | `OsbInstancesProofs` | `Spec => KeepsLedger` for the tasks of the broker |
| `SteadyRepeatsNothing` | `OsbInstancesProofs` | `W!Steady => (Spec => RepeatsChangeNothing)` |
| `RowsInProgressAreBacked` | `OsbInstancesProofs` | `Spec => []InProgressIsBacked` |
| `OneWorkerAgreesAtRest` | `OsbInstancesProofs` | `OneWorker => (Spec => []AtRestAgreement)`: only a late provision leaves table and bucket apart |
| `OrderlySucceedsPublished` | `OsbContractProofs` | `Orderly => (Spec => []SucceededIsPublished)` |
| `OrderlyAgreesAtRest` | `OsbContractProofs` | `Orderly => (Spec => []Agreement /\ []AtRestAgreement)`: not even that, for any number of workers |
| `BrokerKeepsContract` | `OsbContractProofs` | `Orderly => (Spec => KeepsContract)`: the broker implements the contract |
| `BindingTypes` | `OsbBindingsProofs` | `Spec => []TypeOK` |
| `BindingsInProgressAreBacked` | `OsbBindingsProofs` | `Spec => []BindingInProgressIsBacked` |
| `OneBindWritesARow` | `OsbBindingsProofs` | `Spec => OneBindPerRow` |
| `RowsComeBackAfterUnbind` | `OsbBindingsProofs` | `Spec => ComesBackAfterUnbind` |
| `SteadyCredentialsStay` | `OsbBindingsProofs` | `W!Steady => (Spec => CredentialsStay)`: only an unbind takes credentials away |
| `BindingsKeepContract` | `OsbBindingsProofs` | `W!Steady => (WaitingSpec => KeepsBindingContract)` |
| `WaitingOnlyBindCreates` | `OsbBindingsProofs` | `W!Steady => (WaitingSpec => OnlyBindCreates)` |
| `PluginTypes` | `ContextPluginProofs` | `Spec => []TypeOK` |
| `RefreshesAreRegular` | `ContextPluginProofs` | `Spec => []RefreshIsRegular` |
| `CachedPayloadsAreRecent` | `ContextPluginProofs` | `Spec => []CacheIsRecent` |
| `SidecarTypes` | `AuthSidecarProofs` | `Spec => []TypeOK` |
| `SidecarAnswersAreRecent` | `AuthSidecarProofs` | `Spec => []AnswersAreRecent` |
| `SidecarRefetchesOverlap` | `AuthSidecarProofs` | `Spec => RefetchesOverlap` |
| `LoneChecksFetchOnce` | `AuthSidecarProofs` | `Spec /\ []Alone => FetchedOnce` |
| `ListenersResolveNothing`, `NothingIsRouted` | `PublicationProofs` | `FairSpec => []NeitherResolves`, `FairSpec => []NothingRouted` |
| `BackendTypes` | `DemoBackendsProofs` | `Spec => []TypeOK` |
| `ReferencesAlwaysExist` | `DemoBackendsProofs` | `Spec => []ReferencesExist` |
| `BackendsKeepStore` | `DemoBackendsProofs` | `Spec => KeepsStore`: the handlers implement the atomic store |

Several theorems have the property of a run that is violated. They say what it takes to violate it, for
every instance: `RepeatsChangeNothing` a crash, an overrun (`Steady` excludes both) or a repetition that
the queue of the model does not have, `OnlyBindCreates` one of these or a platform that unbinds before the
bind is done (`WaitingSpec` excludes that), `FetchedOnce` two fetches at a time (`Alone`). `NothingIsRouted` says that `routed` is violated by every instance.

Those of the instance broker hold for every value of the constants that satisfies `InstancesAssumption` and
`MissingAssumption` (menus of well-typed calls, `MaxReceive` and `MaxBatch` positive, `Missing`,
`NoRequest` and `NoArtifact` outside the sets they mark): any number of requests, instances, workers
and parameters, every set of faults, and with or without `Serial`.

- *The loop.* `WorkerInv` strengthens the type invariant with `BusyOK` (a worker that is not
  polling handles a message it holds), `HoldOK` (a receipt is of a delivery that took place) and `AckOK` (a worker at `"ack"` has handled its job to the end, and a
  message that left the queue acknowledged was handled). It is inductive under `WorkerNext`. A step of
  the loop then maps to a step of the ledger or to a stutter: acknowledging is `Settle` because of
  `AckOK`, redriving is `Bury` because of `Exhausted`.
- *Handled once*, when no worker crashes and no message is delivered while it is held or after it was
  deleted (`Steady`, and the queue as modelled). Handling is then at most once: a message that is held is in flight, held by one worker, with its newest receipt
  (`SoleOK`), so the acknowledgement after a handling is never refused; and a message that was
  handled is deleted, dead or about to be acknowledged (`OnceOK`). A handler that raises is no
  exception: it did not return. `SteadyRepeatsNothing`, `SteadyCredentialsStay` and the contracts rest on it.
- *Composition.* Every step of `OsbInstances` is a step of the loop or leaves its variables alone
  (`StepIsLoopStep`), so the loop's invariant and its refinement carry over.
- *`InProgressIsBacked`.* It is not inductive: it does not exclude that the task of a row in progress
  was handled already and is only waiting to be acknowledged, after which the row would be left
  behind. `BackedInv` adds `RowOK` (the task of the writer of a row in progress was **never** handled
  to the end) and `MessageOK` (a message is unsent until its handler is at `"sent"`). With
  `WorkerInv`, a message that was never handled cannot be `"deleted"`, so it is queued, held or dead.
  The case that matters is `Finish`: a task is handled to the end only together with a write that takes
  the row out of progress, or when there is no row.

- *`AtRestAgreement`*, for one worker (`OneWorker`); with two it is false. `OriginInv`, for any number of
  workers, has what a row can be: the plan and parameters of a full row are those of a provision or update
  of the instance that wrote them and is past its write (`SourceOK`), and a row that is gone or half there
  although a request has read or written it was taken away by a deprovision that was carried out
  (`GoneOK`). While table and bucket differ some task is still owed, and `DebtOK` says which: an artifact
  without a row is owed by a provision that was delivered again, and an available row by any task of the
  instance, unless it is `Settled`: last written for the task that wrote the artifact, and, if that is an
  update, with what the artifact has. At rest nothing is owed, so the row is settled; if it was settled by
  a provision and still differs from the artifact, the request that wrote what it says is another one
  and was carried out, which is what `LateProvision` asks for. `PlaceOK` has what the worker did in the task it is at, and `HeldOK` that what it holds
  is still in the queue. The case that matters is the acknowledgement: it takes a debt away, and the
  task whose row was just written owes nothing, because nobody else can have written in between.
- *`KeepsContract`*, under `Orderly`: `Serial`, no crash and no overrun, for any number of workers,
  and with handlers that die, calls that fail and workers that are stopped. `OrderInv` adds to `BackedInv`
  that one call of an instance is answered at a time (`TurnOK`), that what its handler has read is
  still so (`ReadOK`), that a message is held by one worker and with its newest receipt (`SoleOK`), and that a
  task that is queued or held is the one its row is in progress for, unless it is only waiting to be
  acknowledged (`TaskOK`). So no two workers are in tasks of one instance (`Alone`), and each write of a handler
  or a worker is one step of `BrokerContract`. A crash or an overrun breaks `SoleOK` and `TaskOK`: a
  task that was carried out is delivered again, after the platform has gone on. `Agrees` in
  `OrderInv` has for every instance what is published while its row is available; from it follow
  `SucceededIsPublished` and, for any number of workers, agreement at rest without the exception for late
  provisions (`Agreement`).

- *The bindings*, from `BindingsAssumption`, which also takes the set of workers to be finite. Type
  correctness already needs more than types: a password is named by the number of the handling that
  generated it, and that this number is at most `MaxReceive` is `CountOK` of `TaskWorkerProofs`: a
  message was handled at most as often as it was received, less the number of workers that hold it
  with its handling still to come. That number is a cardinality, hence the finite set. `RowOK` has, for
  a row in progress, a bind that was never handled to the end, as for the instances. `OneOK` says that
  credentials belong to the bind that put the row, or that an unbind of that binding has removed a row: after
  that, an old bind task may write into the row of a new one, which `OneBindPerRow` allows and
  `bind_gone` shows. `ComesBackAfterUnbind` follows from the same invariant.
- *The contract of bindings.* `OsbBindings` lets a platform call whenever it likes. `WaitingSpec`
  assumes something of the platform (`Patient`): it starts an
  operation of a binding only when no other runs and `last_operation` does not say "in progress". `WaitInv` then
  has that one request of a binding runs at a time (`TurnOK`), that a bind whose task is not done finds its
  row in progress (`PendingOK`), and that an unbind which goes on removes a row that is bound
  (`ActiveOK`). Each write to the table is one step of `BindingContract`. `WaitingSpec` is in none of the runs of
  section 3; TLC finds `KeepsBindingContract` to hold of it for 3 requests, 2 workers and the faults abort,
  fail and stop (22,801 states), and to be violated when `Completed` leaves the state alone.

- *The plugins*, from `PluginAssumption`: any finite set of names, any page size and interval.
  `RefreshIsRegular` speaks of the end of a refresh only. The invariant says of every name, at every
  moment of a refresh, that it is on the page, still to be listed, or settled with a legible value
  (`Placed`), and that `during` has what it stands for now. The step that needs it is `List`: a
  name that is not listed though it is before the new token was absent at that moment, and absence
  is in `during`. `CacheIsRecent` follows at `Finish`, since whatever is in `during` was seen at most
  `elapsed` ticks ago.
- *The sidecar*, from `SidecarAssumption`: any checks, keys and lives. `IInv` adds to
  `AnswersAreRecent` what makes it inductive: an answer on its way was the key set at some moment
  since the request (`Bodies`), a live cache was the key set at some moment at most
  `Timeout + Ttl` before it expires (`CacheIsDated`), and, in `TypeOK`, no fetch outlives its timeout.
  Which of two concurrent answers is stored last plays no part, which is why overwriting is harmless.
  `RefetchesOverlap` needs another invariant: a fetch under way began when the cache had expired or before
  what is in it was stored (`FetchesAreDated`).
- *Publication*, from no assumption at all: `RenderedInv` says that bucket, context, clusters and
  listeners hold nothing but what the renderer writes; the names it writes do the rest.

- *The demo backends*, from `TablesAssumption` and `MenuAssumption`: any number of requests, names and
  restarts. A create maps to `Create` at its insertion, because a parent that was looked up is still
  there (no step but a restart removes a row, and a restart ends the handler). A listing maps to `List` at
  its last step; the invariant has, for an iteration that goes on undisturbed, a moment since its
  call at which the table had the keys the iteration began with, and for every row collected so far a
  moment at which that row was in the table.

Every invariant and every action property of the passing runs is stated by a theorem. Only model-checked are
the liveness properties (`EmptiesLedger`, `OperationEnds`, `CatchesUp`, `ChecksEnd`), which are out of the
prover's reach, and that `LastOperationMoves` and `AvailableIsRouted` are violated: of the latter, the
theorems prove that nothing is ever routed, not that an instance becomes available.

### Not modelled

- *CLI*: a command is one request. The device login is one sequential loop against a provider outside the
  repository; no second actor here can interfere, and the token file is written at its end.
- *WASM filters*: edits of the headers of one request. The split of `ab-router` is one comparison of a
  bucket with a weight, which any property would restate.
- *Schemas, catalog, authentication, settings, errors*: stateless. The status codes the exceptions are
  mapped to are those of the `Answer` actions.
- *SDKs*: one HTTP request per call, no retry and no state.
- *Terraform, compose, images, edge, identity, observability*: configuration. The queue settings and
  the restart policy are used by `TaskQueue` and for fairness.

## 5. Plan

Done: the queue, the loop, instances, bindings, the ledger and the contracts; the context plugins;
the sidecar; publication up to Envoy; the demo backends; the theorems above.

Next, in this order:

1. With several workers and under every fault table and bucket need not agree at rest. A theorem that says
   which tasks must have overlapped when they do not.
2. The refresh of `ContextPlugin` as what `Publication` abstracts it to, as a theorem.
