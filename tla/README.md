# A TLA+ model of jefferies

jefferies runs CI pipelines on Kubernetes. A pipeline is a graph of nodes; each
node is a Job whose pod (the "tube") runs the user's steps and writes a
`status.json` to S3. Any replica of the server can coordinate a run; when the
one that does dies, another takes over from what Redis, S3 and Postgres hold.
This directory models four things, each by a specification of its own:

- **the cluster** (`Cluster`): one run, the coordinators that may drive it one after
  the other or at the same time, the reaper, and the services they share;
- **the pod watcher** (`PodWatcher`): how a coordinator learns of its pods, over a
  watch that is lost and channels that fill up;
- **the ingress** (`GithubProvider`): how webhooks and retries become runs, from
  signature and tenancy to the uploaded source and the launch;
- **sessions** (`Sessions`): how users log in and what they are let in to.

## The system and its parts

| Part | State | Operations | Hard because | Correct when |
|---|---|---|---|---|
| Run state machine (`coordinator/src/run.rs`) | status of each node | `mark_*`, `ready_nodes`, `is_complete` | a completion may arrive for a pending, a terminal or an unknown node | dependencies are respected; the two completion tests (`is_complete`, `run_state_is_terminal`) agree |
| Coordinator (`coordinator.rs`) | memory of the run, state version, lease version, phase timers, internal channel, subscription | start, rehydrate, dispatch, completions, infrastructure failures, timeouts, S3 reconciliation, cancel, deadline, heartbeat, finalize, cleanup | every `await` lets another coordinator, the reaper, a worker or a user in; it may die at any of them | no success is invented, no node runs early or waits for ever, history is recorded before artifacts go |
| State store (`state_store`) | run state key, lease key, lease counter | compare-and-set save, delete, acquire, renew, release, orphan and terminal listings | leases expire under live owners; versions restart when a key is deleted | a deposed coordinator does no harm |
| Backplane (`backplane`) | the run's exclusive queue | publish, subscribe, consume | messages without a subscriber are lost, the queue may still belong to a predecessor | nothing depends on a message arriving |
| Run history (`run_history`) | `pipeline_runs`, `node_runs` | inserts and updates with different conflict clauses | several writers, failures only logged | the recorded verdict is true |
| Dispatcher and workers (`kube_dispatcher.rs`, `source_manager.rs`) | Jobs, ConfigMaps, S3 objects | dispatch, cancel, cleanup, read outcomes | two creates per dispatch, pods that break, hang or outlive their run | nothing is left behind for ever |
| Pod watcher (`pod_watcher.rs`) | uids reported, announced deletions, seed and first list of a rehydrated run, three channels | classify pods, deduplicate, presence diff, announce deletions, relay | races timers, cancellations and completions; lists repeat, watches are lost, channels are bounded | failures are reported, the coordinator's own deletions are not, nobody waits on everybody |
| Reaper (`reaper.rs`) | none of its own between steps | reclaim orphans; sweep terminal, in-progress and stranded runs | acts on listings that are stale | every run ends, whoever dies |
| HTTP server (`server`) | none | poke, cancel, routes of a run | pokes are retried and race everything else | S3, not the caller, is believed; what is served was asked for under a slug the user has |
| GitHub provider (`providers`) | none; runs, S3 sources | webhooks, retries, launch | deliveries repeat, handlers run at once, calls fail in the middle of a list, the tenancy document changes under stored runs | every run has a legitimate origin, none starts twice, each has its whole source |
| Pipeline definitions (`pipelines`) | the parsed file | triggers, validation, merging of secrets | missing keys, keys without values and empty lists mean different things | an event starts the pipelines that ask for it |
| Source manager (`source_manager.rs`) | S3 objects of the run | multipart upload, outcomes, cleanup | frames of any length are cut into parts | the object is the tarball |
| Tenancy (`tenancy`) | three indexes over a document | validation, lookup | duplicates across indexes | a lookup finds the one tenant the document names |
| Authentication (`auth`) | session records, pending logins | login, callback, logout, active tenant, extractor | requests write back the whole record they loaded | a session holds only what a login of its own gave |
| Configuration, start-up | environment | parsing | — | not modelled |

Coordinators, reaper and server never call one another across replicas: they meet
in Redis, Postgres, RabbitMQ, S3 and Kubernetes. The provider hands a run to the
cluster by `start_coordinator` (`Launch` in `Cluster`, `start_coordinator` in
`GithubProvider`); the watcher hands signals to the coordinator (`Send` in
`Coordinator`, `Relay` in `PodWatcher`).

## Modules

| Module | Models | Notes |
|---|---|---|
| `PipelineRun` | `run.rs`, `run_state_is_terminal` | pure operators over a status function; constants `Nodes`, `Deps` |
| `ServerIds` | the id `start_coordinator` draws | an element of `Servers` is one incarnation of a coordinator |
| `StateStore` | Redis | `store`, `lease`, `lease_ver`; one operator per command or Lua script |
| `Workers` | Jobs, ConfigMaps, `status.json` and the pods | pods are external; `launched` and `succeeded` are history variables |
| `RunHistory` | Postgres | `pipeline_row`, `node_rows` |
| `Backplane` | RabbitMQ | `subscriber`, `events` |
| `Coordinator` | `start_coordinator` and `Coordinator::run` | `co[s]` (program counter, memory, versions, what is in hand), `sig[s]` (timers, channel, watcher) |
| `Reaper` | `reclaim_orphaned_runs`, `sweep_stranded_resources` | `sweep`; a reclaim pass uses the program counter of the id it will start |
| `Cluster` | all of the above with launch, poke, cancel, crashes and lease expiry | `Spec`, `FairSpec` and every property |
| `PipelinePromise` | what a run promises its user, in three variables | abstract; `Cluster` implements it |
| `PodWatcher` | `pod_watcher.rs`, its relay and what of the coordinator touches the channels | `w` is `WatcherState` with the signals `send_signal` is about to send; `cmds`, `signals`, `inbox` are the channels; pods and the watch are external |
| `Tenancy` | `tenancy/src/lib.rs` | pure: registration entry by entry, lookups |
| `Sessions` | `auth`, the protected routes of `server` | `tab[r]` is a request under way with its copy of the session record; the session middleware is external |
| `PipelineDefinition` | `pipelines/src/pipeline.rs` | pure: a file is the tree its YAML denotes |
| `SourceUpload` | `upload_parts` | pure: a byte is its position in the tarball |
| `GithubProvider` | `providers/src/github.rs` over the three before it | `handler[h]` is a request under way, `log` the requests so far, `runs` the runs started |
| `MCCluster`, `MCPodWatcher`, `MCSessions`, `MCIngress` | instances for TLC | |
| `ClusterType_proofs`, `Cluster_proofs`, `Deadline_proofs`, `Alone_proofs` | theorems about `Cluster` | types; claims and refinement; timers; a coordinator without a competitor |
| `PodWatcher_proofs`, `Tenancy_proofs`, `Sessions_proofs`, `GithubProvider_proofs` | theorems about the module of that name | the last one also those about `PipelineDefinition` and `SourceUpload` |

**State and code.** `co[s].mem` is `self.run`, `version` is `self.state_version`,
`lease_version` is `self.lease_version`. `pc` names the await the coordinator is at;
`stage` says what `dispatch_ready_nodes` returns to (the fold of completions during
rehydration, the promotion loop, the first dispatch, the select loop); `work` and
`todo` are the rest of the lists the code iterates over; `node` and `cause` are the
arguments of the handler under way. `sig[s].handle` is `node_phase_handles`:
inserting over a running timer drops its `JoinHandle` and so detaches the task
(`detached`), removing it aborts the task. `sig[s].inbox` is the internal channel.
`fenced` is a history variable: one of this coordinator's saves was rejected.

**Granularity.** One step per call to a shared service whose place among other
actors' steps can matter. Changes to a coordinator's private memory are folded
into the next shared call. Three places do a read and the write it feeds in one
step, because the write can be moved next to the read without changing what anyone
else ends up with: the terminal sweep's load and `finalize_pipeline_run_status`
(which acts on rows in progress only, and which an unconditional
`record_pipeline_run` overwrites either way), the refresh of rows from S3 in the Postgres
sweep, and the rows `record_history` writes for nodes still running (an outcome in
S3, once complete, changes only by being deleted). The reclaim pass's second load
is merged with its reading of the row, which is never deleted. Dispatching a node
is one step, but a crash between its two creates is an action of its own
(`CrashInDispatch`).

**Faults.** `Crash` may happen at every step of a live coordinator and takes its
timers, watcher and queue with it. A lease may expire under a live coordinator
(`ExpireLease`): the heartbeat shares the loop with handlers that wait for
Kubernetes and S3. `Faults` selects services whose calls may fail: `kube`, `s3`,
`history` (Postgres), `backplane`, `redis`; the error path of each call is then a branch of
its action, and where the caller cannot know whether the command was executed, both are possible.

- Redis: a save that errs is only logged after a dispatch or a promotion (`PersistAnyhow`; the version stays, so
  the next save is rejected if this one was executed) and ends the run as a failure after a completion, an infrastructure
  failure or a timeout (`PersistOrFinish`). A renewal that errs ends `run()` without recording or cleaning up although the
  lease is held. Errors of `release_lease` and `delete_run` are logged. A lease check of the reaper's listings that errs
  counts as no lease (`Unleased`). A load that fails at take-over starts the run afresh in memory, and the kube sweep takes a
  state it cannot load for corrupt and deletes it.
- Kubernetes: Jobs and ConfigMaps are deleted by separate calls that fail separately; a dispatch that errs may leave its
  ConfigMap (a failed roll-back) or a Job whose answer was lost (`dispatch_errs`).
- S3 and Postgres fail per node, RabbitMQ at the subscription.

**The pod watcher.** A node's pods are numbered; `stage` is what the kubelet reports, and
`container_statuses` turns it into the statuses `classify_pod` reads. A watch event is
delivered in order or, when the watch is lost (`Desync`), not at all; `List` then delivers
the pods of that moment. When the run ends nothing is announced to the watcher: `record_history` has marked the running
nodes failed before `terminate_running_nodes` looks for them, and `cleanup_run` deletes their Jobs (`Stop`). Initial states are a fresh run and every reloaded one. The signal
the relay task holds counts as still being in its channel.

**Sessions.** Two tabs stand for any requests of one browser. A request loads the record, works on
its copy, and `Respond` writes the whole copy back if it was changed, which is how
`tower-sessions` saves it. Attempts number the logins: an attempt is its csrf token, nonce and verifier,
which are fresh per login. `Deploy` restarts the server with another tenancy document while
sessions stay in Redis. A single run is served after `check_run_in_slug` (`ServeRun`); `list_runs` serves the rows whose *owner* has the
slug's name. Slugs are chosen apart from organisation names (`docs/architecture.md:19`), so, against `docs/architecture.md:30`, a list can lack
the tenant's runs and hold those of another tenant; `ServedIsGranted` says of a list only what the code ensures.

**Ingress.** A delivery is a record of the payload's parts that the code looks at, and any delivery may
come any number of times. Handlers take their list of pipelines or runs once and launch one after
the other. A failing call of GitHub, S3, Redis or Postgres, or a restart with another document, counts
against `MaxFaults`. A ref is a branch, a tag or neither. A run whose first insert into Postgres failed gets its row when it is
finalized, at any later time (`record_pipeline_run`), and can be retried from then on. Suites are re-run per repository.

## Runs

### The cluster

Constants select what an instance explores: `Signals` (timer phases, watcher
signals, the pipeline deadline, a closing subscription), `Faults`, `Sweeps`,
`MaxPokes` (pokes per node), `MaxCancels`. `Servers` bounds how many coordinators
a run can have. `Spare` ties crashes and expiries to it: they happen only while an
unused id is left, so that an instance never ends merely because it ran out of ids
(`ExpireLease` also when nobody is alive). Versions, lease versions and queues need no
bound of their own: these limits make them finite. Deadlock checking is off: a run
that has ended, or whose ids are used up, rightly stops.

| Run | Instance | Shows |
|---|---|---|
| `single` | 1 id, `a -> b`, all signals but the firing of runtime timers, `redis` and `kube` faults, 1 poke per node | types; in its loop the coordinator has a deadline for every running node (`RunningNodeHasDeadline`) and a crash loses at most dispatches whose saves erred (`WaitsPersisted`); Postgres has every verdict before artifacts are deleted, but for one completion whose save erred (`HistoryIsComplete`); no node is launched twice however completions, timeouts, signals, pokes and errors are ordered (`NoRelaunch`) |
| `failfast` | 1 id, `a -> b` and `c`, `fail_fast`, startup timers, deadline, closed subscription, `s3` faults, 1 poke per node, 1 cancel | `FailFastStops`; on every exit `NoLeftovers`, and `HistoryIsComplete`, which excuses no node where Redis does not fail |
| `failover` | 2 ids (symmetric), `a -> b`, both timers, all sweeps | `ClaimsAreReal`, deadlines after rehydration, and the refinement `KeepsPromise` |
| `faults` | 2 ids (symmetric), one node, `redis`, `history` and `backplane` faults, all sweeps | `ClaimsAreReal` with sweeps, take-overs and lost answers of every kind |
| `liveness` | 2 ids, one node, both timers, all sweeps, `FairSpec` | `EveryRunEnds`, `StrandedJobsAreReaped` |

Why the bounds suffice to be interesting: two nodes in a chain give a dependency to
violate, and a third, independent one gives fail-fast something to stop. Two ids give
a deposed and a current coordinator at once, together with a reaper; `outdated_write`
needs three. One poke per node already races the fold from S3, timeouts and signals. The
theorems below hold without any of these bounds, and for all faults at once.

What `HistoryIsComplete` leaves out is real: when Redis fails the save of a completion, `handle_node_completed` returns before it records the
node, the run is recorded as a failure, and the node's row stays `dispatched`.

Symmetry is over server ids, in runs with safety properties only.

Four more runs state what the documentation says and the code does not keep; TLC
finds each of them violated.

| Run | Documentation | Counterexample |
|---|---|---|
| `outdated_write` | `docs/architecture.md:167` and `README.md:29`, a zombie cannot write outdated state, only the current coordinator writes | a deleted state accepts version 0 from anyone and restarts its versions: one deposed coordinator recreates the run, another's expected version matches and its save replaces the node's final status |
| `fenced_teardown` | `docs/architecture.md:172`, after a rejected write the coordinator stops immediately | a rejected save leads to `finalize_run` and `cleanup`, which delete Jobs, artifacts, lease and state under the coordinator that won the conflict |
| `redispatch` | `docs/architecture.md:178`, dispatch checks for an existing pod | a Job left by a coordinator that died before its save makes the successor fail the node |
| `verdict_replaced` | `docs/architecture.md:84`, `ON CONFLICT DO NOTHING` | `record_pipeline_run` updates on conflict; a deposed coordinator records a cancellation and its successor records failure over it |

The safety properties that hold say how far these go: even with zombie writes, runs
torn down under a live coordinator and reclaimed runs, no success is invented and no node starts
before its dependencies.

**Fairness** (`Fairness` in `Cluster`). Weak fairness for a coordinator's steps (Tokio
polls a ready task, and its calls return), for its loop, for timers that were not
aborted, for the reclaim pass, for a sweep that has begun, and for the expiry of a dead owner's
lease (nobody renews it). Strong fairness for the beginning of each sweep pass: the
reaper's loops tick for ever and run their passes in turn, so a pass that has work
again and again is run. Nothing is assumed of workers, users or the pod watcher:
`EveryRunEnds` holds although workers hang. It excuses instances whose ids are all
used up, which a deployment does not run out of.

### The pod watcher, sessions and ingress

| Run | Instance | Shows |
|---|---|---|
| `watcher` | one node, two pods one after the other, four stages (`scheduled`, `running`, `oom`, `init_failed`), channels of 1, 2 and 1 places, 2 events under way, 1 lost watch | channels keep their capacity (`WatcherTypeOK`); a deletion reported of a pod happened and was not the coordinator's own while the run goes on; a rehydrated node is reported as lost only if a whole list lacked it, although its pod may be yet to come (`NoFalseAlarm`); the three tasks cannot wait on one another for ever, because no node is announced twice (`AnnouncementsFit`); failed and evicted pods are noticed (`BrokenPodIsNoticed`, `EvictedPodIsNoticed`) |
| `sessions` | 2 tabs (symmetric), 2 session ids, 2 logins, 1 deployment, 2 tenants, 3 users | `AuthIsEarned`, `LogoutIsFinal`, `ServedIsGranted` under all interleavings of whole-record writes; `RegistryIsFaithful` for each accepted document, where five others must be refused |
| `ingress` | 2 handlers (symmetric), 3 requests of 19 kinds (the first may be answered at once), 1 fault or restart, 4 run ids, 3 documents, 20 pipeline files | `RunProvenance`, `NoDoubleLaunch`, `SourceIsWhole`; what is answered has been started, unless a fault says why not (`AnsweredInFull`) |

The smallest capacities make every channel full and empty within a few steps; `AnnouncementsFit`
needs one place more than there are nodes, as the code has (32 places; a pipeline of 32 nodes or
more is outside the property, and there the cycle of waits is possible). One
node suffices because the watcher's state is per node but for the channels; two nodes
give 16.8 million states, too many for the liveness properties.
The four stages contain one that is reported as running, one failure before and one after it; the other
failing stages differ only in the reason. `EvictedPodIsNoticed` excuses a deletion that falls into a lost watch: the
code looks for missing pods after the first list only, and such a node waits for its timer, which
`RunningNodeHasDeadline` guarantees.

Two tabs and two logins are what it takes for one request to overwrite another's record and for
one session to outlive another. In `ingress`, two requests at once and a third one after them give
a retry of a retry and a re-run of a suite that has been retried.

Deadlock checking is off: these systems come to rest when their bounds are used up.

**Fairness** (`WatcherFairness`): weak fairness for the watcher task, the relay, the
coordinator's handlers and for the watch being established again (`default_backoff` retries
for ever). Nothing is assumed of Kubernetes, of workers or of users.

## Theorems

A theorem holds for every value of the constants that the named assumptions of the module
allow; none is weaker than the property TLC checks.

### The cluster

All hold for every set of nodes, dependency graph (cyclic ones too), set of server
ids, `Signals`, `Faults`, `Sweeps` and bound, from the named assumptions only:
`DepsAssumption` (dependencies are nodes, which `validate_dependencies` enforces),
`ConfigAssumption`, `SweepsAssumption`, `BoundsAssumption`.

- **`TypeCorrect`**: `Spec => []ClusterTypeOK`. Types alone are not inductive: a
  handler that returns from an await indexes by the node it has in hand, and
  finalizing writes the status in hand to Postgres. `TypeInv` adds `HandsOK`: a
  coordinator at such a point has a node of the graph in hand, and one that is
  finalizing has a final status.
- **`ClaimsTheorem`**: `Spec => []ClaimsAreReal`. The inductive invariant is
  `SafetyInv == TypeInv /\ ClaimsAreReal`. "Postgres says success only if the worker
  did" is not inductive: the claim may come from S3, from Redis, from a queued event, from a
  sweep's copy of the rows or from a coordinator's memory, and each of them is fed by the
  others (a sweep reconstructs Redis from Postgres, a successor loads it). `ClaimsAreReal`
  follows a success through all of these places, with the list of nodes a coordinator
  is about to dispatch, and so gives the order of dependencies too. No part of the argument uses leases, versions or fencing.
- **`PromiseTheorem`**: `Spec => KeepsPromise`. Each step of the cluster starts a node,
  completes one, opens or closes the verdict, or stutters; `SafetyInv` gives
  the guards of the abstract actions.
- **`CompletionAgrees`**: `is_complete` and `run_state_is_terminal` agree on every
  status function, so no run is over for its coordinator and an orphan for the reaper.
- **`RunningNodeHasDeadlineTheorem`**: `Spec => []RunningNodeHasDeadline`. In the loop a running node has a
  deadline, but during a handler it need not: a node is marked running before its timer is
  spawned, a timer is aborted before the node is terminal. `TimedOK` says of every place of `run()`
  which nodes may be without one: the node whose dispatch is being completed (`BeingArmed`), and
  until the timers are rehydrated all of them (`Owed`); and that the loop is entered only in the stage for it (`Placed`).

The properties of `single` and `failfast` are about a coordinator that has no competitor. They are
proved under `Alone`: one server id and no sweep, with any graph, signals, faults, pokes and
cancels. With two ids they are false, and the violation runs show why; a successor
also launches nodes after its predecessor has decided to fail fast, because that decision is not stored.

- **`WaitsPersistedTheorem`**, **`NoRelaunchTheorem`**, under `Alone`, with any call to Redis failing, executed or not. `AloneInv` says what memory,
  Redis, Jobs, lease and subscription have to do with each other at each place of `run()`. Without errors the stored version is the
  coordinator's own and every save is accepted. With them Redis may be behind memory by dispatches, or ahead of the
  coordinator's version by one save whose answer was lost; but a completion that is not saved ends the run, so in the loop
  Redis has them all. What is left to dispatch is pending and has never been launched.
- **`FailFastTheorem`**: also without `kube` faults. A Job whose creation fails leaves the node failed while
  the rest of the ready nodes is still being dispatched, so with them the property does not hold.
  `Unfailed` adds that until a failure is being handled no node has failed.
- **`NoLeftoversTheorem`**: also without `kube`, `redis` and `backplane` faults. A delete that fails is only logged, so is an error of
  `release_lease` or `delete_run`, and a coordinator whose renewal errs or that cannot subscribe returns without cleaning
  up. `Gone` lists what `cleanup` has removed at each later place.
- **`HistoryTheorem`**: also without `history` faults. It speaks of the time from the start of `cleanup`; a coordinator stopped by a failed
  renewal or subscription records nothing, and deletes nothing. `Rows` says which launched node has a verdict in Postgres
  at each place, which handler is about to record the one that is missing, and which one is lost with a failed save.

### The pod watcher

`WatcherAssumption` only: any finite set of nodes, any stages, pods, backlog, lost watches and capacities.

- **`NoFalseAlarmTheorem`**. The inductive invariant `WatcherInv` follows a deletion from the order to the
  report. A Job is deleted under a pod only after its node was announced, and an
  announcement stays in the command channel or in `expected_deletions` (`OrdersOK`); since commands are read
  before events, a `Delete` event handled with an empty command channel was not ordered. A
  `Delete` event in the stream is of a pod that is gone for good (`StreamOK`, `PodsOK`). Before an `InitDone`
  comes an `InitApply` for every seeded node that had a pod when the list was taken (`ListOK`), so
  what is missing at the end of it was absent when the list was taken. That is all the code knows of such a node: it may
  have been cancelled before the first list, or its pod may not have been created yet.
- **`AnnouncementsFitTheorem`**. `CmdsOK`: the command channel and the nodes still to be announced are free of
  repetitions and disjoint, because only terminal nodes are announced, each at the moment it becomes
  terminal, and none at the end of the run. A sequence without repetition is no longer than its
  alphabet is large (`NoRepetition`).
- **`WatcherTypeTheorem`**: no channel exceeds its capacity.

### Tenancy and sessions

`TenancyAssumption` and `SessionsAssumption` only: documents are any sequences of any strings, claims any groups, and there are any
number of tabs, sessions, logins and deployments.

- **`FaithfulTheorem`**: an accepted document's three indexes find every tenant under each of its keys and
  nothing else. By induction over the entries; the invariant of the loop is that the indexes agree
  with the entries read so far and that what is refused stays refused.
- **`AuthIsEarnedTheorem`**, **`LogoutIsFinalTheorem`**, **`ServedIsGrantedTheorem`**, **`SessionsTypeTheorem`**,
  **`RegistryIsFaithfulTheorem`**. `AuthIsEarned` is not inductive: a request may be between the check of its attempt and the
  write of its copy. `SessionsInv` adds what each request under way carries at each of its steps
  (`RequestOK`), that an attempt belongs to one session for good and a closed session
  has no record (`AttemptsOK`), that a pending attempt in the store is of its own session (`StoreOK`), and that no two requests
  hold the same new attempt (`FreshOnce`). `ServedIsGranted` covers lists, of which it says no more than that the owner's name is an entitled slug.

### The ingress

From `TenancyAssumption`, `FileAssumption`, `PartSizeAssumption`, `RunAssumption` and `IngressAssumption`: any documents, deliveries,
handlers, directories, pipeline files and tarballs, any number of requests, faults, restarts and runs. Of what comes from outside
they say only that a payload has the parts GitHub always sends (`Complete`), that no two entries of one directory
have the same name, that files are trees of the shape that `serde` accepts, and that "absent" is no value.

- **`UploadIsWhole`**: however a tarball is cut into frames and whatever the part size, the uploaded parts are the tarball in order, and
  only the last is short. By induction over the steps of the loop; its invariant is that what was read is what was sent and
  what is in the buffer.
- **`IngressTypes`**, **`RunsHaveProvenance`**, **`NothingLaunchedTwice`**, **`SourcesAreWhole`**, **`RequestsAreAnsweredInFull`**:
  `IngressSpec => []P` for the five invariants of the `ingress` run. None of them is
  inductive: a request is answered many steps after its list was made, and what it launched in between is only in `runs`.
  `IngressInv` says that every entry of the log was routed to the tenant its secret and repository
  name (`Routed`) and, once it is closed, launched what it should (`Settled`); that what a busy handler has launched and what it has left to
  do are disjoint and make up what the commit asks for, unless a call failed (`EventTodo`, `RetryTodo`); that the run it is
  about to start has its context, its tenant and its source (`Working`); that no two handlers share a request or a run id (`Apart`);
  that every run is justified by its request and, if a retry, by an earlier recorded run
  (`Justified`); and that runs of one request differ (`OneEach`). Chains of retries are well-founded because a retry has a
  larger id than what it retries; `RunProvenance` follows by induction along them. A row that arrives late changes nothing that these speak of (`Rowed`).

The proofs found two definitions that could not be reasoned about: the dispatch of `handle_webhook` was a `CASE` whose guards
overlapped, and `root` was not defined for the id of a run that is not started. Neither changed a reachable state.

### How the proofs are laid out

One lemma per action, with one step per conjunct it can disturb; lemmas such as `Parts`, `ClaimParts`, `CmdsKept` or `StreamKept`
name what a step that leaves something alone preserves. Loops of the code (registering a document, collecting the slugs of
a login, the presence diff, the files of a directory, the frames of an upload) are recursive functions; their lemmas are proved with `SetInduction`, which is induction
for a set of numbers and rests on the well-foundedness of `<`, and they first show that the
function exists.

### Only model-checked

- Liveness (`EveryRunEnds`, `StrandedJobsAreReaped`, `BrokenPodIsNoticed`, `EvictedPodIsNoticed`): fairness is out of the
  prover's reach.

## Not modelled

- Corrupt JSON in Redis other than as a load that errs.
- Time: timers fire at any moment while armed; the durations, the heartbeat period and
  the pipeline deadline's restart at rehydration are not counted, nor are session lifetimes.
- Pod deletion grace periods, manifests, names and labels, vault annotations.
- `cleanup_run`'s one page of S3 objects, presigned URLs, log retrieval.
- The check runs shown on GitHub (their errors are only logged), `handle_installation`
  (which logs), the filters and paging of `list_runs`, the live merge of node rows, health checks: they
  change no state that anything else reads.
- Characters: DNS labels, organisation names, paths and quantities are given as the sets and pieces
  the checks distinguish. Two nodes of one name in a file, which `from_yaml` does not refuse, are not
  instantiated.
- That every accepted pipeline can be run: it cannot. `from_yaml` accepts dependency cycles, repeated node names and, by
  `is_reserved_path`, mounts at `/`, at `/etc/` and at `/d` beside `/d/` (against `docs/architecture.md:66`). The checks are
  modelled as they are, and decide in `find_matching_pipelines` which files count; no property is stated of what they let through.
- Configuration and start-up: parsing of the environment, once.
- `InMemoryStateStore`, `InMemoryBackplane`, `NoOpRunHistory`, `LogDispatcher`: test and
  development doubles.
- In the cluster, more than one run: runs share no state but the listings of the reaper, which handles
  them one by one. More than one sweep at a time.

## Plan

Done: survey; `PipelineRun`, services, `Coordinator`, `Reaper`, `Cluster`; refinement of
`PipelinePromise`; errors of every service; `PodWatcher`; `Tenancy`, `Sessions`; `PipelineDefinition`, `SourceUpload`,
`GithubProvider`; every invariant and action property of the passing runs proved.

Next, in this order:

1. Monotonicity of lease versions, and of state versions between deletions.
2. `PodWatcher`'s signals as a refinement of those `Coordinator` assumes.
3. Overlapping sweeps of several replicas; pod deletion that takes time.
