# DevNest in TLA+

DevNest gives each user containerised workspaces (a code-server in a Docker
container on one of several execution nodes). The backend is a FastAPI
application over PostgreSQL; requests write *intents* to the database, background
workers carry them out, and several independent repair loops put right what
crashed workers leave behind. Nothing but the database coordinates these
processes, and what makes the code hard is exactly that: several processes read
rows, act on the world, and write back later.

This directory holds a specification of that control plane, TLC configurations
that check it on small instances, and TLAPS proofs for every instance.

## 1. Inventory

Paths are relative to `src/backend/app/` unless they start with `src/`.

| Component | State it keeps | Operations | Works with |
|---|---|---|---|
| Workspace intents (`services/workspace_service`) | `workspace.status`, `workspace_job` rows | create, start, stop, restart, update, delete, enqueue reconcile | queue (inserts), quota and policy (refusals) |
| Job queue and worker (`workers/workspace_job_worker/worker.py`, `workspace_job_runner.py`) | `workspace_job` status, attempt, `next_attempt_after` | claim, place, execute, finalise, retry, fail | placement, orchestrator, topology adapter (on the *same* database session) |
| Failure handling (`failure_handling.py`) | attempt counters, capacity window | retry or fail, backoff | worker, reclaimer |
| Stuck-job reclaimer (`reclaim_stuck_running_jobs`) | none of its own | requeue or fail old RUNNING rows | queue, without knowing whether the worker lives |
| Orchestrator (`services/orchestrator_service`) | none; drives containers | bring up, compensating rollback, stop, restart, delete, update, snapshots | Docker adapter, topology adapter, probes |
| Topology adapter (`libs/topology/db_topology_adapter.py`) | `topology_runtime`, `ip_allocation`, `topology_attachment`; bridge and veths | ensure, allocate, attach, detach, release, delete, janitor | orchestrator, reconcile; commits the session it is given |
| Reconcile (`services/reconcile_service`) | advisory lock | compare a settled status with reality and repair | queue (is a job type), topology janitor, orchestrator, gateway |
| Cleanup (`services/cleanup_service`) | `workspace_cleanup_task` | remember and drain failed rollbacks | orchestrator, reconcile |
| Placement and scheduler (`services/placement_service`, `scheduler_service`) | node capacity, reservations, `workspace_runtime.node_id` | select a node, reserve, release | worker, autoscaler |
| Node lifecycle, autoscaler, EC2 (`placement_service/node_heartbeat.py`, `services/autoscaler_service`, `services/infrastructure_service`) | `execution_node` status and counters | heartbeat, scale up, drain, terminate | placement, cloud provider |
| Snapshots and repository import | `workspace_snapshot`, import rows | create, restore, import, as job types | worker |
| Sessions and gateway (`workspace_session_service.py`, `services/gateway_client`, `src/devnest-gateway`) | session rows, routes | issue, check, revoke; register and remove routes | worker finalisers, reconcile |
| Quota and policy | counts over other tables | check before a write | intents |
| Event bus, notifications, usage, audit | queues and append-only rows | publish, deliver | everything |
| Probes, Docker runtime, storage, node execution, integrations | external systems | I/O | orchestrator |
| Authentication, users, frontend, migrations, observability | | request/response, UI, scripts | |

Where the difficulty lies:

* **Concurrency.** API requests check a status with an unlocked read and write it
  later. A worker claims with `FOR UPDATE SKIP LOCKED`, but only *flushes*: the
  claim becomes visible at the first commit, and that commit is made by the
  topology adapter in the middle of the job. The same adapter answers conflicts
  by rolling the worker's session back.
* **Failure.** A worker can die between any two commits. The rollback of a
  bring-up is a sequence of best-effort steps, each of which may fail.
* **Timeouts.** The reclaimer decides by age alone that a worker is dead. The
  topology janitor decides by age, or by no age at all, that a row is abandoned.
* **Retries.** Attempts, rollback rounds, address conflicts and the capacity
  window each bound a loop; the system only settles if all of them do.

What makes each component correct:

* *Queue and worker:* a workspace in a transitional status always has a job that
  will end it (no request is accepted meanwhile); a job runs in one worker; a
  finished job stays finished; the transitional status is eventually left.
* *Intents:* an accepted operation is carried out alone and ends in the status it
  is for, or in ERROR, unless a request that was checked too early or a side job
  that is given up writes over it.
* *Topology:* no address is wired into two containers; a RUNNING workspace is
  attached under the address it has leased; addresses and half-made attachments
  of dead jobs come back while reconciles keep running the janitor; every job ends.
* *Runtime row, container and route:* the placement of a workspace is not
  forgotten; the route of a RUNNING workspace comes to lead to its container, once
  route-admin's table and its file agree; a container that a failed job left behind
  is stopped, where the opt-in reconcile loop runs.
* *Nodes:* a node takes no workspace before it has proved ready; a row is
  TERMINATED only when the instance is gone; no node is terminated under a
  workspace that was placed on it while it was READY (a pin written after the drain
  and a START that goes back to a draining node are not protected); the fleet keeps
  its cap up to the launches in flight.
* *Quota, sessions, slots:* what is checked before it is used up is exceeded by no
  more than the requests in flight, what jobs bring into a count aside; a session of
  an earlier run opens nothing, unless it slipped in while the job ended.
* *Snapshots and imports:* what is offered is whole; the user's files survive the
  failure of a restore; a pending import has a job; a cloned row has its files
  unless they lay outside the mount and went with the container.
* *Events:* the stream shows every event once and in order.
* *Accounts and notifications:* a withdrawn credential opens nothing; the death of
  a sender does not make a channel take a message twice.

The hazards behind these, each at its line, are listed in `PROJECT.json`.

## 2. Modules

| Module | Role |
|---|---|
| `WorkspaceStatus` | Statuses, job types, from where an intent is accepted, where a job ends |
| `WorkspaceLifecycle` | Abstract specification: what the control plane promises the owner of a workspace |
| `WorkspaceJobs` | API handlers, queue, workers, reclaimer, timers, every job type |
| `WorkspaceIntents` | `WorkspaceJobs` as the owner of a workspace sees it, with the history of operations written over; refines `WorkspaceLifecycle` |
| `WorkspaceJobsProofs` | Theorems about `WorkspaceJobs` and `WorkspaceIntents` |
| `AddressPool` | Abstract specification: what the address protocol of a topology promises |
| `Topology` | One node's topology: leases, attachments, veths, containers, bring-up, stop, delete, janitor; refines `AddressPool` |
| `TopologyProofs` | Theorems about `Topology` |
| `ConvergenceProofs` | Theorems about `RuntimeConvergence` and `EventStream` |
| `NodeProofs`, `FleetProofs` | Theorems about `ExecutionNodes` and about `Fleet` |
| `AccessProofs` | Theorems about `Admission` and `WorkspaceSessions` |
| `StorageProofs` | Theorems about `RepoImport` and `Snapshots` |
| `AccountProofs` | Theorems about `Accounts` and `Notifications` |
| `RuntimeConvergence` | Container, runtime row, cleanup tasks and route of one workspace, under jobs, accesses, reconcile, the cleanup drain and the route admin |
| `ExecutionNodes` | `execution_node` rows and their EC2 instances under concurrent database sessions |
| `Fleet` | Placement of workspaces on nodes, and the autoscaler that adds and removes nodes |
| `Admission` | The quotas of one owner against concurrent requests and jobs |
| `WorkspaceSessions` | Attach, access, gateway authorisation and the session counter |
| `Snapshots` | Snapshot rows, archives, jobs and the swap of directories in a restore |
| `RepoImport` | Repository rows, import jobs and the directories cloned into |
| `EventStream` | Event ids, commits, the bus and a client's stream |
| `Accounts` | One account: login, OAuth, refresh and reset tokens, password changes, deletion |
| `Notifications` | One notification: creation, channels, retries, the user's marks |
| `MCWorkspaceIntents`, `MCTopology` | Instances for TLC |
| `MCRuntime`, `MCAccess`, `MCUserData`, `MCConvergence` | Instances for TLC of components that share no state |

`WorkspaceJobs` and `Topology` meet at two places. `Topology` takes from
`WorkspaceJobs` that a workspace has one job at a time, and its `Request`, `Crash`
and `RetryOrError` are the job of `WorkspaceJobs` seen from inside its execution.
`WorkspaceJobs` takes from the topology adapter that it commits (`Publish`) and
rolls back (`LoseClaim`) the worker's session. `RuntimeConvergence` opens the same
job a third time, for what it does to the container and its records; there the
attachment of `Topology` is a Boolean, and the reconcile that `WorkspaceJobs` has
as an outcome is spelt out. `Fleet` and `ExecutionNodes` share the node row:
`ExecutionNodes` has every writer of one row, column by column, `Fleet` the
decisions over several nodes, for which a row is its status. `Admission` has the
statuses of `WorkspaceStatus`.

An MC module with several components puts them side by side: its variable `part`
says which of them a behaviour is about, only that one takes steps, and the state
space is the sum and not the product. Nothing is lost by it, since these
components do not write each other's variables.

### WorkspaceJobs and the code

| Variable | In the code |
|---|---|
| `ws` | committed `Workspace.status`; `"ABSENT"` before the row exists |
| `jobs` | committed `workspace_job` rows. `delayed`: `next_attempt_after` lies ahead; `expired`: the capacity window that starts at `created_at` is over |
| `req` | an API request between its check and its commit |
| `tx` | the ORM session of a worker or of the reclaimer: the row it holds, the status it has loaded (`seen`) and set (`cur`), its copy of `attempt` |
| `faults` | number of crashes, exceptions and conflicts so far (a bound only) |

The phase of a session says what others can see of a claim. `claimed` and
`placed`: flushed, row locked, still QUEUED for everybody else. `published`: the
adapter has committed, the row is RUNNING and no longer locked. `lost`: the
adapter has rolled back while the worker goes on; its ORM objects are expired and
reloaded on use. SQLAlchemy writes a column only if the session changed it, which
is why `CommitSession` compares the new status with `seen`.

Every action is one transaction or one step between two of them; its name is that
of the function or of its outcome, and `PROJECT.json` gives the lines. Finalisers
are inside the outcome actions (`JobSucceeds`, `RetryableFailure`, `FatalFailure`,
`ReconcileFails`, ...), as in the code, where job and workspace are committed
together. Quota, policy and node selection are reduced to their outcome
(`IntentRefused`; `Place`, `WaitForNode`, `PlacementFails`). The attempt counter stops
at `MaxAttempts` (`Bump`): the code counts on, but only ever compares it with the
maximum.

Snapshots, imports and reconciles are jobs beside the operations: they are queued
without making the workspace busy, and one that is given up in placement or binding
sets the workspace to ERROR whatever it is doing (`PlacementFails`). The failure
paths of an import raise, so its claim is rolled back (`ImportRaises`). `WorkspaceIntents` adds
one history variable, `crossed`: the workspaces whose operation was written over,
either by such a job or by a request that committed on a status that no longer held,
until nothing is pending for them. `WorkspaceLifecycle` has the same two steps
(`AcceptStale`, `FailOver`), so what the refinement shows is that there is no third.

Where the model allows more than the code: a job claimed by id also takes the
shortcut for a DELETE without runtime row, and a reconcile that fails on a busy
workspace may do so with or without a retry (the second when the advisory lock is
contended). `LoseClaim` stands for the rollback in `ensure_node_topology`; the one
in `allocate_workspace_ip` has the same effect when nothing was committed before.

### Topology and the code

| Variable | In the code |
|---|---|
| `rt` | `TopologyRuntime.status` |
| `lease` | active `ip_allocation` row of a workspace |
| `att` | `topology_attachment` row: status and address |
| `veth`, `up` | the host: address wired into the container, container running |
| `status` | `Workspace.status`, transitional ones as `"BUSY"` |
| `job` | where the orchestrator is in the workspace's job, with its local variables |
| `jan` | a janitor run: its pass, the rows it read, the row it is at |

Each commit of the adapter and each change of the host is one action, so that
other jobs and the janitor interleave everywhere they can. The unique index on
active leases is the test in `LeaseAddress`; picking and leasing are two actions
because the code picks from an unlocked read. Stop, rollback and delete share the
sequence detach, halt, release/sweep and go on after a failed step, as the code
does. Removing a container's network namespace removes its veth.

`AddressPool` is what all of this is for, in terms of two variables only: the address
a workspace holds (`lease`) and the one it answers on (`veth`). An address is taken
while free, plugged in by its holder, and given back by a workspace that is off the
bridge by then.

Simplifications: one node and one CIDR; remote nodes, for which
`_remote_topology_attach_deferred` skips the topology, are not included; UPDATE
jobs are not (they are a stop and a bring-up); the check of `delete_topology` and
its read of the rows are one step; a FAILED row counts as old at once, an
ATTACHING row as soon as its job no longer works on it; a row deleted and created
again under a new key is not told apart from the old one. Reconcile's own stop of
an ERROR workspace is in `RuntimeConvergence`. A janitor run is a reconcile job that
was placed on this node, of whichever workspace (`JanitorStarts`), and dies with its
worker at any point (`JanitorDies`).

### RuntimeConvergence and the code

| Variable | In the code |
|---|---|
| `remote` | the node is remote, so topology attachment is deferred |
| `wsStatus`, `endpoint` | `Workspace.status`, `endpoint_ref` |
| `box`, `attached` | the container the engine has (with its published port), its topology attachment |
| `rt` | `WorkspaceRuntime`; `complete`: `node_id` and `topology_id` are set, which strict placement asks for |
| `debts` | `WorkspaceCleanupTask` by scope |
| `intent`, `rec`, `drain` | the lifecycle job, the reconcile job and the cleanup drain with what each has read |
| `opening` | an access or attach between its read of the endpoint and its route repair |
| `listed`, `served` | the route admin's map in memory, and the file the proxy reads |

The job's steps are those of the orchestrator (`EnsureContainer`, `AttachAndProbe`,
`RollBack`, `StopRuntime`, `DeleteRuntime`) and of the finalisers, which commit row
and status together. A worker that dies leaves its container and its job; the job
is taken again. Reconcile reads the row once (`ReconcileLoads`) and works with this
copy. Route calls may be lost, and may fail after they took effect; the table of the
route admin may change without the file. A stop may come back incomplete with the
container stopped, when the topology refused the detach or the release. Image, mounts,
environment and the timing of probes are left out: a probe may find what is there.

### ExecutionNodes and Fleet and the code

`ExecutionNodes`: `row` is the committed row (`sched`: `schedulable`, `pid`: whether
`provider_instance_id` names the instance that is followed, `stub`: the mark of a
catalog stub in `metadata_json`, `low`: the monitor's mark), `ssm` its execution
mode, `inst` the instance, `lock` who has flushed and not committed, `ses` the sessions: what each loaded (`seen`) and what it has
flushed (`mine`). A flush writes only the changed columns, over what the row has
become since; `metadata_json` is one column, which every call that merges a key into
it writes whole from its copy (`MetadataOps`). The heartbeat lies in that column too,
where reports and stale copies alternate, so it is not followed: the gate may find it
good or bad at any time. A catalog stub names another instance and mode and keeps the
status if none is given. The operations are those of the internal API, the autoscaler's
scale-in, the resource monitor, the worker's marking of a node that is not ready and
the reconcile of vanished instances.

`Fleet`: `nst` is the status of each node, `wsp` the status of a workspace and the
node of its runtime row, `act` what a worker or a scaler has decided and not yet
written, `signals` the placement failures in the audit log's window, `young` and
`cooling` the two cooldowns. A row left TERMINATING or ERROR is found gone later
(`NodeFoundGone`). `late` and `back` are history. Scoring is left open:
any node that fits may be chosen.

### The other components and the code

* `Admission`: `status`, `queued` jobs, `reserved` CPU, and `asked`, the requests
  whose checks have passed and that have not committed. A job shows CREATING once
  placed, PENDING while it waits, and a side job that is given up shows ERROR;
  `returned` remembers which workspaces a job, and no request, brought into a count.
* `WorkspaceSessions`: `sess` and `expired` are the rows, `count` is
  `active_sessions_count`; `attach` and `access` are transactions that have read and
  not committed; `job` is what the worker's session holds. The end of a job is three
  steps, since its session does not flush by itself: it reads the rows to revoke and
  recounts (`JobRevokes`), calls the gateway, and flushes and commits. `run`, `born`,
  `slipped` and `raced` are history.
* `Snapshots`: `snap` rows, `blob` archives, `sjob` jobs with the place of their
  worker, `calls` API calls between check and write, `tree` the directories on the
  host as far as whole copies of the user's files go. The layouts with and without
  `project/` are both in.
* `RepoImport`: `repo` and `where` are the rows, `rjob` the jobs, `disk` whose files
  a directory holds, `mounted` which of them lie under the one mount of the
  container. A clone runs in one transaction with its claim, so a death or
  an exception undoes the claim; git may go on in the container without its worker.
  A new container (`ContainerReplaced`) starts without what lay outside the mount.
* `EventStream`: ids are given at flush (`flushed`), rows are seen at commit
  (`rows`); `bell` is the event of the bus, `stream`, `cursor` and `page` are the
  generator's, `shown` is the client's. A page is described by what `ORDER BY id`
  and `LIMIT` promise, not computed by sorting.
* `Accounts`: `user`, `password`, `linked`, `token` and `reset` are the rows of one
  account, `call` a request between its reads and its commit. Passwords are
  numbers; hashing, signing and the OAuth protocol are left out. The profile and
  settings rows go with the account and are not told apart from it. Refusal to
  delete the owner of a workspace is a call that ends without effect (`CallDies`).
* `Notifications`: `notice`, `recipient` and `delivery` are the three tables for one
  recipient, `sender` a session that delivers, `sent` what the channels have taken,
  `unheard` the channels that took a message and reported an error.

## 3. Runs

Every bound is a constant of the module. Passing runs:

| Run | Instance | Shows | States |
|---|---|---|---|
| `jobs_queue` | 1 workspace, 2 requests at a time, 2 workers, reclaimer, CREATE, STOP, DELETE, reconciles and imports, 3 rows, 2 attempts, 1 crash | `BusyHasJob`, `NoDoubleExecution`, `FinishedJobsStay`, `RetriesDescend`; `IntentsAreExclusive`, `DeletedIsLeftByDelete`, refinement of `WorkspaceLifecycle` | 703,618 |
| `jobs_liveness` | 2 requests at a time, 1 worker, reclaimer, reconciles and snapshots, crash or lost claim | `QueueInv`, `BusyEventuallySettles`, refinement of `WorkspaceLifecycle` with fairness | 413,879 |
| `topology_addresses` | 2 workspaces, 2 addresses, all job kinds, no janitor | `AddressesApart`, refinement of `AddressPool` | 805,841 |
| `topology_running` | 2 workspaces, failing cleanups, no delete | `RunningOnItsAddress`, `RunningApart` | 3,496,619 |
| `topology_janitor` | 1 workspace, 1 address, janitor, all kinds, failing cleanups | `JobDescends`, `JobEnds`; if janitor runs keep coming, `AbandonedAddressReturns`, `StuckAttachmentEnds` | 56,957 |
| `runtime` | 1 node and 2 sessions; 4 nodes, 1 workspace, 2 workers, 1 scaler; 1 workspace, 2 containers, remote | `GateNotBypassed`, `TerminatedMeansGone`; `OvershootBounded`, `PinnedNodeKept`; `RemotePlacementKept` | 938,727 |
| `access` | 3 workspaces, 2 requests; 3 tokens, 2 attaches; 1 node, 3 workspaces, 2 workers | `OwnedWithinLimit`, `AdmittedWithinLimit`; `OldSessionsRefused`, `CountBracketed`; `SlotOvershootBounded` | 748,094 |
| `user_data` | 2 snapshots, 2 jobs, 2 faults; 3 repositories, 2 directories; 2 calls, 2 refresh and 2 reset tokens; 3 channels, 2 retries | `AvailableHasArchive`, `FilesSurvive`; `ClonedHasFiles`, `PendingHasJob`; `CredentialsRetired`; `NotifiedOnce` | 2,853,989 |
| `convergence` | 1 workspace, 2 ports, 1 container id; 2 writers, 4 events | `RouteConverges`, `ErrorCleaned`; `ShownInOrder`, `EventDelivered` | 48,300 |

Why the bounds suffice for the questions asked. One workspace is enough for the
queue, since rows of different workspaces share nothing but the order of claims;
three rows give a finished, a running and a waiting job at once; two attempts give
a retry and an exhausted job; two workers and a reclaimer give every pair of
processes that can meet on a row; one crash gives every state a dead worker can
leave, since the next worker starts from the database alone. START, RESTART and
UPDATE differ from the operations in the instances by rows of the tables of
`WorkspaceStatus` only; the theorems have all of them. In `runtime` a node that an operator
deregistered or made a catalog stub of is not followed further (`Watched`): both
properties of its row say nothing of such a node, which stays one. For the topology two
workspaces are the two parties of an address conflict, two addresses the case
where the loser finds another one (one address, where it does not, is in the
janitor run), and one allocation retry separates the first pick from later ones.
The theorems remove the bounds for the safety properties they cover. In the other
runs two sessions, requests or calls are the two parties of every lost update, and
limits of one or two put every counter at and above its limit; the fleet has more
nodes than it may have, so that the overshoot can happen; a second container id and
a second port are what a stale read can confuse; two faults are a death and a death
of the retry; four events in pages of two need a second page.

Fairness. `jobs_*`: the worker loop polls forever and swallows errors
(`lifespan_worker._run_one_tick`), so a worker keeps claiming and ends what it has
claimed; every tick starts with the reclaimer, so that keeps running; timers
elapse. Nothing is assumed of requests, and crashes and conflicts are never
forced; they are finitely many. (Without that bound one worker can lose its claim
for ever: a rolled back claim does not count as an attempt.) The reclaimer runs
only if `workspace_job_stuck_timeout_seconds` is positive; with 0 a crash after
`Publish` leaves the workspace busy for good. Imports are not in the instance: a
failing one is rolled back with its claim, stays the oldest eligible job and ends
every tick, so younger jobs may wait for ever (a consequence of the finding of
`import_failure`). `topology_janitor`: a claimed job takes its next step, a janitor
run that has begun goes on unless its worker dies, and a cleanup of the janitor that
is tried again and again succeeds once (strong fairness of its success, not of every
try). No fairness makes a janitor begin: it runs only inside a reconcile job that was
placed (`reconcile_runtime.py:271`), and the loop that enqueues those is opt-in and
takes only RUNNING and ERROR workspaces, so after the last workspace of a node is
deleted nobody may come. `AbandonedAddressReturns` and `StuckAttachmentEnds` say so in
their premise, `JanitorsKeepComing`. `convergence`: the reconcile loop, which is
opt-in and takes an unordered `LIMIT` of the workspaces (`lifespan_reconcile.py:60`),
is taken to be on and to come to this workspace again and again; it keeps enqueuing, a worker takes the job, and each step of reconcile that is tried again
and again comes to an end, with whatever outcome; of the stop of an ERROR
workspace's container alone it is asked that it does not fail for ever. Route calls
may always fail: reconcile then takes the workspace out of RUNNING. Nothing is asked
of users, accesses, the drain, the route
admin's restarts or containers that exit. The stream's generator is a loop with a
poll interval, so it is served.

Runs that TLC must refute, each stating what the repository says of the program:

| Run | Violated | What happens |
|---|---|---|
| `stopped_can_start` | `StoppedCanStart` | On a local node STOP clears the topology of the runtime row, and strict placement refuses the next START; `src/docs/TESTING.md:253` promises stop and start with the same placement |
| `import_failure` | `FailureRecorded` | Each failure path of a repository import names a failure stage that does not exist and raises, so the row stays pending and the job is taken again at every tick |
| `slots_kept` | `SlotsKept` | Two CREATEs are placed on the last slot of a node: what `select_node_for_workspace` counts is written when a bring-up has succeeded, and the lock it takes is released by the adapter's commits before; the docstring (`node_placement.py:166`) says "CREATE cannot overbook" |

Four more statements of the repository are written down as properties of their
modules and refuted by TLC when they are added to a configuration:

| Property | Add to | What happens |
|---|---|---|
| `AllRevoked` (`WorkspaceSessions`) | `Access.cfg` | `workspace_session_service.py:236` says "Mark all ACTIVE sessions REVOKED". The worker's session has `autoflush=False`: between its query (`worker.py:1317`) and its flush (`worker.py:1324`) lies an HTTP call, and an attach that commits in between stays ACTIVE after the restart |
| `CountsActiveRows` (`WorkspaceSessions`) | `Access.cfg` | `workspace_session_service.py:65` says the counter is set "from non-expired ACTIVE session rows". The recount does not see the revocations made in the same session, which are not flushed, and keeps counting them |
| `RunningWithinLimit` (`Admission`) | `Access.cfg`, with one requester | `src/docs/DEPLOYMENT.md:31` says CREATE enforces `max_running_workspaces`. CREATING is not in `_RUNNING_WS_STATUSES`, so CREATEs one after the other all pass and all end RUNNING |
| `RouteServed` (`RuntimeConvergence`) | `Convergence.cfg` | `reconcile_service/README.md:40` says a wrong route is registered again. `register_route` changes the table before it writes `routes.yml`; when the write fails, reconcile compares the table and sees nothing to repair |

### What the code does that the properties leave out

Each of these is reachable in a module above; the instance or the statement that
leaves it out is named, and giving the constant the other value makes TLC show it.

* `MayOverrun = TRUE`: the reclaimer requeues the row of a worker that is slow and
  not dead; refutes `NoDoubleExecution`. `MayConflict = TRUE` with two workers: the
  adapter's rollback undoes a claim whose job goes on, and the other worker takes it;
  refutes `NoDoubleExecution`, against the docstring of `worker.py` (line 12: "the same
  job is never executed twice unless an operator resets a stuck RUNNING row"), and
  `FinishedJobsStay`, and after three such conflicts `BusyHasJob`. With one worker, the in-process loop of "simple single-process
  deployments" (`src/docs/ARCHITECTURE.md:152`), the conflict is harmless: the worker
  that goes on is the only one that could take the row again. `jobs_liveness` checks
  that and the theorems prove it.
* A reconcile, snapshot or import that is given up after a lifecycle request was
  accepted moves the busy workspace to ERROR, and one that is given up after a DELETE
  takes the workspace out of DELETED (`GivenUp`). Two concurrent lifecycle requests
  both pass the status check and leave two pending jobs (`StaleRequest`).
  `IntentsAreExclusive` and the refinement except a workspace from such a step until
  nothing is pending for it, `DeletedIsLeftByDelete` names both; `BusyHasJob` and
  `BusyEventuallySettles` except nothing, so that no workspace is lost. Two reconcile
  requests can both pass the check for a pending one.
* A janitor in `topology_addresses`: its orphan pass releases the lease of a
  workspace being attached, and the address is wired again; refutes
  `AddressesApart`. DELETE in `topology_running`: `delete_topology` deletes the row
  of a workspace that has started since its check; refutes `RunningOnItsAddress`, as
  does the janitor's drift pass.
* `CleanupMayFail = TRUE` in `topology_addresses`: a failed removal of a veth is
  ignored, the lease is released, and the address may be wired a second time.
* A wait for capacity consumes attempts, although `failure_handling.py` (204-209)
  says that capacity retries intentionally do not use `max_attempts`: the claim
  increments the counter before placement.
* DELETE ends in SUCCEEDED and DELETED although the container could not be deleted
  (`DeleteRuntime`, `FinalizeDelete`); nothing remembers the container.
* The rollback of a container made under a new id is recorded with the id of the
  row; the cleanup then succeeds on a container that is not there (`RollBack`,
  `CleanUp`). A task that has succeeded once is not reopened.
* An access that straddles a STOP or a DELETE registers a route after the job
  removed it; the loop does not look at such workspaces, so it stays.
* A stale write of the resource monitor, of `undrain` or of a worker's marking
  brings a node back from DRAINING or TERMINATING; the gate still holds, but `undrain`
  is a way past it that `GateNotBypassed` names. A stale writer also erases the mark
  of a catalog stub and the heartbeat, which share a column. A stub written over a
  TERMINATED row may name a running instance; `TerminatedMeansGone` excepts stubs.
* The scale-in that dies between drain and termination leaves a DRAINING node that
  nothing resumes, and that still counts as active. A floor is not stated at all:
  a scale-in counts nodes that are on their way out, and once these are found gone
  the fleet is below `min_nodes`.
* `PinnedNodeKept` excepts a pin written after the drain (`late`), and a START that
  goes back to its node without asking whether that is DRAINING, full or gone; the
  latter is excepted from `SlotOvershootBounded` as well (`back`).
* The autoscaler's loop and an admin's reclaim take no common lock
  (`autoscaler_service/service.py:1578`). Two scale-ins of one node refute
  `PinnedNodeKept`: one finds a workspace and undoes the drain, a second workspace is
  placed, and the other, whose count is older, terminates the node. The run and the
  theorem have one scaler.
* A restore does not ask again whether the workspace is STOPPED; and three faults in
  a row, or two restores at once with one, can lose the files.
* A delete call removes the archive before its row, which may stay AVAILABLE
  (`unlinked`).
* The default `clone_dir`, `/workspace/project` (`integration_service/api/schemas.py:62`),
  lies outside the only mount, `/home/coder/project`: a new container has no clone, and
  its row stays "cloned" (`swept`).
* A job brings a workspace into a quota's count without a check: UPDATE is not checked
  and UPDATING not counted, CREATING ends RUNNING, a failed DELETE ends in ERROR
  (`returned`).
* The session counter loses updates when transactions overlap (`raced`).
* An event committed after a higher id was fetched is never shown (`overtaken`).
* A login that overlaps a password change keeps its refresh token (`past.late`); two
  overlapping reset requests leave two open tokens (`past.twins`).
* Two retries of one delivery at once send it twice (`doubled`), and so does the retry
  of a mail that the server took before the connection broke (`unheard`); READ or DISMISSED
  can be overwritten with DELIVERED; a retry does not refresh the status of the
  notification.

## 4. Proofs

Every theorem holds for all values of the constants that the `ASSUME` of the module
allows (`JobsAssumption`, `TopologyAssumption`, `ConvergenceAssumption`,
`EventStreamAssumption`, `NodesAssumption`, `FleetAssumption`, `AdmissionAssumption`,
`WorkspaceSessionsAssumption`, `RepoImportAssumption`, `SnapshotsAssumption`,
`AccountsAssumption`, `NotificationsAssumption`). These say that bounds are natural
numbers, that the sets that are counted are finite, that a null value is not a member
of the set it is null for, and, for `Fleet`, that there is a worker: with no process at
all and a `max_nodes` of 0, "at most the other launches" would be minus one.

| Theorem | Statement | Provisos |
|---|---|---|
| `Typing` | `Spec => []TypeOK` (WorkspaceJobs) | none |
| `QueueSafety` | `Spec => [](TypeInv /\ QueueInv)` | `Undisputed` |
| `BusyHasJobAlways` | `Spec => []BusyHasJob` | same |
| `NoDoubleExecutionAlways` | `Spec => []NoDoubleExecution` | same |
| `FinishedJobsStayAlways`, `RetriesDescendAlways` | `Spec => FinishedJobsStay`, `RetriesDescend` | same |
| `IntentsAreExclusiveAlways` | `IntentSpec => []IntentsAreExclusive` | same |
| `ImplementsLifecycleAlways` | `IntentSpec => ImplementsLifecycle` | same |
| `DeletedIsLeftByDeleteAlways` | `IntentSpec => DeletedIsLeftByDelete` | same |
| `TopologyTyping` | `Spec => []TypeOK` (Topology) | none |
| `LeasesApartAlways` | `Spec => []LeasesApart` | none |
| `AddressInvAlways`, `AddressesApartAlways` | `Spec => []AddressInv`, `[]AddressesApart` | no janitor, cleanups succeed |
| `ImplementsAddressPoolAlways` | `Spec => ImplementsAddressPool` | same |
| `RunningOnItsAddressAlways` | `Spec => []RunningOnItsAddress` | no janitor, no DELETE |
| `RunningApartAlways` | `Spec => []RunningApart` | no janitor |
| `JobDescendsAlways` | `Spec => JobDescends` | none |
| `ConvTypingAlways`, `RemotePlacementKeptAlways` | `ConvSpec => []ConvTypeOK`, `[]RemotePlacementKept` | none |
| `ShownInOrderAlways` | `EventSpec => []ShownInOrder` | none |
| `NodesTypingAlways`, `TerminatedMeansGoneAlways`, `GateNotBypassedAlways` | `NodesSpec => []NodesTypeOK`, `[]TerminatedMeansGone`, `[]GateNotBypassed` | none |
| `FleetTypingAlways`, `OvershootBoundedAlways`, `SlotOvershootBoundedAlways` | `FleetSpec => []FleetTypeOK`, `[]OvershootBounded`, `[]SlotOvershootBounded` | none |
| `PinnedNodeKeptAlways` | `FleetSpec => []PinnedNodeKept` | `OneScaler` |
| `AdmTypingAlways`, `OwnedWithinLimitAlways`, `AdmittedWithinLimitAlways` | `AdmSpec => []AdmTypeOK`, `[]OwnedWithinLimit`, `[]AdmittedWithinLimit` | none |
| `SessTypingAlways`, `OldSessionsRefusedAlways`, `CountBracketedAlways` | `SessSpec => []SessTypeOK`, `[]OldSessionsRefused`, `[]CountBracketed` | none |
| `RepoTypingAlways`, `ClonedHasFilesAlways`, `PendingHasJobAlways` | `RepoSpec => []RepoTypeOK`, `[]ClonedHasFiles`, `[]PendingHasJob` | none |
| `SnapTypingAlways`, `AvailableHasArchiveAlways`, `FilesSurviveAlways` | `SnapSpec => []SnapTypeOK`, `[]AvailableHasArchive`, `[]FilesSurvive` | none |
| `AcctTypingAlways`, `CredentialsRetiredAlways` | `AcctSpec => []AcctTypeOK`, `[]CredentialsRetired` | none |
| `NoteTypingAlways`, `NotifiedOnceAlways` | `NoteSpec => []NoteTypeOK`, `[]NotifiedOnce` | none |

`Undisputed` says that no row of a live worker is reclaimed (`~MayOverrun`) and that
claims are rolled back only where there is a single worker. The provisos are not
conveniences: section 3 lists what happens without each of them. Where a statement
has an exception in it (`crossed`, `returned`, `slipped`, `raced`, `swept`, `late`,
`back`, `doubled`, `unheard`, ...), section 3 says which behaviour of the code it is.

*Queue.* `BusyHasJob` is not inductive: a worker that has read a stale settled
status would, on success, believe that nothing has changed and finish the job
without writing the workspace. `QueueInv` strengthens it. `OneHolder`: a row is in
at most one session. `HeldRowMatches`: a held row has the committed status its
session's phase implies, so that a claim cannot race a reclaim; a claim that was rolled
back is QUEUED for everybody, which is safe if its worker is the only one. `SessionStatus`: a
session differs from what it loaded only by CREATE's own step to CREATING.
`BusyIsGuarded`: the job of a busy workspace, if held, is held by a session that
has seen a busy status. Typing itself needs `HeldExists`: a held row has been
inserted. The proof has one lemma per shape of step (`OpenQueue`, `CommitQueue`,
`FrameQueue`, `IntentQueue`, `PlaceQueue`, `PublishQueue`, `LoseQueue`), and every outcome is
first shown to be a commit of an allowed pair of statuses (`OutcomeEnds`,
`ReclaimEnds`).

*Retries.* `RetriesDescend` is a variant function: `RunsLeft` counts the commits that the
attempts of a row still allow, and every commit that changes the row finishes it or
makes that smaller. It needs `SessionAttempt`: a session counts from the attempt of the
row as it stands, so that no late commit sets the counter back. A claim undone by a
conflict is no commit and costs no attempt, and a job that waits for capacity is
outside until its window is over. That the commits come, the other half of
`BusyEventuallySettles`, is fairness and stays with TLC.

*Lifecycle refinement.* The abstract operation of a workspace is the type of its
pending job, so the mapping is a function of the state only if there is one such job:
`OnePending` and `PendingBusy` of `ExclusiveInv`, for workspaces that are not crossed.
`SeenFresh` adds that what the session of an operation has loaded is still so; hence
its commit writes its new status and no column is left out as unchanged.
`CrossedPending`: a crossed workspace has an operation pending. `Present`, proved before,
keeps a side job from being given up over a workspace without a row. Every step is then
shown to be of one of a few kinds as the owners see it (`StepHasKind`): it changes
nothing they see, it ends or moves an operation, it ends a side job, or it inserts a
request. Exclusion and refinement are proved once per kind; the kinds map to `Proceed`,
`Complete`, `Fail`, to `FailAtRest` or `FailOver`, to `Accept` or `AcceptStale`, and
those of a crossed workspace to `Drift`. `DeletedIsLeftByDelete` is read off the kinds.

*Topology.* `AddressesApart` follows from two facts about leases: they are distinct
(`LeasesApart`, by the unique index), and every wired address is leased by its own
workspace (`WiredOnLease`). The second needs to know where a job stands: it holds the
lease it is about to wire (`JobOnLease`), releases only what is off the bridge
(`ReleasedUnwired`), and picks only if it has no lease (`PickedUnleased`).
`AddressInv` is the conjunction. The proof treats one workspace at a time, since a job
changes only its own lease, or releases, or unwires. `RunningOnItsAddress` needs less
and allows failing cleanups: a job keeps its workspace BUSY, and what the probe found
still holds when the job finishes (`Runs`). `RunningApart` allows deletes as well,
which may take row and bridge away from a RUNNING workspace: what is left then is that
its veth, if it has one, carries its lease (`Serves`), and leases are distinct. Where
cleanups succeed, `AddressInv` gives each step its place in `AddressPool`:
`PickedUnleased` makes the lease a `Take`, `JobOnLease` the wiring a `Plug`,
`ReleasedUnwired` the release a `GiveBack`; the rest are `Unplug` or stutters.
`JobDescends` orders a job's states by the attempts left and then by `StepsLeft`, in
which a conflict over an address, a rollback round and a retry each use up what bounds
them. It holds without provisos and is the variant function behind `JobEnds`.

*Placement row.* A remote workspace loses its placement in one way, a stop that finds
something to detach. `RemoteInv` says that there is never anything to detach and that
a STOP under way has a complete row; it rests on `ConvInv`, where whoever works on a
container has been given its id.

*Stream.* `ShownInOrder` speaks of what was sent, while what goes wrong is fetched
first. `PageAhead`: the generator's cursor is the client's, and the page lies above
it. `PageWhole`: between cursor and end of the page no row is missing, except those
committed since the fetch. Sending the head then keeps both parts.

*Nodes.* A stale session writes what it loaded long ago, so the invariants speak of
three copies of a row: the committed one, what a session has seen, what it has
flushed. `LockInv` ties a flush to the row lock; `PidInv` says that a row nobody made a
stub of names its own instance, in all copies; `GoneInv` and `GateInv` state
`TerminatedMeansGone` and `GateNotBypassed` for all copies.

*Fleet.* Counting. `CapInv`: each launch under way has a place beside the nodes there
are, and so has a node that a second scale-in may still write to. `SlotInv`: a slot is held
from the decision on, not from the write. `PinInv`: past its drain a node is not READY,
and past its recount only pins that were written late name it; `PinsKept` is about
TERMINATING, TERMINATED and ERROR together, because a row moves between them later. Every step is first
shown to have one of a few shapes (`Shape`), and the counting is done once per shape.

*Quota.* A request in flight counts like the workspace it will make or start
(`OwnHeld`, `RunHeld`); each was let in below the limit, so the overshoot is less
than the number of requests. What a job brings into a count is in `returned` until a
request is admitted for it again.

*Sessions.* `BornInv`: whatever comes up revokes every row it has read, which are all
but those that slipped in since, and these are read by the next job. `CountInv`: while
nothing has raced, each open transaction has loaded the counter as it still is, and
no live session is left out of its own count.

*Imports and snapshots.* `RowsHeld`: deletes wait for a worker that has locked its row.
`DoneHasFiles`: a clone that is not yet committed is there, or was swept.
`PendingHasJob` is a count: a job that ends takes one pending row with it, be it its own
or not. `JobRows` and `OneCreate`: the status of a row tells which job works for it, and
one job creates it. For the files (`SwapInv`), `Reserve` says that each fault costs one
of three places where a whole copy can be, and `OneSwapTree` what a swap half done has
left in each.

*Accounts.* What a call has read is compared with what is so: `LoginsFresh` (the
password in force, or the call has met a change), `ChangesSeeTokens` (a change misses
only tokens issued while it was in flight), `RequestsMet` (requests in flight together
know of each other).

*Notifications.* `RowsInOrder`, `OneSender`, `SenderKnows`, `RowsTell`: the rows appear in
the creator's order, a channel not retried twice at once has one sender, and where that
sender stands tells what was sent and what the row says.

Only model-checked: everything under fairness (`BusyEventuallySettles`,
`ImplementsFairLifecycle`, `JobEnds` and the other `~>` properties of
`topology_janitor`, `RouteConverges`, `ErrorCleaned`, `EventDelivered`), which is out
of TLAPS' reach. The type invariants of all components, and the inductive invariants
other than `QueueInv`, are the other way round: proved for every instance, they take
no time of the runs. That a page exists for every cursor (`Pages` is never empty) is induction over
data and is seen in the runs, where the stream makes progress.

## 5. Plan

1. Done: all components of the inventory except those listed below; proofs of all
   safety and action properties of the passing runs, of two refinements, and of the
   variant functions behind two liveness properties.
2. `NoDoubleExecution` with an overrun, up to the number of reclaims.
3. An abstract specification of `Fleet`, an atomic reservation, from which the
   detailed one differs by at most the placements in flight.

### Not modelled

* Usage and audit: append-only rows that no decision reads, except the placement
  failures, which are `signals` of `Fleet`.
* Rate limiting and routing helpers: counters per address in the memory of one
  process; names derived from other names.
* The scan for EC2 resources without a row (`ec2_cleanup.py`), which only removes
  what an instance launched without a row left behind; the launch without a row is
  a step of `ExecutionNodes` that ends there.
* The advisory lock of reconcile: its owner is a pooled connection, and which
  connection a session gets after a commit depends on the pool. `RuntimeConvergence`
  has one reconcile of a workspace at a time.
* The retries and timing inside a probe, images, mounts and environment of a
  container, the transport of SSM commands: pure I/O.
* Provider tokens, CI and terminal of the integrations: calls to external services.
* Profiles and settings: single rows written by one call.
* Frontend, migrations, configuration and observability: no state the properties
  depend on.

## 6. Use

    tlc -config JobsQueue.cfg MCWorkspaceIntents
    tlc -config TopologyAddresses.cfg MCTopology
    tlc -config Runtime.cfg MCRuntime
    tlc -config Access.cfg MCAccess
    tlc -config UserData.cfg MCUserData
    tlc -config Convergence.cfg MCConvergence
    tlapm WorkspaceJobsProofs.tla

and in the same way for the other modules whose name ends in `Proofs`.

Operators whose comment starts with "Mutant of" are deliberately wrong variants of
the definition that follows; substituting one must make TLC refute the property
that `PROJECT.json` pairs it with.
