# A TLA+ verification of arges

arges is an agent for one host. It keeps the wishes of its users in SQLite and makes the host
agree with them: containers through the docker daemon, routes through Caddy's admin API, images
through a local registry, packages through the package manager. Everything is asynchronous Rust
(tokio): API handlers and background tasks run side by side, share the database, a few `Notify`
permits and the outside world, and hold no lock across an await. What is hard to get right is
therefore almost always the same: one of them acts on something it has read before an await, and
by then somebody else has changed it, a call has failed half way, or the agent has died.

The modules take the code *between two awaits* as one step. Paths below are relative to the
root of the repository (`src/` and `migrations/` there).

## Inventory

| part | state it keeps | operations | interacts with | hard parts, and what makes it correct |
|---|---|---|---|---|
| **Deployment reconciler** `src/infra/deployments/reconciler.rs` | none of its own that survives; locals of `converge_all` (the listed rows) | `converge_one`, `deploy`, `sweep` | reads the deployment tables; docker; health; proxy; woken by the handlers' `Notify` and a 60 s ticker | acts on a snapshot; crash and failure between any two calls. *It settles on what was asked; "stopped" is complete; an upgrade keeps serving; own ports are free before a new container* |
| **Deployment API** `src/handler/deployments.rs` | none | create, update, delete, register, rollback, start, stop, request retention | deployment tables, registry (digest), the two `Notify` | write, then notify, as separate awaits. *No request is lost* |
| **Deployment tables** `src/db/queries/deployments.rs`, `migrations/00005_deployments.sql` | deployments, releases, env, ports | one statement or transaction each; `list` is several statements | everything above | torn reads, foreign keys that restrict. *Desired and active releases exist* |
| **Retention** `src/infra/deployments/retention.rs`, `src/infra/containers/registry.rs` | none; images in the registry | `prune_deployment`, garbage collection | release rows, registry, container of the registry | overlapping runs, stale pins, half-done prunes. *No retained release loses its image; what is stale goes in the end* |
| **Docker client** `src/infra/containers/docker.rs`, `spec.rs` | none; the daemon's containers | `ensure_running`, `stop_and_remove`, `list_by_label`, `inspect` | docker daemon | several daemon calls per operation |
| **Health checks** `src/infra/containers/health.rs` | none | `wait_healthy` | the container | deadline against a late answer |
| **Proxy** `src/infra/proxy`, `src/handler/proxy.rs`, `src/db/queries/proxy.rs` | proxy hosts, domains, configuration revisions; Caddy's live configuration | host CRUD, `apply` | Caddy; called by handlers, deploys, services, startup | overlapping applies, lost answers, crash between load and mark. *What is marked applied is what Caddy routes by* |
| **Services** `src/infra/containers/services.rs`, `src/handler/services.rs`, `bootstrap.rs` | one setting per service | enable, disable, converge, bootstrap | docker, proxy | setting and container written apart; overlapping requests; a replaced proxy forgets its routes. *After a converge that was alone a service is what its setting says* |
| **Packages** `src/infra/packages`, `src/handler/packages.rs` | desired state and status per package, transitions | install, remove, resync, reconcile | package manager | status left in the middle by a crash; two writers of the status. *The host becomes what was asked for, and the row says so* |
| **Parameters** `src/handler/parameters.rs`, `src/db/queries/parameters.rs`, `src/infra/parameters/secrets.rs` | versioned values, encrypted or not | put, get, delete | read by deploys and proxy | optimistic versions; delete and recreate. *No write over another's; what is stored opens* |
| **Metrics** `src/infra/metrics`, `src/db/queries/metrics.rs` | samples; the collector's last counters | sample, prune, series | docker stats, deployments | counters that restart; deployments deleted during a sample. *No traffic that was not; sampling and pruning recover; a window that overflows nothing can be drawn* |
| **Agent log** `src/logging` | ring buffer, broadcast channel | push, recent, subscribe | every task; log streams | gap between backlog and stream. *What a client misses untold was logged in the gap; no thread goes back* |
| **Startup** `src/main.rs` | lock file, socket | start in order, bind, remove | everything; started again by systemd after a failure only | two instances, somebody else at the path; what is re-established after a crash. *One agent serves, and none takes another's socket* |
| Audit, configuration, router, host information | — | — | — | no decisions rest on them |

`PROJECT.json` lists the components with their status and, under `hazards`, every place of this
code that a test would hardly reach, with the property that covers it or the reason why none does.

## The modules

### Deployments

`Deployments.tla` is the deployment subsystem: rows, releases, the containers of the host, the
API calls in flight, and the one reconciler task.

| in the module | in the code |
|---|---|
| `row[d]` | the row of a deployment with its env and its host ports: `None` before it is created, `Deleted` afterwards (ids are uuids) |
| `releases[d][r]` | whether release `r` of `d` has a row. A release stands for its tag |
| `containers[c]` | what the docker daemon knows under a name: label, env, ports, state |
| `permit`, `calls` | the `Notify`, and handlers that are between two of their own awaits |
| `pc`, `snap`, `left`, `cur`, `purpose`, `todo` | the await the task is at and the locals that survive it: the listed rows (kept until the round is over, so that properties can tell what it goes by), those not reached, the one in hand, who called `sweep`, what it has still to remove |
| `create` … `notify_one` | the handlers. Those with two writes, or a write and a notification, leave a `Call` |
| `Tick`, `notified`, `List`, `AttachEnv`, `AttachPorts`, `Pick`, `RoundDone` | `init`'s loop, `list()` with its later statements, the loop of `converge_all` |
| `MarkPending`, `Inspect`, `MarkDeploying`, `Ensure`, `ensure_host_ports_free`, `create_and_start`, `wait_healthy`, `point_proxy_at`, `set_active_release`, `MarkRunning`, `MarkSettled`, `ClearActive`, `MarkStopped` | `converge_one` and `deploy`, await by await, with what each can fail on |
| `list_by_label`, `SweepOne`, `SweepDone` | `sweep`; `purpose` says what comes after it |
| `RecordFailure` | the error path of `converge_all` |
| `CallFails`, `RemoveFails`, `Crash`, `Exit`, `Restart`, `ComeUp`, `delete_release` | collaborators that fail, the end of the agent, the docker daemon, images, retention |

Data is reduced to what the properties tell apart: a container comes up and passes its check
(`Sound`) or never does; env is a set of entries; a container's port is fixed;
binds are left out. An id has at most one life and a tag at most one row, as uuids and the unique
index allow. The transition of Caddy from the old to the new container is not in this module.

Properties:

* `StoppedMeansGone`: a row says `stopped` only when no container of the deployment exists.
* `OwnPortsFree`: when a deploy with host ports comes to create its container, none of its own
  old containers is left. (That *another* container holds them can still happen; the code then
  fails the deploy and tries again.)
* `OthersUntouched`: converging a deployment takes down nothing of another one that exists and
  bears the name of the container, however names were changed, given up and taken over since the
  list. (A container left under a name its deployment no longer has may be replaced by whoever
  takes the name over.) Two ways to lose one remain in the code, and are excepted: the other was
  renamed, during the round, to the very name the one in hand was listed under; or the two names
  give one container (`Ambiguous`), as "a" with tag "b-c" and "a-b" with tag "c" do
  (`reconciler.rs:31`).
* `KeepsServing`: the container of the active release is taken down only by the deployment's own
  stop, by a hand-over of host ports, or to be made anew when the same release is deployed again;
  unless the deployment was renamed during the round (`Renamed`) or its container has two names.
* `ActivatesHealthy`: only a release that passes its check becomes active, and it then has its
  container.
* `Converges`: with the ticker, when users and faults leave it alone, every deployment settles:
  stopped and gone, pending without a release, or running exactly what was asked; unless what was
  asked cannot be (a container that never passes, a host port somebody else publishes). One that
  can never settle does not keep the others from it.
* `NotifySuffices`: the same without the ticker, as long as nothing has failed.

### Lifecycle, which Deployments implements

`Lifecycle.tla` is the abstract specification: what anybody sees of a deployment who looks at its
row (`phase`, `asked`, `active`), its releases (`registered`) and whether it has containers
(`occupied`), without snapshots, sweeps, names or awaits. A deployment's first container appears
(`Launch`) only while the row says `deploying`, or after it was deleted in the middle; a release is
made active (`Activate`) only under a row that says so, and only if it is still registered; a row
says `running` (`Settle`) only of a deployment with an active release; the active release is
forgotten (`Forget`) when nothing is left, `stopped` comes last (`Stop`); `pending` is said (`Wait`)
only of a deployment that has nothing; retention takes nothing that is queued or active (`Prune`).

* `ImplementsLifecycle`: the refinement, by the operators of the same names at the end of
  `Deployments`. A step of the task that acts on an old row, a deploy that finds its container
  up already, the replacement of a container that another deployment left under the name: each
  is at most one step of `Lifecycle`, at a moment when it may be taken.

It promises less than a reader may expect, on purpose. A deployment that is stopped may get
deployed again when the task has listed it before: the row then says `deploying` first, and that
is all that `Lifecycle` asks. And `deleted` is the end of the row, not of its containers.

### Retention

`Retention.tla` is `prune_deployment` for one deployment, by any number of overlapping runs, next
to registrations, rollbacks and deploys. Rows carry id, tag, digest and second, so that digests
can be shared and the order within a second is that of random ids, as in the code. The task's run
begins of its own accord, a requested one counts as an API call. The three
reads, the manifest deletion and the row deletion are separate steps; the foreign keys refuse a
pinned row.

* `PruneSparesRetained`: as long as the rows and pins are those a run has read, it deletes the
  image of no retained release.
* `PrunesAll`: in the end only retained releases have a row, whatever failed half way.
* `QueuedSurvives`: the release that is queued has its image. The code does **not** guarantee it
  (run `retention_queued`, below).

### ProxyApply

`ProxyApply.tla` is `apply()`, by any number of overlapping callers: read hosts, read what hangs
on them, compare with the last applied hash, record a revision, load it, mark it. A configuration
has two parts because it is read in two goes. After a crash `main` applies before the API is
served. `CaddyRestarts` models a container that comes back with the configuration of its image,
of which nothing in the repository says otherwise.

A handler may be dropped at any await, as axum does when its client disconnects (`Dropped`).
Three variables are history: `behind`, the appliers that have read a part of the rows which has
been written since; `stale`, whether the last load was of hosts read before they were written;
`overtaken`, whether it was of another revision than the newest.

* `NewestAppliedIsLive`: a newest revision that says `applied` is what Caddy routes by, or Caddy
  has been restarted, or an older revision was loaded after it (`overtaken`). No lock keeps
  applies from overtaking each other; everything else, overlapping applies, refused loads, lost
  answers, drops and crashes, is covered.
* `ChangesReachCaddy`: a crash between any two steps is healed by the apply at startup, also when
  applies overlap. Its premise names what the code does *not* make up for until the next change:
  a refused load or a lost answer, a handler dropped between its write and its load, a Caddy that
  restarts, a secret that is put, and a write while another apply is between its read and its mark
  (`behind`), which may load the older rows last.
* `PendingUntilLive`: if the status reports nothing pending, Caddy routes as the rows ask. The
  code does **not** guarantee it when two handlers overlap (run `proxy_pending`).

### Cutover

`Cutover.tla` extends `ProxyApply` with the end of a deploy, from its health check on: `fetch` the
host, `set_upstream_container`, an `apply` of one of the appliers, `set_active_release`. A deploy
whose apply fails ends, and may be begun again; a stop or a new deployment forgets the active
release. `target` is the container of the deploy and `using` the applier that runs its apply.

* `ActivatedIsRouted`: a deploy gets as far as activating its release, and so to sweeping the
  containers before it, only when Caddy routes to that release, whatever handlers apply or are
  dropped next to it and wherever crashes cut off the deploys before. `point_proxy_at` skips the apply when the upstream is written already, so
  this rests on the apply at startup. Loads that are refused, whose answer is lost or that a restarted
  Caddy has forgotten are excepted, because after them it does not hold: the retried deploy skips
  an apply that never succeeded, and a deploy that goes back to the release before is stopped by
  the hash of the last *applied* revision although a later one took effect. So is a handler that
  read the hosts before the deploy wrote them and loads after it (`stale`). Nor does it speak of a
  rollback to the release that is active already, which deploys nothing.

### Packages

`Packages.tla` is `seed`, the rounds of the reconciler and of resync requests, and the API's
wishes. `pc`, `todo`, `snap` and `cur` are the await, the rest of the list, the listed rows and the
package in hand, for the task and for each request; `installed` is what the package manager would
report. A command takes effect, or fails with or without having had any; other hands change the host.

* `OrphanedOnlyByFaults`: only a crash or a failing write leaves a package in a status that says a
  command runs while none does. No resync, and no order of steps, does.
* `SettlesByTick`: with the interval every package that is not orphaned ends up as wished.
* `SettlesByNotify`: while nothing fails, the notifications alone suffice.

An orphaned package stays so: `sync` skips the two statuses and `reconcile` acts on no package that
has them. No line of the repository promises otherwise, so it is exempted, not reported.

### Parameters, and the Register it implements

`Parameters.tla` is put, get and delete with the await between `next_version` and the upsert.
Encryption is symbolic: a sealed value is a record of the master key, the name and version it was
bound to (`aad`), and the plain value, and opens only under these. `since` is history: what became
of a writer's key since it looked.

`Register.tla` is the abstract specification: a register per key, with a version, written
atomically; a write that others have overtaken is refused, and no other is. `ImplementsRegister`
is the refinement: the cell is what the row's own master key opens, the operation what the client
sees of its request. After a deletion the version begins at 1 again, so a writer that looked
before may be stored or refused, by chance; the register says so.

* `Readable`: a stored secret opens, as long as the agent has the master key it was wrapped with.

### Services, SocketLock and Agent

`Services.tla` is bootstrap, enable and disable, with each docker call of `ensure_running` and
`stop_and_remove` a step, the status call and the apply of the proxy's routes that follow. Of a
container it keeps whether it runs and whether it has what `spec_matches` compares
(`docker.rs:173`): the published ports, the binds, and the spec's env as a subset. Image, host
port, network and restart policy are compared nowhere, so a container that has older ones stays,
and no property says otherwise. A request may be dropped at any await. `alone` and `dirty` are
history: whether a request had its service to itself, and for which services the last converge
was not alone, failed or was dropped.

* `ConvergedMatches`: a service that is not dirty is what its setting says: none, or a container
  that runs and that `spec_matches` finds nothing wrong with.
* `AppliedMeansRouted`: "service enabled and proxy routes applied" is answered only if Caddy routes
  by the rows. The code does **not** guarantee it (run `services_routes`).

`SocketLock.tla` is the lock file, the stale socket, bind, identity and removal, a step per system
call, for any number of agent processes, on inodes that are used again. Outsiders may remove the
path or put something of theirs there; `alien` are the inodes at which one listens or that are no
sockets, and an agent that meets one refuses to start (`main.rs:242-253`). `Agent.tla` extends
`Services` and composes it with an INSTANCE of `SocketLock`: only an agent that has booted far
enough sees to the services, and its end is theirs. `retired` are the agents that ended with
success, on a SIGTERM served or not: systemd has `Restart=on-failure`
(`packaging/arges.service:68`) and leaves those alone.

* `SocketStays`: while an agent listens at the path, no step of another agent changes the path.
* `OneServes`: in the end an agent serves, however others were killed, left sockets or raced;
  unless all have been told to end, or what is at the path is an outsider's.

### Metrics and MetricsWindow

`Metrics.tla` is the sampler task await by await and `Collector::deployments`, next to deployments
that are created and deleted and containers that start, stop and move bytes. Samples are ages, so
that time is unbounded and the state finite. `MetricsWindow.tla` is the arithmetic of a request's
window (`resolve`), a pure function of integers that wrap: they are `i64`, and a release build
(`cross build --release`, `.github/workflows/release.yml:51`) does not check them.

* `TrafficMoved`: no tick reports more traffic of a deployment than its containers have moved since
  they were last counted. It exempts a deployment of which a running container was missed at the
  count before, as when its stats failed: the code subtracts from a total that lacks it, and
  reports its whole lifetime.
* `SampledInTheEnd`, `PrunedInTheEnd`: whatever failed or was deleted, sampling and pruning go on.
* `HistoryGraphable`: an accepted request gets a window that can be drawn if and only if it
  overflows nothing (`Fits`): `to` is at least the retention above `i64::MIN`, the step can be
  rounded up to whole samples below `i64::MAX`. Nothing in `resolve` refuses the others, whose window
  is empty or has a negative step.

### AgentLog

`AgentLog.tla` is `push`, in its two steps, by several threads, and a request for the log that
takes the tail, subscribes, replays and streams. The channel keeps the end of `sent`; a receiver
that is behind is moved and told (`Lagged`).

* `LostOnlyBetween`: a client misses without being told only lines logged wholly between its two
  calls, and those beyond the tail it asked for that were sent by the second.
* `ThreadOrder`: it never sees a thread go back.
* `CatchesUp`: it comes to the end of what was sent, however slowly it reads.

## What the runs check

| run | instance | shows |
|---|---|---|
| `deployments` | 1 deployment, a sound and an unsound release, 1 port; 4 calls, 2 faults of every kind but renaming | `StoppedMeansGone`, `OwnPortsFree`, `ImplementsLifecycle`, `KeepsServing`, `ActivatesHealthy`, `Converges`, `NotifySuffices` |
| `deployments_two` | 2 deployments, 2 names of which the first never passes its check, 1 port; 5 calls, 2 renamings | `TypeOK`, `OthersUntouched`, `Converges` |
| `retention` | the task's run and a request's, 2 ids, 2 tags, 2 digests, 1 release kept; 3 calls, a registry failure or a crash | `TypeOK`, `PruneSparesRetained`, `PrunesAll` |
| `retention_queued` | 1 run; 4 calls, no fault | violates `QueuedSurvives` |
| `proxy` | `Cutover`: main and 2 appliers that handlers and deploys share, 2 releases beside the empty upstream, 2 contents of the rest; 3 calls, 1 fault of any kind | `CutoverTypeOK`, `NewestAppliedIsLive`, `ActivatedIsRouted`, `ChangesReachCaddy` |
| `proxy_pending` | main and 2 handlers; 3 calls, no fault | violates `PendingUntilLive` |
| `packages` | 2 packages, the task and 1 resync; 2 calls, 1 fault of every kind | `TypeOK`, `OrphanedOnlyByFaults`, `SettlesByTick`, `SettlesByNotify` |
| `parameters` | 2 keys, 2 values, 2 writers, 2 master keys; 5 calls, 1 fault | `TypeOK`, `Readable`, `ImplementsRegister` |
| `agent` | 2 agents, 2 inodes, 2 services, 2 requests; 2 calls or signals, 2 faults: docker, Caddy, the boot, a kill, a dropped request, an outsider at the path | `AgentTypeOK`, `ConvergedMatches`, `SocketStays`, `OneServes` |
| `services_routes` | 1 request at a time; 2 calls, no fault | violates `AppliedMeansRouted` |
| `metrics` | 2 deployments, 3 containers of which 2 share one; 3 changes, 1 fault; windows at the boundaries of a sample, a point, the default range, the retention and the integers, whose largest is 700000 | `TypeOK`, `TrafficMoved`, `SampledInTheEnd`, `PrunedInTheEnd`, `HistoryGraphable` |
| `agentlog` | 2 threads of 3 lines, buffer and channel of 2, tails of up to 3 | `TypeOK`, `LostOnlyBetween`, `ThreadOrder`, `CatchesUp` |

Bounds are `MaxEdits` (what users do), `MaxFaults`, `MaxCalls` (handlers between two of their own
awaits), `MaxSeconds`, `MaxLines`. Why they are enough:

* `deployments`: four calls create a deployment with a port, register and queue a release, and
  then a second one, or a stop, start or rollback in the middle of the deploy; two faults hit the
  deploy and what repairs it. Env is empty: it is read and compared like the ports, in the await
  before theirs, and the ports already give rows that are torn or outdated.
* `deployments_two`: one deployment suffices where the property is about one, as the task
  converges them one after the other and they meet only in names and host ports, which is what
  this instance is about. Five calls create both and queue a release of each, with one to spare; or
  up to two of them rename, and a name goes from one deployment to another while a container bears
  it. What more calls can do to names is for `OthersAreUntouched` to say.
* `retention`: two ids and one kept give a stale and a retained release in either order, of one
  digest or two. All rows are of one second, where the ids, drawn in any order, decide:
  different seconds give no order that these do not.
* `proxy`: two appliers are two handlers that overlap, or a handler and a deploy. Three hosts and
  two rests tell the rows, an older configuration and a torn one apart, and give two releases
  beside the empty upstream; three calls queue a release, another while the first is deployed, and
  the first again or a handler's change between them. Deploys are not bounded. With one fault
  nothing repeats, but each kind meets every interleaving of two applies.
* `packages`, `agent`: what is asked is asked twice, once over the other; the agents are two
  because the third has nothing to race for.
* `parameters`: two writers, a deletion and two more puts: the shortest way for a version to be
  met again is put, look, delete, put, store.
* `metrics`: two containers of one deployment and one of another; three changes are enough for
  a container to move bytes, stop and start between two counts. The largest integer need only exceed
  the retention and the points, as the module assumes; the theorem is about any.
* `agentlog`: three lines overflow both buffers while a thread is between its two steps.

Symmetry is used in `parameters` only, whose properties need no fairness. Deadlock is not checked
where the system really may stop, because the bounds are spent and nothing is left to do;
`Retention`, whose task never ends, is checked for it.

Every property has a mutant: a plausible wrong form of a definition (its name has the original's
as a prefix) under which TLC finds the property violated by the same instance.

### Fairness

* `Deployments`: weak fairness of the reconciler task (tokio schedules it and every call it makes
  returns, if only with an error), of each handler in flight, and of the daemon's restart and the
  coming up of a sound image. A call that fails is a fault and faults are bounded, so
  that `Converges` speaks of the time after the last one. Users owe nothing. The ticker's fairness
  is a hypothesis of `Converges` and absent from `NotifySuffices`, so that a lost notification
  cannot hide behind it.
* `Retention`: weak fairness of each run: its ticker fires for ever. Nothing else.
* `ProxyApply` and `Cutover`: weak fairness of each apply that has begun: one that is not dropped,
  which is a fault, is polled to its end. There is no retry in the code, and none in the model: a
  change whose load was refused stays pending.
* `Packages`: weak fairness of the task's steps, of each request that has begun and of the handlers'
  notifications; the interval, as in `Deployments`, is a hypothesis of `SettlesByTick`.
* `Agent`: the processes are scheduled, docker and Caddy answer, and an agent that failed is started
  again, as its unit says; one that ended with success is not, unless somebody does so.
  Users, signals and faults owe nothing.
* `Metrics`: weak fairness of the sampler, whose interval fires for ever. `AgentLog`: of the
  stream, as long as the client reads; a client may leave, and the threads owe nothing.

## What is proved

Every safety property that a passing run checks, and every type invariant, is a theorem. They hold
for all values of the constants: any number of deployments, names, releases, ports, containers,
packages, threads, appliers, API calls and faults. Assumptions are the named `ASSUME`s of the
modules, which give the constants their types and bounds, say that `None`, `Deleted` and the like
are none of the other values (`NoneIsNothing`, `ContainerIsNew`, `NoneIsNoRow`,
`HostIsNoDeployment`), that different tags of a deployment give different containers (`TagsDiffer`;
those of different deployments may not), that an integer holds the retention (`RetentionFits`),
and that a host has finitely many containers (`FiniteContainers`); TLC evaluates them in every
run. No theorem has a hypothesis beyond these.

* `DeploymentsProofs`, in five parts, each with an invariant of its own.
  * `TypeCorrect`, `Spec => []TypeOK`. `TypeOK` is inductive as it stands, because it also says
    which locals exist at which await (`TaskOK`). One lemma per part of `Next`; the ways a step of
    the task can end (`Goto`, `Sweep`, `Fail`, `Done`) have one each.
  * `StoppedIsGone` (`[]StoppedMeansGone`) and `PortsAreFreed` (`[]OwnPortsFree`). Neither is
    inductive. `SweepInv` adds: the task works on ids that were created (`Known`); from
    `set_status(Deploying)` to the new container the row says `deploying`, so that what a deploy
    starts never appears under `stopped` (`DeployingShown`); a sweep that keeps nothing still has
    all of the deployment before it (`SweepCovers`); and after it nothing is left (`Cleared`). The
    second part is the reason why `deploy` must write its status before anything else, the
    third why nobody but the one reconciler may create containers.
  * `ActiveIsHealthy` (`ActivatesHealthy`). `HealthInv`: what serves is sound, and from the end of
    the health check to `set_active_release` the container is there, as only the task removes any.
  * `OthersAreUntouched` (`OthersUntouched`) and `ActiveIsKept` (`KeepsServing`), for any names and
    any renamings. The task takes down containers by what its snapshot says, and both are about
    what the rows say by then. `NamesInv` relates the two: names of deployments that exist differ,
    and so do those in the snapshot (`NamesDiffer`); whoever is in the snapshot, or on the label of
    a container, was created (`KnownRows`); whoever was created since the list has no
    container yet (`Unlisted`); and what is active changes only while its deployment is in
    hand (`ActiveAsListed`). `AimInv` says what `converge_one` has made sure of at each sweep
    (`Inspected`, `Sweeping`) and what the sweep spares (`Spared`). A container is taken down by its
    label, which is of the deployment in hand, or by the name in the snapshot; in the second case it is
    of somebody who bears that name by now, or it has two names (`TakenFrom`).
    The exceptions in the properties are needed: in an instance of two deployments with seven
    calls and two renamings, TLC violates both without them. A deployment that takes a name over
    finds the container of the one before up already, as `spec_matches` does not look at labels;
    two renamings in the middle of a round leave the task going by a name that another bears.
  * `ImplementsItsLifecycle` (`Spec => ImplementsLifecycle`). A step of
    the task shows a change of the row while going by the snapshot, so `AskInv` says how far the
    two agree: a deployment is asked for a release before it has anything (`AskedFirst`), a
    listed row without a desired release is therefore of a deployment that has nothing and gets
    nothing before its turn is over (`ListedAsAsked`), and what is active changes only for the
    deployment in hand (`ListedAsActive`). `AwaitInv` says what `converge_one` and `deploy` have made sure of at
    each await: that a release is active when the row is about to say `running` (`Served`), none
    when it is about to say `stopped` (`Forgotten`), that the row tells of the deploy (`Deploying`),
    that the name is free when a container is made (`Vacated`). Each holds unless the row
    was deleted in the middle, which is why `Launch` excepts that. `LifeCorrect` is their
    invariance. Then each part of `Next` is shown to be a step of `Lifecycle` or none.
  * `PromiseIsKept` follows from it, for `Lifecycle` and so for the code: a pending or stopped
    deployment has neither container nor active release, one that runs and has containers has an
    active release, what is queued or active is registered. It is proved only, as
    TLC has checked all it follows from.
* `ProxyProofs`: `ProxyTypeCorrect`, and `NewestIsLive` (`[]NewestAppliedIsLive`), for any number
  of overlapping applies. `ProxyInv`: from its record to its mark an applier owns a revision of
  its own, pending until then (`Owned`), and whoever is to mark the newest has loaded it, so that
  Caddy has it unless an older one overtook it (`LoadedNewest`). For `Cutover`, `CutoverTypeCorrect`,
  `CutoverNewestIsLive`, and `ActivatesRouted` (`[]ActivatedIsRouted`), next to any number of handlers. The
  appliers that read the hosts before they were last written are the late ones; only handlers can
  be (`Lateness`). `RouteInv`, as long as no load failed and none was late: one that is not
  late has the hosts as they are, has loaded them when it comes to its mark, and has a newer
  revision than the late ones that are about to mark (`InTime`); the revision applied last names the
  container the rows name, unless a deploy or startup is about to apply (`UpToDate`), and then
  Caddy routes to it, and the marks of the late do not change that (`Settled`). And `DeployInv`: no
  deploy begins before the apply at startup is over, which is what makes skipping the apply right
  after a crash.
* `ParametersProofs`: `ParametersTypeCorrect`, `StoredIsReadable` and `StoreIsARegister`, the
  refinement `Spec => Promised!Spec`. `ParametersInv` adds that a sealed value is bound to the key
  and the version of its own row (`Bound`), and that what a writer has read is still the next
  version, or exceeded by what was stored meanwhile, or of a life that ended (`Looked`). From it
  each step of the store is a step of the register: an upsert that matches is a `Store`, one that
  does not is a `Refuse` and was overtaken, failures and crashes are `GiveUp`.
* `RetentionProofs`: `RetentionTypeCorrect`, and `PruneSpares` (`PruneSparesRetained`) for any
  number of overlapping runs. `RetentionInv` says that an id is never given twice while a run may
  remember it (`Fresh`, `Same`), that a row a run has read and that is still there is stale or
  keeps its digest (`Kept`), and that what was beyond the newest when it was read still is, because
  whatever a run deletes has as many rows ahead of it, which are ahead of everything after it
  (`Newer`, with the lemmas `AheadSurvives` and `AheadGrows` on cardinalities).
* `PackagesProofs`: `PackagesTypeCorrect`, and `OnlyFaultsOrphan` (`OrphanedOnlyByFaults`).
  `PackagesInv` says of whoever works on packages that it has listed what it visits and rows do not
  go away (`Listed`, `Rounds`, `Seeding`), and that a status about to be written is not one of the
  two in progress (`Outcome`). So what notes a command is the actor about to run it, and it ends by
  a write of an outcome, or by a fault.
* `AgentProofs`, first for `Services` by itself: `ServicesTypeCorrect` and `ConvergedIsRight`
  (`[]ConvergedMatches`). `ServicesInv`: startup and requests do not overlap (`Shift`); a request
  that is alone has its service to itself (`Apart`); an actor that is alone goes by what the setting
  still says and finds the container it has made (`Intent`); a clean service matches and nobody
  works on it (`Clean`); bootstrap comes to the proxy with the registry right (`Boot`).
  The lemmas are about single steps, so that they hold in the composition: `AgentTypeCorrect`,
  `AgentConvergedIsRight`, and `SocketIsKept` (`SocketStays`), whose invariant is that whoever is
  past `acquire_lock` has the lock (`Holds`); who may be started again plays no part in it.
* `MetricsProofs`: `HistoriesAreGraphable`, for all times and steps that integers of any width hold,
  in both directions: what fits can be drawn, what does not cannot. It follows from lemmas on
  division and remainder and on where a sum wraps; the sampler's state plays no part in it. `MetricsTypeCorrect`, with `Phases` (what a
  run has at hand where) and `Credited` (what was read of a container is no more than it had moved),
  which keeps `unread` a natural number. And `TrafficIsMoved` (`TrafficMoved`): a total is a sum of
  parts, one per container, each of which covers all of the container's counter that does not
  count as moved since (`Counted`, with the parts as a witness); a start or a stop only takes
  the counter back (`UncountedNext`). Comparing a tick's total with the one before is then
  comparing sums part by part.
  Sums over sets are folds, and the library's induction theorem for finite sets cannot be used
  here; `SumExists`, `SubsetInduction` and `SumUnique` do the induction by the least cardinality of
  a counterexample, given as a set.
* `AgentLogProofs`: `LogTypeCorrect`, `LossIsBetween` (`[]LostOnlyBetween`) and `ThreadsInOrder`
  (`[]ThreadOrder`). What had begun when the tail was taken is in it or was not asked for
  (`TailCovers`); everywhere lines are kept a thread's are in order, none later than it has logged
  (`LogInOrder`, `ClientInOrder`), and what the client was sent comes before what it still will be
  (`Continues`).

Only model-checked: liveness under fairness, which is out of the prover's reach: `Converges`,
`NotifySuffices`, `PrunesAll`, `ChangesReachCaddy`, `SettlesByTick`, `SettlesByNotify`, `OneServes`,
`SampledInTheEnd`, `PrunedInTheEnd` and `CatchesUp`. And the three properties the code does not
have, whose counterexamples are runs.

## Disagreements between code and statements

* **`retention_queued`**: retention reads what is queued and active, and deletes the image of
  another release later without a second look. If that release is queued in between, which is
  allowed, it keeps its row and has no image; its deploy can never succeed. The tests of
  `prunable_releases` say "v2 is queued and must survive" (`src/db/queries/deployments.rs:680`).
* **`proxy_pending`**: of two handlers that overlap, the one with the older revision can load
  last. Caddy routes by the older configuration, the newest revision is marked applied, the
  status reports nothing pending and every further apply answers "no proxy change to apply"
  (`src/handler/proxy.rs:152`; the status's test says "pending until the catch-all reaches
  caddy", `src/handler/proxy.rs:474`). Only another change of the rows repairs it.
* **`services_routes`**: disabling and enabling the proxy, or converging it on a changed spec, makes
  a container with the configuration of its image. The last applied revision still has the hash
  of the rows, so apply finds nothing to do, and the request answers "service enabled and proxy
  routes applied" (`src/handler/services.rs:71`) while Caddy serves none of them. Only a change of
  the rows repairs it.

## What is not modelled, and why

Validation, rendering of Caddy's JSON, parsing of image references and of docker's answers,
logging and the audit trail decide nothing that the properties see; nor do configuration, routing
and host information, which keep no state. Image handling, log streams and exec of the docker
client, the journal reader and the health probe are other programs' output passed on. Garbage
collection runs inside the registry. Metadata and detection of package managers, the log of
status transitions, and the gauges and SQL aggregation of metrics are data without control. A tag
is never pushed again with another digest. SQLite statements do not fail except on constraints,
save where a module has a fault for it (`write` in `Packages` and `Parameters`, `Fault` in
`Metrics`). A call to docker takes effect while the caller waits for it or not at all: a request
still on its way when its handler was dropped, or the agent killed, is not modelled, nor is the
same of Caddy, save where the answer is lost. The lock file is removed by nobody. Whether a
service's container has the image, host port, network and restart policy of its spec is kept
nowhere, as the code asks nowhere.

## Plan

Done, in this order: `Deployments` with `DeploymentsProofs`; `Retention` with `RetentionProofs`;
`ProxyApply` with `ProxyProofs`; `Packages`; `Parameters` and `Register` with `ParametersProofs`;
`Services`, `SocketLock` and `Agent` with `AgentProofs`; `Metrics` and `MetricsWindow` with
`MetricsProofs`; `AgentLog`; `Cutover`; then the theorems about the rest of the safety properties,
in `DeploymentsProofs`, `ProxyProofs`, `MetricsProofs`, `PackagesProofs` and `AgentLogProofs`;
then `Lifecycle`, and that `Deployments` implements it; then renaming and ambiguous names in
`OthersUntouched` and `KeepsServing`, overlapping applies and dropped handlers in `ProxyApply` and
`Cutover`, outsiders and systemd's restarts in `Agent`, and wrapping integers in `MetricsWindow`. To
come:

1. Another abstract specification: a configuration register that `ProxyApply` implements as long
   as no load overtakes another.
2. A narrower exemption in `TrafficMoved`: only of what the missed container had counted before.
