# AgentENV in TLA+

TLA+ models of AgentENV, the model-checking runs over them and the theorems
proved about them. AgentENV runs sandboxes (Firecracker VMs) on a set of nodes.
On each node one process, the server in `src/src`, owns the sandboxes; a
scheduler and a gateway (`src/services`) place sandboxes on nodes and route
requests to them; a storage layer (`src/storage`) serves their disks.

The models cover the concurrent control plane: the orchestrator of a node, its
network slots and warm pool, its snapshot artifact cache, the volumes that nodes
share, and the scheduler with its replicas, nodes and gateway.

## 1. The system

| Part | State | Operations | What is hard | Modules |
| --- | --- | --- | --- | --- |
| Orchestrator (`orchestrator/service.rs`), metadata store, persistence | records, handles, routes, deletions map, durable records | create, resume, pause, delete, snapshot, fork, keep-alive, evict, shutdown, restart | spawned tasks interleave at every await; the only lock is a compare-and-set on the sandbox state | section 2 |
| Warm pool (`crates/warm-pool`), network slots (`sandbox/network`) | idle slots, a bitmap, a worker | take, release, refill, drain, shut down | lost wake-ups, push against shutdown, no lock over both bitmap and pool | `WarmPool`, `NetworkManager` |
| Snapshot artifact cache (`snapshot/artifact_cache.rs`) | index with reference counts, in-flight table, files | fetch, join, pin, release, evict | two mutexes and unguarded files; requests dropped at an await | `ArtifactCache` |
| Volumes (`volume`) | catalog records and names, owners, node-local backings | create, reserve, materialise, publish, fail, release, delete | partial failure over several volumes, several nodes, crashes | `VolumeCatalog`, `Volumes`, `VolumeNames` |
| Scheduler (`services/scheduler`), gateway, reporter (`observability/reporter.rs`) | node registry, bindings, CPU intersection | schedule, record, heartbeat, pull, reconcile, unregister, discover | late, lost, reordered and overtaken calls; restarts | `NodeRegistry`, `BindingStore`, `Scheduler` |
| Leadership (`scheduler/internal/leadership.go`) | lease, serving flag, gate | acquire, renew, lose, drain, exit | clocks, slow answers, binding expiry over a failover | `Leadership`, `Failover` |
| Storage (`storage`), image cache graph, p2p, repositories, API, builds | | | | not modelled, section 8 |

`PROJECT.json` lists every part with its source files, and the hazards at the
line where they bite.

## 2. The orchestrator

| Module | Models |
| --- | --- |
| `OrchestratorState` | the shared state and the store, route-table and task primitives |
| `LaunchOps` | create, resume, the launch they share and its rollbacks |
| `PauseOps` | pause and the ways it gives up |
| `DeleteOps` | delete with its recorded progress; auto-eviction |
| `CaptureOps` | snapshot, fork, keep-alive |
| `ShutdownOps` | shutdown and its cleanup passes, deadlines, end and restart of the process |
| `Orchestrator` | composition, fairness, the properties, the refinement mapping |
| `SandboxLifecycle` | the abstract specification: who may move a sandbox where |
| `OrchestratorInvariant` | the inductive invariant behind the proofs |
| `MCOrchestrator` | instances for TLC |

**Tasks.** `run_cancellation_safe` spawns every request, so it goes on when its
caller leaves. An operation is a member of `Task` with a program counter and the
locals that survive from one await to the next: the handle it holds, the route it
removed, the paused state or durable record it read, the deletions entry it
locked. Each label is a point at which another task can observe the shared state.
One task, `Sweeper`, stands for the calls the shutdown cleanup makes inline.

**State and code.**

| Variable | Code |
| --- | --- |
| `store` | `InMemoryMetadataStore`: state, `paused_state`, virtualization mode, whether the deadline has passed |
| `handles`, `routes` | `Orchestrator.sandboxes`, `proxy_routes` |
| `vm` | what each VM is doing: none, up, frozen, down |
| `startPins`, `pausePins` | image holds in the Runtime and Paused namespaces |
| `disk` | the record of `FileBackedSandboxPersister`, with its lifecycle |
| `deletions`, `progress` | the deletions map and each entry's `DeleteProgress` |
| `shutting`, `sweep` | `is_shutting_down`, the cleanup of `run_shutdown_cleanup` |
| `nodeMode`, `used` | configured virtualization mode, ids handed out |

What an operation creates is named after it: the VM of a launch, the capture of a
pause and the entry of a delete are called by the task's name. A VM that was
started for a forked child has the child's id.

**Failures.** A call can fail in a run if its name is in `Faults`. A failing call
takes the path of the code: recoverable captures give the sandbox back, terminal
ones drop it, best-effort calls are logged and ignored. `crash` ends the process
at any point; a restart runs `load_all` and the reconcile of the holds, maybe in
another virtualization mode.

**Simplifications.** Ids, those of template builds included, are fresh. Fork has
one child. The deadline is one bit, set by `Expire`. Waiting for a transition tests
the record itself, not the watch channel. Best-effort tails that nobody can
observe apart (stop, finalise volumes, remove the record) are one step. Holds are
reconciled at start-up, as they are when image collection is enabled. The disabled
persister, undecodable records, network policy, extension parameters, metrics
and events are left out: no property reads them.

**Properties.**

- `OneClaimant`: while an operation works under a transitional state the record
  shows that state, or is gone, and no other operation works on the sandbox.
- `Settled`: a transitional state always has an operation that will leave it, or
  a recorded delete that the next delete will finish.
- `ResumeHasState`: a resume that has marked the durable record has a paused
  state to launch.
- `RouteFollowsHandle`, `RunningIsRouted`: a route leads to the attached VM only;
  a running sandbox at rest has a running VM and a route to it.
- `OneVMExecutes`: two VMs of one sandbox never execute at once.
- `PausedIsDurable`, `PausedIsPinned`: a paused sandbox at rest survives a
  restart and its layers are held.
- `DeletedIsGone`: a deleted sandbox does not come back.
- `NothingDropped` (action property): while no call of a launch or a pause fails,
  only a delete takes a sandbox away. It excepts template builders and sandboxes
  that a capture under way can take down: one that a fork reads or makes, one whose
  snapshot may fail. Section 6 has the two ways in which a fork without any failing
  call does.
- `ImplementsLifecycle` (refinement): every step is a step of
  `SandboxLifecycle`, with the state of the record as phase and the operation that
  holds the claim as holder.
- `OperationsEnd`, `ShutdownEnds` (liveness): every accepted operation and the
  shutdown return although no wait times out.

## 3. The other models

**Network slots** (`WarmPool`, `NetworkManager`). `WarmPool` has the pool's state
and the decisions taken under its mutex: the adaptive fill target, what
maintenance has to do, whether a push or a release is accepted. `NetworkManager`
runs user threads, the maintenance worker and the closing thread over it, one step
per critical section. A slot is its index; `veths` are the host interfaces that
exist. The start of the worker and the creation or removal of an interface can
fail (`Faults`, at most `MaxFaults` of them). Threads
start their calls when they like; a call that has begun goes on (weak fairness),
as an OS thread does.

**Artifact cache** (`ArtifactCache`). One step per critical section, file
operation or await. A request goes through `ensure_cached` (try the index, look
for the file, join or start a fetch) or `pin_local_file`, holds its file and lets
go. Its future may be dropped at an await listed in `CancelPoints`; a fetch may
fail. The request that fills the cache over its limit runs the eviction: list,
mark under the lock, remove the files after it. Fairness: requests and evictions
go on; no client is obliged to go away.

**Volumes** (`VolumeCatalog`, `Volumes`). The catalog's compare-and-set updates
are operators; the manager's calls on each node, the create request around them,
the sandbox's operations and the publications are processes. The content of a
volume is a number, raised by each write of a guest; `local` is the content of a
node's image.json, `cached` the layers for which a node believes it has a backing.
Every call to the repository may fail, a write with or without its effect, every
capture may, and a node may restart at any point; `MaxMishaps` bounds how often.
Nothing is left out because the code gets it wrong: `lost` records, per volume, which
of six kinds of loss (`Loss`) it was exposed to, and the properties except volumes
exposed to a kind in `Excused` (section 6).

**Volume names** (`VolumeNames`). `create_volume` with `claim_alias`, and
`delete_volume`, one step per repository call, any of which may fail before or
after its effect.

**Scheduler** (`NodeRegistry`, `BindingStore`, `Scheduler`). The two tables are
modules of operators, one per method under its mutex; `Scheduler` composes them
with the gateway's create request, the nodes' reporters and the handlers of the
service. Calls are a set on the way and a sequence being handled, so they can be
lost, given up by their sender and still handled, reordered, and overtaken between
ingestion and reconciliation. Time is left out: a report is stale when a later
stamped one has been taken in. A placement is any configured node. The CPU
intersection is the set of nodes it was computed from; a node has a CPU
configuration or has none, so that neither a change from one configuration to
another nor one that cannot be intersected is represented.

**Leadership and failover** (`Leadership`, `Failover`). client-go's election is
external: it is modelled from the configuration and the callbacks it is given, with
clocks that run down in ticks of a second. Taking the lease, hearing of it and
raising the serving flag are one step, though client-go runs the callback that raises
it in a goroutine of its own: the model assumes that this goroutine has run before
that lease can be lost, `RenewDeadline` later. A restarted replica waits for the
lease to run out also when it is still the recorded holder. `Failover` extends it with standby
polling, the routing to a healthy leader, a node's reporter with its back-off, and
the effective binding TTL, at the default configuration.

## 4. Runs that pass

| Run | Instance | Checks |
| --- | --- | --- |
| `lifecycle` | 1 sandbox with volumes, 3 operations of create, resume, pause, delete; 13 kinds of fault; 2 modes | `TypeOK` `OneClaimant` `Settled` `RouteFollowsHandle` `ResumeHasState` `ImplementsLifecycle` |
| `fork` | source and child, 3 operations of resume, fork, pause, delete, snapshot, keep-alive, evict; failing captures and children | `ClaimInvariant` `OneVMExecutes` `RunningIsRouted` `NothingDropped` |
| `restart` | 1 sandbox, 3 operations of create, pause, delete, evict, and shutdown; crashes, failing allocation and pin, timeouts; 2 modes | `PausedIsDurable` `PausedIsPinned` `DeletedIsGone` |
| `liveness` | 2 sandboxes, one of them a template builder, 2 operations of create, pause, delete, snapshot, and a shutdown, no faults | `OperationsEnd` `ShutdownEnds` `NothingDropped` |
| `network_pool` | 1 user thread, worker, shutdown, 3 slots, watermarks 1 and 2, a failing creation or start of the worker | `SlotHasOneOwner` `NothingLeftBehind` `NoLostWakeup` `PoolRefills` `ShutdownReturns` |
| `scheduler` | 2 nodes, 1 sandbox, 2 calls of a node in flight, 1 mishap | `BindingIndexed` `IntersectionCurrent` `CpuDelivered` |
| `reporting` | 1 node that is also pulled, 1 sandbox, 2 calls in flight, 2 mishaps | `BindingsConverge` |
| `failover` | 2 replicas, default times in seconds, 1 loss of the leader | `OneServes` `NeverNotFound` |
| `volumes` | 2 nodes; 2 sandboxes with 2 volumes, one of them paused and made twice, or 2 with one volume, one of them paused and snapshotted; 1 write, 1 mishap | `NoStaleMount` `SoleWriter` `NoReservationLeaks` |
| `volume_names` | 3 creations and 2 deletions over one name, 2 attempts to claim | `NameKept` `MissingIsStale` |
| `artifact_cache` | 3 requests for 2 keys, a limit that one key reaches | `OneFetch` `NoPinLeak` `SizeCounted` `RequestsEnd` |

What they say of the parts outside the orchestrator:

- `SlotHasOneOwner`: an index is in the pool, being cleaned or with one thread, and
  is marked in the bitmap. `NothingLeftBehind`: after a shutdown, whatever was
  being created, refilled or released meanwhile is gone. `NoLostWakeup`: the
  worker does not sleep while the pool is outside its limits. `PoolRefills`,
  `ShutdownReturns`: the pool reaches its target; shutdown returns.
- `BindingIndexed`: the binding table and its per-node index agree.
  `IntersectionCurrent`: the stored CPU intersection is that of the observed nodes.
  `CpuDelivered`: unless an answer was lost, a node that counts as served has the
  intersection or has it coming. `BindingsConverge`: in the end the bindings of a
  node that runs are what it hosts, whatever was late, lost or overtaken.
- `OneServes`: one replica at most has its gate open. `NeverNotFound`: over a
  failover the binding of a sandbox on a live node does not expire, although its
  reporter backs off up to a minute.
- `NoStaleMount`: a volume that can be mounted has the last write.
  `SoleWriter`: a sandbox reads the last write to its volumes.
  `NoReservationLeaks`: without a crash, a reservation belongs to something that
  exists. Each with the exceptions of section 6.
- `NameKept`: a created volume keeps its name until it is deleted.
  `MissingIsStale`: a name whose record is missing is stale, not mid-creation.
- `OneFetch`: one fetch per key. `NoPinLeak`: reference counts are not above the
  handles that exist. `SizeCounted`: the recorded size is that of the entries.
  `RequestsEnd`: every request ends, also when the one it waits for is dropped.

*Bounds.* The claims of one sandbox are independent of other sandboxes except
through fork, so one sandbox, or a source and its child, is enough; three
operations let one be overtaken by a second while a third starts from what the
second left, and each orchestrator counterexample of section 6 needs at most three.
`MaxPasses` is the code's 3. Operations other than the sweeper's are
interchangeable, hence the symmetry; the liveness run does without it. Three slots
with watermarks 1 and 2 let the pool be below, at and above its limits while a user
holds one; two user threads with failing removals as well were explored once (2.6
million states, no violation). Two calls of a node in flight are the least that
can overtake each other, at each of the three steps of a handler. The failover
times are the code's defaults, so its bound is the number of losses; only the
latency of an answer (`Latency`, 2 seconds) is chosen, the code has no such setting.
A volume needs a second mount of the same node after another node's for its backing
to be stale, hence the sandbox made twice; two mounts let one of them fail. A
snapshot has a scenario of its own, in which another node's sandbox waits for the
volume. Two mishaps were explored for the first scenario (4.4 million states, no
violation). At most one thing fails in `network_pool` (`MaxFaults`). Two
attempts to claim a name give each creation one lost race; three creations and two
deletions let a name change hands twice. Three requests let one wait for a fetch
while another evicts; four were explored in part without a violation.

Deadlock is not checked where a system may stop: a node with no request left or
whose task set is used up, the names and the cache when all requests are done.

*Which faults where.* Some properties hold only while certain calls do not fail,
or certain operations do not meet, and the runs are split accordingly.
`PausedIsDurable`, `PausedIsPinned` and `DeletedIsGone` are checked without resume,
`DeletedIsGone` also without a failing purge, which the code only logs,
`RunningIsRouted` without failing volume captures, `RouteFollowsHandle` without
fork, `Settled` without shutdown, and `OneVMExecutes` without failing stops: a VM
that does not stop lives until its handle is dropped. `NothingDropped` is checked
without failing launches and pauses, which take the sandbox away by design, in
`fork` with resumes and in `liveness` with a shutdown; `OperationsEnd` and
`ShutdownEnds` are checked without resume and fork: a resume accepted before the
shutdown leaves the sandbox Resuming (`shutdown_resume`), and a delete or a shutdown
that waits for it waits for ever unless its wait times out, as the code's does.
`NoPinLeak` is checked without a cancellation in `finish_inflight`, `CpuDelivered`
while no answer is lost. The volume properties are checked with all failures and
except volumes, not interleavings. Section 6 has what is behind these limits.

*Fairness.* `FairSpec` of the orchestrator assumes weak fairness of each
operation's steps and of the cleanup: they are spawned futures of a multi-threaded
runtime, which polls each one that has been woken, and every step that can be taken
stays possible until it is taken or another operation has changed the record.
Nobody is obliged to make a request, deadlines need not pass and waits need not
time out. The scheduler's reporter loop, its handlers and the gateway's request go
on, and a process that is down is started again by its supervisor; nothing obliges
a call to be lost or a node to be discovered. Network threads and cache requests
go on once begun.

## 5. The run that ends in a violation

`artifact_pinned`: eviction takes an unreferenced entry out of the index, unlocks,
and removes the file. In between a request finds the file, pins it and returns a
handle; the file of a pinned entry is then removed. The comment on the cache says
that files with a reference are never evicted (`PROJECT.json` quotes it).

## 6. Further configurations

Not listed as runs; each ends in a counterexample to a property that a doc or a
comment suggests, and is the reason for a limit of section 4.

- `resume_pause_record` (`PausedIsDurable`): a resume publishes Running and later
  deletes the durable record. A pause in between has written a new one, which is
  lost.
- `resume_delete_record` (`DeletedIsGone`): rolling a failed resume back reads the
  durable record and writes it again; a delete in between is undone on disk.
- `shutdown_resume` (`ShutdownPreserves`): a resume accepted before the shutdown
  claims and marks the sandbox, then finds the node shutting down and returns. The
  sandbox is left Resuming, its record is discarded at the next start, shutdown
  reports success.
- `fork_delete_route` (`RouteFollowsHandle`): fork publishes the child's route
  without comparing handles.
- `resume_stale_state` (`ResumesCurrent`): a resume launches the capture it read
  before its claim.
- `create_delete_route` (`RunningIsRouted`): a create skips its route while a delete
  has the handle detached; the delete fails recoverably and restores the handle
  without a route.
- `slot_drop` (`HeldIsConnected`): a slot whose creation failed gives its index
  back and is dropped afterwards; the drop removes the interface of the slot that
  has the index by then.
- `scheduler_cpu_lost` (`SentIsDelivered`): the scheduler notes the CPU intersection
  as sent when it answers; if the answer is lost the node does not get it again.
- `pull_beats_heartbeat` (`HeartbeatWins`): a pulled report is recorded with the
  time at which it is taken in, not at which it was asked for, so a heartbeat that
  arrived in between and is taken in afterwards is dropped in its favour.
- `drain_overlap` (`NoOverlap`): a replica that drains after a signal renews its
  lease no more, and what is left of the lease can be shorter than the drain: a call
  behind its gate ends under the next leader.
- `fork_pause_drop` (`OnlyDeletesRemove`, `NothingDropped` without its exception
  for captures): a forked child is Running before its handle is inserted; a pause in
  between finds no handle and removes the record. With four operations also: a fork
  that looked its source's handle up before a pause and a resume captures a VM that
  is gone, and removes the record of the resumed sandbox.
- `volume_lost` (`NoStaleMount` with no loss excused): the sandbox is deleted before
  the request that created it has made the reservation the sandbox's, and the
  volume can be mounted without its last write. "If this commit cannot be completed
  safely, AgentENV prevents the incomplete volume data from being mounted"
  (`docs/src/concepts/volumes/index.md`, 14-15).
- `artifact_count` (`PinsCounted`): an insertion replaces the entry another request
  has just inserted, and its reference count with it.
- `artifact_abandoned` (`Refetchable`): a request dropped while it fetches leaves its
  in-flight entry; every later request for the key fails until a restart. A failing
  `create_dir_all` does the same.

`refinement` passes: `ImplementsLifecycle` over two sandboxes and seven kinds of
operation, with crashes and faults.

**Losses of volumes.** The code does not make good six kinds of loss. A volume
exposed to one is marked in `lost` and excepted while the kind is in `Excused`. None
is excepted in vain: with any one of them taken out of `Excused`, `volumes.cfg` ends
in a violation of the property named.

- `dropped` (`NoStaleMount`): a pause or snapshot fails terminally. The volumes that
  were not sealed are published as the node has them, and all of them are released as
  ready, also when publishing failed.
- `early` (`NoStaleMount`): somebody deletes the sandbox before the request that
  created it has moved the reservations to the sandbox. The delete finds nothing of
  its own to publish or fail; the reservation, moved to a sandbox that is gone, can
  also stay for ever (`NoReservationLeaks`).
- `unfinished` (`NoStaleMount`): the request cannot move the reservations and deletes
  the sandbox, with the same result for those that were not moved.
- `overtaken` (`NoStaleMount`): the sandbox ends while a snapshot request is still
  publishing. It publishes its node's older backing for whoever has the volume by
  then, or makes a failed volume ready again.
- `restored` (`NoStaleMount`): a node ends after the delete of a paused sandbox has
  released a volume and before the durable record is gone; the sandbox comes back
  and writes a volume it no longer has.
- `unreturned` (`NoReservationLeaks`): a best-effort release fails and is only logged
  or ignored, or a reservation fails after its effect and is not among those given
  back.

Observations that no property states: a node that leaves discovery and comes back
while running, or a scheduler that restarts without an election, has a record
without CPU configuration until the node restarts; the configuration check
(`config.go`) compares lease, deadline and retry period but not the latency of an
answer, which the proof needs (`LeaseDuration > RenewDeadline + RetryPeriod +
Latency`); a crash of a node leaves the reservations of its sandboxes; a crash
between the write of a volume's record and the claim of its name leaves an unnamed
volume.

## 7. Proofs

**Orchestrator.** The only assumption is `ConstantsAssumption` of `Orchestrator`:
the sweeper is a task, the named subsets are subsets, there is a pass to make, and
the names are distinct. The number of sandboxes and operations, the faults and the
kinds of operation are arbitrary.

- `TypeCorrect` (`OrchestratorTypeProofs`): `Spec => []TypeOK`, one lemma per
  action.
- `ClaimsHeld`, `ClaimsExclude` (`OrchestratorClaimProofs`, with the lemmas of
  `ClaimShapes`, `LaunchClaims`, `DeleteClaims`): `Spec => []ClaimInvariant` and
  hence `Spec => []OneClaimant`.

`OneClaimant` is not inductive: a launch writes Running, and a create's rollback
removes the record, and neither compares the whole of what it relies on; a delete
that failed is taken up without a compare-and-set. `ClaimInvariant` adds

- `Placed`: what a task's locals say at each label;
- `Serialised`: an entry's mutex excludes, and while the record exists the entry
  a delete works with is the one in the map;
- `Committed`: progress past the capture means Killing under that entry, and a
  delete in its last steps has removed the record;
- `Untouched`: nothing mentions an id before its record is added, save the
  operation that drew it.

`ClaimShapes` sorts steps into a few shapes by what they do to the record and the
task (a step that leaves the record alone, one that starts an operation, draws an
id, adds a record, puts a sandbox to rest) and proves once for each shape that it
preserves the invariant; each action is then shown to have one of the shapes.

**Scheduler** (`SchedulerProofs`). `TablesAgree`: `Spec => [](BindingIndexed /\
IntersectionCurrent)`, and `ReconciliationExact`: a reconciliation leaves its node
with exactly the roster it carries. For any nodes, sandboxes and bounds; the
assumptions are that the two null values are not values. The inductive invariant
is the two with the types of the tables and of the calls: a roster being handled
must be a set of sandboxes when it is applied, several steps after it was sent.
One lemma per operation of each table, one step per action of the composition.

**Leadership** (`LeadershipProofs`). `ElectionServesOne`: `LeadershipSpec =>
[]OneServes`, and `FailoverServesOne`: the same for `Failover`, each of whose steps
is shown to be a step of `Leadership` or to leave its variables alone. For any
replicas and times with `LeaseDuration > RenewDeadline + RetryPeriod + Latency`
(`ConfigAssumption`). `OneServes` speaks of flags, the argument is about clocks:
`LeaseInvariant` says that the lease outlasts the leader's deadline on the clock of
every other replica that has seen the record, and that a renewal written and not
yet answered is, for whoever has seen it, as old as its answer is late.

**Volume names** (`VolumeNamesProofs`). `NamesKept`: `Spec => [](NameKept /\
MissingIsStale)`, for any number of creations, deletions and attempts.
`NamesInvariant` adds that a record is written once, on the way to the claim; that
an alias found stale stays stale; and that a deletion frees the name of a record
that is gone.

Only model-checked: liveness, which is out of the prover's reach; the refinement of
`SandboxLifecycle`; `Settled` and the properties about routes, VMs, records and
holds; `CpuDelivered`, `NeverNotFound`; the network slots, the volumes' contents and
the artifact cache.

## 8. Not modelled

- The storage layer: the LSMT format and index and the id allocator are sequential
  data structures; the ublk daemon's device lifecycles depend on the kernel driver,
  whose behaviour the source does not state; ublk and userfaultfd are kernel
  interfaces.
- The image cache graph and its collector: it walks images and layers on disk that
  the image builder, a sequence of external commands, publishes.
- The watch channel of the metadata store: waiting tests the record.
- The snapshot catalog, template builds, repositories, the peer-to-peer transport,
  the HTTP layer, the Redis scripts and the command-line tools: sequential requests
  and I/O.
- Inside modelled parts: read-only mounts, volumes made from another volume
  (`fromVolume`) or restored from snapshots, the volumes of a forked child, and build
  caches; `try_acquire_where` of the warm pool, which only the ublk daemon calls; node
  metrics, the artifact index and listing calls of the scheduler; the
  commands that build a slot's network; network policies, extension parameters,
  metrics and events of the orchestrator.
