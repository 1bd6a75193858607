# mc2 in TLA+

mc2 runs services as microVMs on one host.  A user hands the server a stack
document (`mc2 up`); the server plans and commits it to its store; a node loop
compares the store with the microVMs that exist, every few seconds, and creates,
recreates and removes microVMs until they agree.  This directory holds TLA+
models of that machinery, the TLC configurations that check them, and proofs
that TLAPS checks.  Paths are relative to the repository root; `node/` stands
for `crates/mc2-server/src/node/`.

## 1. Inventory

| Component | Source | State it keeps | Operations |
|---|---|---|---|
| Node loop | `node/mod.rs`, `node/lifecycle.rs`, `node/state.rs`, `node/report.rs` | `owned`, `owned_seeded`, per-instance `InstanceRuntimeState` (hash, backoff, health) | a pass: seed ownership, build the desired set, collect orphans, reconcile each instance, close listeners, publish |
| Health probes | `node/health.rs` | streak, generation, `health_ok`, pending probe | spawn, discard stale, take completed, recreate on failure |
| Desired state | `desired.rs`, `secrets.rs`, `networks.rs` | none (reads the store) | split rows into desired and failed |
| Runtime backend | `mc2-runtime/src/msb_sdk.rs`, `restart.rs`, `spec_hash.rs` | the microVMs, labelled with the install id | `ensure_running`, `ensure_removed`, `list_owned` |
| Store | `mc2-store/src/sqlite.rs`, `memory.rs` | stacks, instances, host port claims, secrets, tokens | one transaction per `commit_stack_plan` / `delete_stack`; single-row updates |
| Apply path | `apply.rs`, `api/stacks.rs` | the apply lock | check capacity, allocate ports, check exposes, commit, schedule |
| Scheduler | `scheduler.rs` | none | pick a node for a pending row, residual capacity |
| Network table | `network_serve.rs` | expose bindings, held listeners, backends | prepare, ensure listeners, update backends, close missing, splice |
| SSH listeners | `ssh_serve.rs`, `ssh.rs` | listeners, sessions | open, reopen, close missing, serve |
| HTTP ingress | `ingress.rs`, `ingress_files.rs`, `mc2-runtime/src/ingress_render.rs` | rendered files on disk | plan, render, write, remove |
| Supervision | `lib.rs`, `liveness.rs` | critical tasks, shutdown flag, last pass | spawn, watch, stop, `/health` |
| Bootstrap | `bootstrap.rs` | install id, secrets key, first token, on disk and in the store | create once, deliver once, reuse, rotate |
| REST API | `api/*`, `http_serve.rs`, `auth.rs`, `limits.rs` | connections, capped | decode, authorise, call the above |
| Stack documents, names | `mc2-api/src/stack/`, `mc2-runtime/src/naming.rs`, `spec.rs` | none; a service's declaration is stored as JSON and decoded again by every pass | decode, validate, name |
| Volumes and disk | `node/disk.rs`, `mc2-api/src/disk.rs`, `naming.rs` | a directory per volume, cached samples, notes in the instance's message | measure, mount with a quota, annotate, refuse to shrink |
| CLI | `crates/mc2` | a context file without a lock | set up, choose a context, send requests |

How they interact: API handlers write the store under the apply lock; the node
loop reads the store without that lock and writes only observed state and the
applied hash; the two meet only in the store.  The loop calls the runtime
backend, which talks to microVMs that outlive the server process.  The network
table, SSH table and ingress files are updated by the loop in each pass and used
concurrently by accept loops.  Nothing orders an apply with a pass, a pass with
a microVM's exit, or either with the server's death.

What is hard here is listed as `hazards` in `PROJECT.json`, each at the line where
it bites, with the properties that cover it.  What makes each part correct:

- **Node loop.**  It never loses track of a microVM it created; the configuration
  it believes a microVM runs is the one it runs; it touches nobody else's microVM
  and none whose wanted state it could not resolve; a microVM that is what the
  store asks for is left alone, across server restarts too; orphans go, and an
  instance left alone ends up running what its row asks for.
- **Health and restarts.**  A verdict is about the VM that runs; a VM is replaced
  only after it failed its retries; restarts are spaced; no instance is given up.
- **Apply path, store, scheduler.**  No host port is given out twice; the claims
  table says what the instances say; what runs may be applied again unchanged;
  nothing is placed beyond capacity.
- **Service networks.**  Egress is open only to ports this server listens on; a
  connection reaches only the port's owner; names are in the guest that runs; nothing
  starts before what it waits for, and everything is served in the end.
- **Store.**  Statements of several callers, and a crash after any of them, leave the
  tables as if every operation were one step; a placement names this node.
- **Documents and specs.**  What validation accepts can start, is read back from the
  store as it was declared, and reaches the guest unchanged.
- **Volumes.**  A guest writes no further than the declared size; the notes an
  operator reads are what the disks hold.
- **SSH, ingress.**  A listener accepts exactly the current keys of a VM that runs;
  the proxy's file describes the last plan and, in the end, a replica that serves.
- **Supervision, bootstrap.**  A dead or stuck loop shows; shutdown ends; a server that
  answers can read its secrets.
- **Tokens, contexts.**  The operator has the token or knows to rotate it; a replaced
  token runs nothing; the context file is always usable.

## 2. Plan

In the order of importance: a microVM that is lost, doubled or wrong is the worst the
server can do, then a port or a CPU given out twice, then an instance nobody can
reach or that never starts, then a server nobody can run or log into.

| Module | Models | Role |
|---|---|---|
| `SandboxRuntime` | `msb_sdk.rs`, `restart.rs` as the loop sees them | every way `ensure_running` and `ensure_removed` can end |
| `NodeReconcile` | `node/mod.rs`, `node/lifecycle.rs`, `node/health.rs`, apply and delete as the loop sees them | the loop over several instances, with crashes |
| `DesiredState` | - | abstract: what comes up is what a sampled plan says |
| `InstanceLifecycle` | `node/lifecycle.rs`, `node/health.rs`, `node/state.rs`, `restart.rs` | one instance in time: backoff, clocks, probes |
| `ServiceMesh` | `network_serve.rs`, `networks.rs`, the gates of `node/lifecycle.rs`, `node/report.rs` | splices, backends, injected names, start order |
| `SpecNames`, `ServiceSpecs` | `stack/decode.rs`, `validate.rs`, `schema.rs`, `naming.rs`, parts of `apply.rs`, `msb_sdk.rs` | a declaration's way into its guest |
| `StackDocument` | `validate_depends_on` | the cycle search, step by step |
| `HostPorts` | `apply.rs` | port allocation and claims, as operators |
| `StackApply` | `apply.rs`, `api/stacks.rs`, `scheduler.rs`, `sqlite.rs` | apply and delete over the store |
| `MemoryStore` | `memory.rs`, the `Store` trait | abstract: every store operation is one step |
| `SqliteStore` | `sqlite.rs`, `bootstrap.rs` | the same, statement by statement |
| `Volumes` | `node/disk.rs`, `mc2-api/src/disk.rs`, `msb_sdk.rs` | a volume's quota and its notes |
| `SshServe` | `ssh_serve.rs`, `ssh.rs`, `api/ssh.rs` | keys, listeners, sessions |
| `IngressFiles` | `ingress.rs`, `ingress_files.rs`, `ingress_render.rs` | backend selection and two files |
| `ServerProcess` | `lib.rs`, `liveness.rs`, `http_serve.rs`, `bootstrap.rs` | start, health, shutdown |
| `OperatorAccess` | `bootstrap.rs`, `auth.rs`, `context.rs`, `setup.rs`, `cmd/server.rs` | token, contexts, requests |
| `NodeReconcileProofs`, `InstanceLifecycleProofs`, `ServiceMeshProofs`, `StackApplyProofs`, `SqliteStoreProofs`, `ApplyPathProofs`, `ServerProofs` | | theorems (`ApplyPathProofs`: `ServiceSpecs`, `StackDocument`, `Volumes` and the parts of `MCApplyPath`; `ServerProofs`: the parts of `MCServer`) |
| `FiniteSums` | | lemmas about sums over finite sets, folds over sequences and numbers |
| `MCNodeReconcile`, `MCInstanceLifecycle`, `MCServiceMesh`, `MCStackApply`, `MCServiceSpecs`, `MCApplyPath`, `MCServer` | | symmetry, documents, forms, waits and compositions for TLC |

`NodeReconcile` uses `SandboxRuntime` (EXTENDS) and instantiates `DesiredState`
under the refinement mapping `DS`; `SqliteStore` instantiates `MemoryStore` under
`Memory`; `StackApply` extends `HostPorts`, `ServiceSpecs` extends `SpecNames`.
`NodeReconcile` has the whole set of instances and one bit of backoff;
`InstanceLifecycle` has one instance and its clocks; `ServiceMesh` has the ports
and who waits for whom, and takes the VMs' configurations as they are.

`MCApplyPath` and `MCServer` put modules that share no state side by side in one
run: `part` picks, in the initial state, the one that takes steps, and the others
stand still in their initial state, where their properties hold or are guarded.
The fairness of each is stated for its own part.  This says nothing about their
interaction, which for these modules is none: each has its own tables, files or
sockets.

Not done, in the order in which they would add most:

1. `StackApply` and `NodeReconcile` composed over one store: `Apply`, `Schedule` and
   `Delete` of the second as an abstraction of the first.
2. Removal of a sandbox by somebody else in `InstanceLifecycle`: `ensure_running`
   then answers `Created` with `running_since` still set.
3. Volumes shared by replicas, and the disk budget of apply.

## 3. The modules and the code

`map` in `PROJECT.json` gives the lines of every definition.

### SandboxRuntime

A sandbox name is free, ours, or somebody else's (`Holder`), with the create-time
configuration a sandbox of ours was made from and its phase.  `RemoveResults` and
`EnsureResults` are sets of results, one per way the calls can end: the VM left
behind, the outcome, and whether a failure of the backend was needed.
`ensure_running` never compares the configuration of a sandbox that exists with
the one it was asked for; the loop has to.  `Creating` is folded into running, and
`create_detached` is atomic.

### NodeReconcile

| State | Code |
|---|---|
| `rows`, `applying`, `resolvable` | the instances table, an apply between commit and `run_scheduler`, the secrets |
| `vms` | microsandbox's sandboxes, which outlive the process |
| `owned`, `seeded`, `hash`, `backoff` | `NodeRuntimeState`: `owned`, `owned_seeded`, each `InstanceRuntimeState`'s `spec_hash` and whether `next_restart_ok` is in the future |
| `binding` | `NetworkTable.exposes`, keyed by instance id |
| `pc`, `snap`, `stale`, `todo`, `cur`, `want` | where `reconcile_pass` is: its snapshot, what is left to collect and to reconcile, the instance in progress and its configuration |

One pass is `StartPass` (`ensure_owned_seeded`), `BuildDesiredSet`, one
`CollectOrphan` per stale id, `FinishGC`, then for each desired instance
`HoldInstance` (an early return) or `PrepareInstance`, `RemoveForRecreate`,
`EnsureInstance`, `PersistHash`, `PassHealth` or `FailHealth` and
`ReviveUnhealthy`, and `EndPass`.  Each is the code between two awaits that other
actors can get between.  Applies, deletes, secrets, VM exits, other users of the
sandbox store and `CrashRestart` interleave with every one of them.

Abstractions: an apply or a delete touches one slot at a time (a row is all the
loop reads); `Schedule` binds every pending row; a pass visits instances in any
order (the code sorts by exposure and service); the configuration stands for its
hash; observed-state writes are left out, since the loop does not read them back
within the properties here; a `depends_on` or listener gate is a choice
(`Gated`).

### HostPorts and StackApply

`HostPorts` translates `resolve_replica_ports`, the expose checks and the claims as
functions of the stored instances and a document.  `StackApply` puts them under the
apply lock: `BeginApply`, `PlanStack` or `RefuseApply`, `Commit` or
`CommitConflict` (one transaction), `ListPending`, one `BindNext` per pending row,
`FinishApply`; `DeleteStack`; `Cancel` for a request dropped between two awaits;
`NodeReports` for the phases the node loop writes meanwhile.

Abstractions: CPUs stand for CPUs and memory, and `Capacity` for the smaller of the
node and the operator's limit; the one node is always ready; `skipped` is history, read
by no action: what an apply or a scheduling counted for nothing; fixed SSH ports, the
disk budget, volumes and the host profile check are left out; whether a program
outside holds a port the probe looks at is a choice; `list_pending` yields rows in
any order.

### InstanceLifecycle

`st` is the instance's `InstanceRuntimeState`: restart count and wait, the clocks
`running_since` and `last_health` as ages, the failure streak, the probe with
whether its generation is current.  A pass reads the clock once (`node/mod.rs:224`):
`st` is as of that reading, `lag` is how old the reading is, and everything a turn
writes is relative to it.  `EndPass` catches up.  `past` is history no action reads:
what really happened to the VM that runs, and when the instance was last tried.

A turn is `Backoff` or `BeginTurn`; `RemoveForRecreate`; one of the four answers of
`ensure_running` (`EnsureLeaves`, `EnsureCreates`, `EnsureRestarts`, `EnsureFails`);
one of the outcomes of `run_healthcheck`.  The probe's task ends (`ProbeEnds`)
whenever it likes, in the middle of a later turn or after the VM is gone, and may
die without an answer.

Abstractions: one instance; times in ticks, ages and counters capped where the code
stops telling them apart; the early returns for `depends_on`, listeners and ports
(which leave `st` alone) are left out, and so is the probe of a disabled
healthcheck; nobody else removes the sandbox.  A pass may take any time:
`MaxLag` only caps how old its reading of the clock can be told to be, and in the run
is the whole sustained time.  Since a VM's age is counted from that reading, one a slow
pass boots at its end is forgiven its restarts before it has run for 60 s itself
(`Forgiven`); `RestartsSpaced` says what the code keeps to, and section 4 what its
comment says.

### ServiceMesh

| State | Code |
|---|---|
| `bind` | `NetworkTable.exposes` and the publish index built from it |
| `hostsKey`, `splices`, `backends` | `NetworkTable.hosts_key`, `.splices` (a live task, a finished one), the shared backend registry |
| `started`, `well`, `backoff` | `InstanceRuntimeState`: `started`, `health_ok`, `next_restart_ok` |
| `live`, `stored` | `InstanceLiveness` of the pass, and what the store seeds it with |
| `seenUp`, `lingering` | history, read by no action: up since its row was inserted; deleted, and no pass has dropped its state since |
| `foreign` | loopback ports another process holds |

A pass is `StartPass`, `EnsureListeners`, then for each instance in the loop's order
(exposing ones first, then by name) `HoldBack`, `BackOff`, `RefuseToStart` or
`BeginTurn`, `RemoveForRecreate`, `FindRunning`, `BringUp`, `FailToBringUp` or
`ReplaceUnhealthy`, `ObserveRunning`, and `EndPass`, which replaces the backends.
`SpliceGivesUp`, `ForeignTakes`, `VMExits`, applies, deletes, secrets and
`CrashRestart` interleave with them.

Abstractions: one port per service; the configuration stands for the hash, and that
adoption trusts a right one is `NodeReconcile!HashTruthful`; `restart: no`, failing
store reads and failing health recreates are left to `NodeReconcile`; the publish
index is part of `bind`; aborting a splice takes its connections with it;
`Creating` is folded into running; late probes and ports taken by others are bounded
faults; an instance deleted under a pass is not applied again before the pass ends.
`started` is kept per runtime id and dropped by a pass that finds row and VM gone; a row
deleted and inserted again before that inherits it, and its first VM skips the gate of
`depends_on`.  `DependenciesFirst` names that one case (`Inherits`).
`Reuses = FALSE` assumes that the system does not hand out a port the table still
remembers; if it does, a stale backend may reach another service's VM until the pass
ends.

### SpecNames and ServiceSpecs

One key of a document at a time: `DecodeYaml` (the form is refused or becomes a
value), `ValidateStack`, `PlanSpec` (the apply handler completes it with ports and
volume sizes and stores it as JSON), `ReadStored` (the node decodes the JSON with the
same lenient decoders), and the operators of `create_detached` that say what the guest
is given.  Abstractions: a character is its class; `Kilo` stands for 1024 and small
bounds for the builder's, so that rounding, clamping and the limits are met by small
numbers; `SpecFormed` says which kinds and shapes YAML and serde's types leave of each
key's form, and `FormsAreFormed` that the constant's forms have them; numbers of 2^32 and
more are left out; strings without structure (image,
labels, secrets) are left out; `HeadTwice` excludes a healthcheck whose argv starts
with one of compose's own words (section 4).

### StackDocument

`validate_depends_on` with its recursion as a stack of frames.  `docVerdict` is the
outcome; the property relates it to the node's gate (`ServiceMesh!Held`).

### MemoryStore and SqliteStore

`MemoryStore` has one action per operation of the trait.  `SqliteStore` has the same
tables, one SQL statement per step: `Begin...` and the step that writes, for the
operations that read first; one step for the two transactions and the single
`UPDATE`s; `ServerStart` in the order of `lib.rs` (install id, cluster row, node row, node
id); `Crash` after any of them.  A call's arguments and what it read are in `call`.
`RegisteredNodes` is the mapping: a node row counts once its id is persisted.
A start may come under any name.  `strays` is history, read by no action: the node rows
of starts that died before they persisted the id and were followed by one under another
name, which does not find them.  The `apply` part of the same run has tables of its own, with less
detail.

### Volumes

`volUsed` is what the directory holds, `volVm` the VM with the size it was created
for, its quota and what it found; `volSample` is the node's cached measurement;
`volMsg` is the message in the instance's row, line by line.  A pass is `VolStartPass`,
`VolEnsure`, `VolAnnotate`, `VolPublish`.  Abstractions: one replica (replicas that
share a volume each get their own allowance, as `storage.mdx` documents); "ended"
merges stopped and failed; a report's text is never empty, since an empty one keeps
the old message (`COALESCE`); microsandbox charges a quota beyond what the directory
holds at the start (external, `msb_sdk.rs:197`).

### SshServe, IngressFiles, ServerProcess

`SshServe`: the API's writes, `BeginPass` and `Resolve`, `ReconcileSsh` per instance,
`CloseMissing`, the accept loop (`Connect`, `Handshaked`, `Transfer`, `DeadlinePasses`,
`SessionEnds`) and `SocketDropped`, since an aborted listener gives up its port a
moment later.  The keys of one instance are resolved in one step.
`IngressFiles`: `PlanRoutes`, `ReportPhases`, `ProbeRoute`, then `Unchanged` or
`WriteCatalog` and `WriteProxy`, `PersistReports`; `WriteFails` and `ServerDies` anywhere.  A
file is the set of pairs of key and backend it stands for.  `DistinctRouteKeys`
assumes that route keys differ; validation compares them within a document only.
`ServerProcess`: `Launch`, the boot steps up to `SpawnTasks`, the two critical tasks,
`Stop` by signal or by a task's end, `Joined`, `AbortRemaining`, `Exit`, `Killed`.  A secret
is known by the key that sealed it; one process at a time uses the directory.

### OperatorAccess

`oprHash`, `oprFile` are the stored hash and the token's file; `oprShown`, `oprLost`,
`oprDead` are history: which tokens an operator has seen, which died with their
process, which a rotation replaced.  `oprConfig` is `~/.mc2/config.toml`, `oprTmp` the
temporary file beside it.  `oprCmd` says what each shell runs: a server's start
(`FindCluster`, `InitCluster` or `InitFails`, `DeliverOnTerminal` or `CreateTokenFile` and
`WriteTokenFile`, `BindRest`), a rotation (`Rotate`, `PrintToken`), an edit of the contexts
(`LoadAndEdit`, `OpenTmp`, `WriteTmp`, `RenameTmp`) or a request (`SendRequest`, `RequireAuth`,
`Respond`).  `Dies` ends any of them anywhere.  Abstractions: a token's number stands
for it and its hash; a URL is safe or plain; there is one REST address, so one server
is up; a dead command's temporary file has a pid no later one has; a lost update
between two edits at once is allowed, an unusable file is not; `PlanStarts` leaves out
hostnames that are none, which the wizard does not look at.


## 4. What is checked

Five runs pass; seven find a disagreement with the documentation.

| Run | States | Shows |
|---|---|---|
| `node_one` | 927,832 | one exposing, probed slot with every event there is and three faults: `OwnershipComplete`, `HashTruthful`, the inductive `IInv`, `ForeignUntouched`, `UnresolvedKept`; `ImplementsDesiredState`; with fairness `OrphansRemoved`, `ConvergesToSpec` |
| `lifecycle` | 1,699,055 | one instance in time under two policies: `HealthyIsTrue`, `RestartsSpaced`, `OnlyUnhealthyReplaced`, the inductive `LInv`; with fairness `Revived`, `BecomesHealthy` |
| `mesh` | 1,526,032 | a database and a cache that waits for it: `FailClosed`, `BindingsTrue`, `RoutesToOwner`, `DependenciesFirst`; with fairness `EventuallyServed` |
| `apply`, part specs | 43,662 | every key in many forms, decoded twice: `AcceptedReachesGuest` |
| part document | 18,529 | `depends_on` of three services: `AcceptedDocumentsStart` |
| part store | 563,045 | four operations of two callers with a crash: `ImplementsMemoryStore`, `NodeKeepsItsPlacements` |
| part apply | 128,797 | eight documents of two stacks in any order: `ClaimsMatchRows`, `PortsExclusive`, `ReapplyStable`, `CapacityRespected` |
| part volumes | 217,966 | one volume, its guest and the passes: `FreshQuotaCaps`; with fairness `NotesSettle` |
| `server`, part ssh | 58,734 | keys, conflicts, dying accept loops, slow clients: `RevokedKeysOut`, `SlowClientsLeave`, `SshEventuallyOpen` |
| part ingress | 228,775 | two replicas, failing writes and crashes: `ProxyCurrent`, `EventuallyRouted` |
| part process | 44,300 | three processes on one directory: `SecretsReadable`, `ShutdownEnds`, `HealthHonest` |
| part operator | 79,212 | two shells: `OperatorGetsIn` |

`PathTypeOK` and `ServerTypeOK` are the types of the parts of `apply` and `server`; those
of the other modules are conjuncts of `IInv`, `LInv` and `BindingsTrue`.

**Bounds.**  Faults: three in `node_one`, since the deepest interaction of the loop
(a lost removal, a server crash, a failed lookup of the hash) takes three; one in
the others, whose interleavings multiply.  VM exits are not bounded in `lifecycle`,
whose passes may be as long as the sustained time.
`node_one` has two specs, to tell right from wrong, and three ids, for an old, a
current and a new row; one slot is enough for what a pass does to an instance, and
what instances do to each other is in `mesh` and, for every number of slots, in the
proofs.  `mesh` has both roles (provides and waits, consumes), both kinds of port
and three ephemeral ports, so that a VM, its successor and a contested one differ.
`apply`'s documents take four automatic ports for up to four publishes, so that the
pool runs out and blocks run past the end; they move a fixed block, drop a target,
expose what the other stack publishes, grow, are placed elsewhere or pinned here, and
one exposing service is `restart: no`: a state in which it, or the pinned one, takes more
than the node has is among those the run goes through.  The store
part has one row of each table per key and two of each name: a lost race needs two
callers on one row.  Volumes hold nothing, 900 or 1,200 MiB of a declared 1,000 or
1,200: below, above and exactly at the limit, with 90 and 99 % crossed.  `server` has
a rotation between two values, one place per listener and two in all; two
replicas; three starts for a first, a lost key and a recovery; two tokens for a
first and a rotated one; two edits for two at once.

**Fairness.**  `PassStep`, `SshPassStep`, `IngPassStep` and `VolPassStep` are weakly fair
because the ticker starts passes for ever and every call of a pass returns or fails;
in `ServerProcess` a pass may hang, and none is assumed there.  `Schedule`: an apply
handler runs to its end.  `Tick`, `SrvTick`, `BackoffElapses`, `SampleAges`,
`DeadlinePasses`: time passes.  `ProbeEnds`: the probe task runs under a deadline
(`node/health.rs:44-52`).  `SocketDropped`: an aborted task is dropped.  `SrvShutdown`: the
shutdown's own steps, each of which `drain_or_abort` bounds.  Nothing is assumed of
users, guests, failures or other processes; the liveness properties state what they
need of them (`<>[]Settled`, `<>[]Wants`, a guest that stops writing), and bounded
faults give the end of faults.

Deadlock is checked in `node_one`, `lifecycle` and `mesh`.  In `apply` and `server` bounded
calls, edits and starts, an answered document and a spec that was read may really
be the end.

### Where code and documentation disagree

Each of these runs checks one property and finds it violated; the finding in
`PROJECT.json` quotes the text.

- `node_torn` (`HashTruthful`): when the write of a new VM's hash is lost and the spec is then set
  back, the stale VM is adopted.
- `node_getfails` (`OwnershipComplete`): a failing lookup counts as a removal, and ownership is dropped.
- `node_restart` (`NoNeedlessRecreate`): after a server restart an unchanged exposing sandbox is recreated,
  because its ephemeral port is chosen anew and is part of the hash.
- `apply_twoauto` (`PlanCommits`): two services of one new document, each with an automatic port,
  are given the same port; the store's backstop refuses every apply of it.
- `lifecycle_exposed` (`RestartsSpaced`): a crash loop of an exposing service is never spaced: it is
  removed for its dead ports and comes back as `Created`.
- `mesh_names` (`NamesInGuest`): a VM replaced within one pass is a new guest under the remembered
  key, and never gets the names of the services it may reach.
- `volume_restart` (`VolumeSizeCaps`): a VM started in place keeps the quota it was created with, on top
  of what the volume holds by then.

Seen on the way, without a run:

- *Node loop.*  An unresolved secret drops the expose binding (`network_serve.rs:434`),
  so an exposing VM is recreated when the secret returns.  A `restart: no` instance past
  its retries is reported `Failed` only in the pass that collects the last probe.  The
  backoff gate reports `Creating` for whatever the VM does.  `node/mod.rs:208` says pruning
  keeps state from leaking into a later instance reusing the name: a stack deleted and
  applied again before the next pass inherits `started`, restart count and backoff of
  its old instances, so a new row's first VM can come up before what it depends on
  (`lifecycle.rs:46`).  `lifecycle.rs:286` resets the restart counter "after sustained
  Running": the clock is the pass's, so after a pass of 60 s or more it is reset for a VM
  that has just booted (`lifecycle.rs:295`).  `lib.rs:624` says the node
  loop stops at the next await point; a pass runs to its end or is aborted.
- *Apply.*  Ports of another service of the same stack count as taken (`apply.rs:193`);
  a new `ssh.port` is not compared with existing expose claims.  One target published
  automatically over tcp and udp is refused when applied again, because stored ports
  are looked up by ordinal and target without the protocol (`apply.rs:196`), though
  `ports-expose.mdx:77` calls an assigned port stable.  The same holds of two services
  of one document, one with an automatic tcp port, one with an automatic udp port: both
  get the same number, which the store's claims allow, and from then on each finds its
  own port taken by the other (`apply.rs:193`, `apply.rs:251`).  `ApplyDocs` has neither
  document; `ReapplyIsStable` excludes them.
  A `restart: no` instance, the default, counts as holding no capacity while down:
  `scheduler.rs:138` says that policy "leaves a Failed/Stopped instance down for good".
  But one that exposes a port is created anew when its port does not answer
  (`lifecycle.rs:166-204`), and one whose stack was applied again with a new spec while it
  ran is recreated; what took its room meanwhile stays, and the node is overbooked.  A
  pinned instance (`node_name` of this node) is bound whatever is left
  (`scheduler.rs:30`): pinned rows of an apply cancelled between commit and schedule hold
  no capacity, another apply takes it, and the next scheduling binds them all the same.
  The run `apply` goes through both; `CapacityRespected` says that nobody else is ever
  beyond the node, and that an apply of its own stack accounts for an instance again.
- *Documents.*  A `healthcheck.test` argv whose first word is `cmd`, `cmd-shell` or `none`
  means something else when the stored spec is read back.  `depends_on: {db:
  service_healthy}`, a string for a value, becomes `service_started`.  `mem_limit: 0`, an
  unbounded `mem_limit` (clamped to `u32::MAX`) and a port target 0 are accepted; an
  interval of 2^32 or more is truncated.  A hostname of `ports[]` is not compared for its
  route key in a document without an ingress block, though `overview.mdx:197` and
  `CHANGELOG.md:155` say so.
- *Networks.*  `select_backend` keeps a running replica whose port never accepts, if
  the service has no healthcheck.  One missing secret of a provider aborts its splice
  (`networking.mdx:107-110`).
- *Ingress.*  `catalog.json` can stay stale: its write succeeds, the proxy's fails, the
  routes change back, and the fingerprint equals the last one (`ingress_files.rs:129`).
  The fingerprint also leaves out the instance and ordinal of a ready route.  Route keys
  of two stacks can be equal (`shop` with `api.example.com`, `shop-api` with
  `example.com`); `validate.rs:476` compares one document's.
- *SSH.*  The observed row stays Open when an instance is held back or failed, and a
  listener held back by `depends_on` keeps its keys; sessions of a closed listener go on.
- *Store, bootstrap.*  A crash between `init_cluster` and the token's delivery, or a
  failing write of the hostname or of the token's file, loses the first token; `mc2
  server token rotate` recovers.  Two first starts at once can leave the serving process
  with an install id the other one overwrote.  A crash inside `write_private` leaves a short key
  file that blocks later starts.  `mc2-store/src/lib.rs:50` says the stable id means that a
  rename "never strands placements": a crash in the first registration, followed by a
  rename, leaves a second node row that stays Ready, and the scheduler may bind instances
  to it (`scheduler.rs:21-64`), which no loop reconciles.  The `public_hostname` setting outlives the flag,
  and `/v1/status` goes on reporting it.
- *CLI, disk.*  Two `mc2 context set` at once lose one edit.  The wizard prints a command
  with a hostname the server refuses.  A volume declared under 64 MiB is reported full as
  soon as it is not empty (`mc2-api/src/disk.rs`, 64 MiB left counts as full).

## 5. What is proved

TLAPS checks every theorem for all values of the constants that satisfy the named
assumptions; these state that subsets are subsets, sentinels differ and numbers
are numbers, that documents are what validation lets through (`DocsAreValid`), that a
key's forms have the shapes its type leaves (`FormsAreFormed`), that
route keys differ (`DistinctRouteKeys`), that the backoff never shrinks, and that a start
period is at most the sustained time.

**Node loop.**  `TypeCorrect`.  `OwnershipIsComplete`, by `OInv`: a pass runs only
after ownership was recovered, and a created sandbox is owned for the rest of its
turn; without these a step of the turn could lose the ownership the invariant
speaks of.  `HashIsTruthful` and `LoopInvariantHolds`, by `IInv`: the memory's hash is
right only if the persisted one is (adoption trusts it), and that one only if rows
inserted after the snapshot have none and the turn in progress has the configuration
it began with.  `ForeignSandboxesUntouched` and `UnresolvedSandboxesKept` are action
properties: `PassTouches` says which one sandbox a step can change, and
`StaleAreAbsent` that nothing unresolved is on the collector's list.
`NoRecreateWithoutNeed`: with no service that exposes a port, a sandbox that is what
the store says is never recreated but for its health; `node_restart` shows why only
then.  `Refines`: every step of the loop is a step or a stutter of `DesiredState` under
`DS`; it needs `IInv`, because only a sandbox whose hash is truthful is left running.
`OwnershipIsComplete` assumes that lookups do not fail, `HashIsTruthful`,
`NoRecreateWithoutNeed` and `Refines` also that writes are not torn: `node_getfails` and
`node_torn` show that both are needed.

**Store.**  `StatementsAreOperations`: every statement of `SqliteStore` is an operation
of `MemoryStore` or changes nothing, under the mapping `RegisteredNodes`, for any number
of callers, calls and crashes.  It rests on `StoreInv`: types; `Registered`, that
the id persisted, or about to be, names a row that is no stray, and that every other
row is one; `RowsFollow`, that dependent rows (SSH, network) have their instance and
a used id is never born again; and `ReadsStand`, that what a call in progress has read
still decides the same.  `PlacementsStay` follows from the same invariant.

**Apply path.**  `ClaimsMirrorRows` and `PortsAreExclusive`, by `PInv`: claims match
rows and their keys are unique, no instance lists a port twice, and a plan names
only the stack being applied, so that replacing a stack's rows and its claims go
together.

**Lifecycle.**  `StateMatchesVM`: `LInv` is inductive.  `ClocksMatch` ties the
sustained-running clock to the VM (set only while one is there, never older than
it), `HealthMatches` ties verdicts, streak and the current probe to what probes of
this VM said, `RestartsMatch` says that the count and the wait cover the tries
that really happened.  `HealthyIsTruthful` is a part of it;
`OnlyUnhealthyAreReplaced` follows from the streak and the clock;
`RestartsAreSpaced` holds for services without exposed ports, and
`lifecycle_exposed` shows why only for them.

**Ingress, process.**  `ProxyStaysCurrent`: the fingerprint is set only after both
writes, so if it equals the routes found, the proxy's file is theirs, or the last pass
failed after it.  `ServedSecretsReadable`, over `ServerTypes`: all stored secrets are
sealed with one key, which is why one trial decryption stands for all of them, and a
missing file makes a new key only when nothing is stored.

**Operator.**  `OperatorAlwaysGetsIn`, from three invariants.  `TokenInv`: the numbers
held by commands and the stored one were made, and the stored one is shown, in the
file, held, or lost; a token's file is overwritten only by a start that inserted the
row, and no other start can.  `RevokedInv`: a request whose token was already
replaced when it was sent carries one of the replaced tokens, and the stored one is
never among them, so it does not pass the check.  `ConfigInv`:
whatever is about to be renamed over the file is whole and its current context
exists, because a temporary file belongs to one command.

**Service network.**  `EgressFailsClosed` and `BindingsAreTrue`, by `MeshInv`.
`TurnsMatch` says that only instances of the pass's desired set whose turn has come are
reported Running in it; `VMMatchesTurn`, that from the recreate decision to the end of a
turn a VM that is there has the rules and the publish the turn is about; `TurnsListen`,
that the listeners a turn checked are not closed under it.  Without them the step that
reports an instance Running could speak of another VM than the one its gates were about.
`DependenciesComeFirst` adds `SeenMatches` (whatever says that an instance runs, it has
been up since its row was inserted) and `GatePassed` (a first start past the gate found
its dependencies up); `StartedMatches` says that `started` is about the row there is now or
else `lingering`, so that the theorem's exception is no wider than it says.
`ConnectionsReachOwner`, by `PortsInv`: an ephemeral port serves
one exposed port at a time, whichever of bindings, backends and running VMs remembers it.
It assumes `~Reuses`, that the system does not hand out a port the table still
remembers, as the run does; section 3 says what happens otherwise.

**Capacity.**  `AcceptedAppliesFit` and `CapacityIsRespected`, over `StackApplyTyped`,
for every document.
What fits is a sum over replicas, so `FiniteSums` first proves what such sums are: the
fold of the community modules is a function defined recursively on subsets, it exists, is
unique, and adds up disjoint sets, each by a smallest counterexample among the subsets
(`SmallestSubset`), since induction theorems with an operator parameter cannot be used.
`FitInv`: what is accounted for fits; so it does, of the other stacks, beside what an
accepted plan needs and, once that is committed, beside all rows of its stack; and while
the scheduler binds, what is accounted for and what it has left fit.  What plan or
scheduler leave out of their sums is not accounted for from then on (`RecordedFits`), so
that an instance that is down and comes up changes no sum.  Only `restart: no` and pinned
instances can be left out (`OnlyTheseSkipped`); section 4 says how they overbook.

**Re-apply.**  `ReapplyIsStable`: applying what a stack runs is not refused for its ports
and changes none of its rows.  Ports are allocated by a fold over the requests, which
`GrantsUp` unrolls: the allocation is what one grant after another makes of nothing
(`AllocationGrants`).  A port is `Fair` if it is its request's candidate after the ports
before it, and free; a complete allocation is fair (`AllocatedIsFair`), and a fair
sequence is the allocation (`FairIsAllocated`), so that it is enough to show that the
ports a stack has are fair.  `KeepInv` is the invariant: each stored stack's rows are
made of ports no two alike, the fixed ones as numbered, that all else leaves free
(`Keeps`).  A commit keeps it for the stack it writes, whose services' claims have to
differ, and for the others, whose ports and exposes the new plan was checked against
(`PlanKeeps`, `OthersKeep`); the store then remembers for each automatic request the port
it has (`Remembered`).  The two hypotheses are about documents, the runs' documents
satisfy them, and both are needed.  `OneTargetEach`: an automatic entry's target is no
other entry's of its service, since ports are remembered by target without the protocol
(`apply.rs:196`).  `OneProtocol`: services of one document publish with one protocol,
since `taken` does not tell protocols apart and the claims do (section 4).

**Documents and volumes.**  `SearchIsRight`, by `DocInv`: the frames of the search are a
path of dependencies, each is through with all it depends on but the next frame, and
the services that are done have an order (`DoneInOrder`, extended by each service the
search leaves).  An accepted document has that order; a cycle is on the stack, and the
service of it that would start first depends on another one.  `FreshQuotasCap`: a VM
that was not started in place has the quota that was left of its size when it found what
it found.

**A key's way into its guest.**  `AcceptedKeysReachGuests`: `AcceptedReachesGuest`, for
every form of every key, every text and every bound, by `SpecInv`: what a key's value is
of at each stage, that what is stored is the encoding of a completed accepted value, and
that no stored spec is unreadable.  Its last step is the round trip, `StoredDecodes`, one
lemma per decoder (`CpusKept`, `SizesKept`, `DurationsKept`, `PortsKept`, ...): what is
known of a decoded value, and that the stored form decodes to it and nothing else, but
for the `HeadTwice` argv of section 4.  The rest is what the stages mean.

- *Commands* (`SplitQuoted`): quoting words and splitting the text gives the words back.
  `split_command_string` is a fold over the characters.  The fold, defined by recursion
  over sets of places, is shown to exist and to have a trace (`FiniteSums`: `FoldTrace`),
  so that it can be read character by character and cut in two (`FoldAppend`,
  `FoldConcat`); then a quoted character pushes that character (`RunQuotedChar`), a
  quoted word becomes a word (`RunQuotedWord`), and quoted words become words
  (`RunQuoted`), each of the last two by a shortest counterexample.
- *Names* (`StackParsesBack`, `ServiceParsesBack`, `VolumeParsesBack`): the first `--` of
  a joined name is the one it was joined with, since an accepted name has none and no
  half of one at its end (`ParsedBack`).  A suggestion is acceptable
  (`SuggestionsAccepted`), as its fold and both trims keep names `Clean`.
- *Routes* (`KeysCounted`): distinct keys make a bijection from the places of the list
  of routes.

`PathTyped` states the types of all five parts in `PathSpec`, and `PathSafe` everything
else the run `apply` checks but liveness, in the composition: a step of it is a step of
one part and a stutter of the others, so that what is proved of a part holds there
(`PathParts`).

**Server.**  `ServerPartsTyped`: the types of the four parts in `MCServer`'s
specification.  `SshInv` adds to the types of SSH's registry, overrides and listeners what a
pass has resolved so far: key values, and the names it found them under.  `ServerSafe`:
what **Ingress, process** and **Operator** prove of their parts, in that specification.

Every invariant and every action property of the passing runs is stated by a theorem,
under the hypotheses named above where there are any.  Only model-checked are the
liveness properties, since fairness and ENABLED are out of TLAPS's reach here
(`OrphansRemoved`, `ConvergesToSpec`, `Revived`, `BecomesHealthy`, `EventuallyServed`,
`NotesSettle`, `RevokedKeysOut`, `SlowClientsLeave`, `SshEventuallyOpen`,
`EventuallyRouted`, `ShutdownEnds`, `HealthHonest`), and the violations of section 4.

## 6. What is left out

- Rows a cancelled request left unbound hold no capacity, and the next scheduling
  may bind them before those of the apply it belongs to: `AcceptedFits` is about the
  moment of the commit.
- A sandbox that somebody else removes while the instance's clocks run
  (`lifecycle.rs:289`): `InstanceLifecycle` has no such removal, `NodeReconcile` has
  it without clocks, and their product is beyond what a run can go through.
- The disk budget, fixed SSH ports and the host-profile check of apply; replicas that
  share a volume; several exposed ports per service; ingress bindings of the node's own
  publishes; bytes and half-closes of a spliced connection.
- What an authenticated SSH session, `exec` and log streaming do: the SDK's and I/O.
- Sealing of secrets (cryptography), host metrics (read-only sampling), certificates
  and the migration of an old database, the text of rendered files, logs and errors.
- The CLI's commands other than contexts, setup and `server`: each is one request and
  its output.
- The end-to-end tests, read as evidence of what is intended.
