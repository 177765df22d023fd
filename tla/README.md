# Verification of cluster-api-provider-wxone

Formal models of the Cluster API infrastructure provider for WX-ONE, checked
with TLC and, where it matters for every instance, proved with TLAPS. Paths are
relative to the root of the repository; `C:` stands for
`internal/controller/wxonecluster_controller.go` and `M:` for
`internal/controller/wxonemachine_controller.go`.

## The system

The provider is one manager process (`cmd/main.go`) with two controllers. Each
has one worker (`MaxConcurrentReconciles` is not set), so passes of the same
controller never overlap, while everything around a pass goes on meanwhile.

| Component | State it keeps | Operations |
|---|---|---|
| WXOneCluster reconciler (`C:`) | none of its own: spec, status and finalizer of the WXOneCluster | `Reconcile`, `reconcileNormal` (finalizer, login, project, network, floating IP, key, endpoint), `reconcileDelete` |
| WXOneMachine reconciler (`M:`) | the WXOneMachine, the pre-drain hook annotation of the Machine | `Reconcile`, `reconcileNormal` (hook, finalizer, login, gate, flavor, image, instance, floating group, wait for RUNNING), `reconcileDelete` (withdraw and unhook, or withdraw, destroy, remove the finalizer) |
| Watches and work queue | queue, informer caches (controller-runtime) | `SetupWithManager`, `WXOneClusterToWXOneMachines` |
| WX-ONE client (`internal/controller/clients.go`) | a session cookie per pass | `NewWXOneClients`: challenge, login, `me` |
| GraphQL operations (`internal/controller/generated.go`) | none; the resources live in WX-ONE | create, delete and get calls |
| Cloud-init user data (`M:55-86`, `M:189-258`) | none | `cloudInitYAMLToJSON`, `addPersistentLoAddressToCloudInit` |
| Admission webhooks (`internal/webhook/v1beta1`) | none | validation of create and update |
| API types, conversion, deep copy (`api/v1beta1`) | | |
| Start-up, manifests, templates, tests | | |

The controllers interact only through objects at the API server (a machine
reads the network, project, key and floating IP the cluster recorded; Cluster
API turns the ready flag of the WXOneCluster into the infrastructure-ready flag
a machine waits for) and through WX-ONE. Around them act Cluster API (owner
references, bootstrap data, the drain, the deletion of infrastructure objects),
users who delete, and the informers that bring the caches up to date.

What makes this hard:

* the only memory is the status of an object, written by two unconditional
  merge patches after the call it records; the process may end in between;
* a pass decides on a cached copy that may lack what the previous pass wrote;
* a deletion may be asked for at any moment of a pass;
* `Patch` compares with the copy taken when the pass began, never with the
  object, and its second request is sent even when the first one failed;
* deletions are acknowledged by answers whose error field nobody reads;
* the hook makes the provider and Cluster API wait for one another;
* a machine is built on ids another controller recorded, read from an informer
  of its own, and outside any transaction;
* answers are decoded into pointers and lists that nobody checks before use,
  after the call has had its effect;
* what the specs promise (one project, an immutable image) is kept by webhooks in
  front of the API server, not by the reconcilers.

What makes the components correct: nothing is created before the finalizer is
at the API server; every resource that exists is known to the object or to the
pass about to record it; the object outlives its resources; what is announced
ready works; traffic is withdrawn before an instance goes; and a deletion
completes. The hazards are listed in `PROJECT.json` at the lines where they
bite, each with the properties that cover it.

## Modules

### `ResourceLifecycle`

The promise both reconcilers make, without sections, patches or passes: an
object is open, guarded (finalizer), leaving or gone; one resource of each kind
it needs at most is acquired, only while the finalizer is there; the object is
announced with all resources present; resources are released only while leaving; the
finalizer goes when none is left.

### `ClusterController`

One WXOneCluster. `api` is the object at the API server and `cached` the
informer's copy; `obj` is the copy a pass works on and `before` what
`patch.NewHelper` remembered of it. `pc` is the section of the pass, named after
what it is about, and `step` tells the work of the section from the two requests
of the `Patch` that ends it. `cloud` holds the resources that exist in WX-ONE.

| Action | Code |
|---|---|
| `Start`, `StartFails` | `Reconcile`, C:64-96; `FirstSection` chooses between normal and delete |
| first section: `PatchMain`, `PatchStatus` | finalizer, C:111-117 |
| `GetClient`, `GetClientFails` | credentials and login, C:119-137 and C:264-282 |
| `GetProject` | C:139-147 (in memory until the next patch) |
| `Create`, `CreateLost` | C:158-212, one section per kind |
| `Delete`, `DeleteLost` | C:284-337 |
| `SkipSection` | a section whose `if` is false |
| `CallFails` | an error return of a call, or the panic of a nil client |
| `Finish` | C:214-247 and C:339-349 |
| `PatchMain`, `PatchStatus`, `PatchStatusFails` | `patch.Helper.Patch` |
| `Deliver`, `Resync` | C:354-370 and the informers |
| `SetOwner`, `RequestDelete`, `Crash` | Cluster API, a user, the end of the process |

Network and subnet are recorded and cleared together, and the address of a
floating IP is recorded with it; each pair is one id. The deletion only clears the
id of the floating IP (C:312) and leaves its address in the status, where nothing
reads it any more: only `reconcileNormal` does, and a deletion is final. Ids are
numbers handed out in order, 0 is the empty string.

The endpoint written at C:225-236 is always the floating IP: C:220 has just
overwritten the endpoint of the Cluster's in-memory copy that C:230-236 prefer.

### `MachineController`

One WXOneMachine with the Machine that owns it, control plane or worker
(`controlPlane`, settled by the initial state). In
addition there are the copies of the Machine (`machine`, `mcached`, `mcopy`), the
infrastructure-ready flag, the instances, those that are running, and the
entries of the floating group. The sections of `reconcileNormal` are hook,
finalizer, client, gate, flavor, image, instance, route and running; those of
`reconcileDelete` client, owner, withdraw, then unhook or destroy, and finish.
`CreateInstance` includes the reading of the bootstrap secret, whose failure is
the same to the pass as that of the call. A `NotFound` of the owner Machine
(M:131-134) is an error return like any other failing read. The environment is narrower than it may be in one point: once
a single Machine is being deleted, its Cluster is not deleted as well
(`DeleteMachine`).

The Machine is written with `Update`, which carries the resource version that
was read: `UpdateHook` only succeeds if the Machine did not change since.

### `System`

Both controllers together, `C` and `M` being instances of the two modules above
over one budget and one WX-ONE: one WXOneCluster, one machine, two workers. A
step of the composition is a step of one of them, with what they share added:

| Action | Adds |
|---|---|
| `StartMachine`, `StartWithoutCluster` | the pass reads the WXOneCluster from its informer (`known`, M:161-170) or, not finding it, ends without an error |
| `MachineWorker`, `CallRefused` | the ids each call takes from `known`; the calls of a machine declare them `UUID!`, so one with an empty id is refused |
| `InfraReady` | waits for the WXOneCluster at the API server to be ready |
| `DeliverCluster`, `Requested` | the watch of WXOneClusters, `WXOneClusterToWXOneMachines` (M:620-652): its requests carry the names of Machines, which need not be those of the WXOneMachines |
| `DeleteCluster` | Cluster API deletes the WXOneCluster after the Machines |
| `Crash` | ends both workers: there is one process |

There is no resync and no failing read here, so that what a run shows does not
rest on the ten-hourly resync. Nobody but Cluster API deletes the two objects.

### `CloudInit`

`cloudInitYAMLToJSON` and `addPersistentLoAddressToCloudInit` (M:55-86,
M:189-258) and how `createInstance` chains them (M:390-405), as operators on
documents: header or not; nothing, null, text that is no YAML, a list or a
mapping; and of a mapping the two lists `write_files` and `runcmd`. An entry
is what it does (`Names`) with the address in it, 0 if there is none, and
`Documents` is the set of all documents, of any length: TLC gets a few of them
from `CloudCalls`, the theorems speak of all.

### `Admission`

The validators of `internal/webhook/v1beta1` as predicates on an old and a new
spec, with `ENABLE_WEBHOOKS` as a constant.

### `CloudCalls`

Every GraphQL operation the reconcilers use and the login before it, each an
action named like the operation. A pass makes a list of `calls`; one is skipped
if the status says it is done (`Due`). The arguments come from the specs (which
`Admission` let in), from `ids` and from `CloudInit`; the answers are the sets
`...Response`: what a caller can find in what `generated.go` decodes. `Optional`
is a pointer or a list that may have nothing in it; using it panics after the
call has had its effect. `DueNext` says that an operation is the first that is
not skipped, `NothingDue` that none is left.

A machine takes the ids of its cluster from the WXOneCluster it read at the start
of its pass (M:163-168), while it reads from the Cluster, another object, that the
infrastructure is ready (M:318). `seen` is what the informer has of the
WXOneCluster's status, `Deliver` brings it up to date sooner or later, `Start`
takes the `copy` a pass works with, and `Sent` says where an argument comes from.
An argument may be empty then, and the call is made all the same; WX-ONE refuses it
(`Complete`), and the pass ends as after any call that fails (`CallFails`).

What is simpler than in the code:

* Passes run one after the other, and the patches between the calls succeed;
  interleavings, failing patches and crashes are the matter of the modules above.
* `Deliver` gives the informer what is recorded at that moment, and only as long as
  there is a machine to read it. The WXOneCluster itself is always found there; the
  silent end of a pass that does not find it (M:168) is in `MachineController` and
  `System`.
* A machine's own object is current, and so is the Cluster: one that is behind
  would only make the pass wait, while the hazard is a WXOneCluster that is behind
  it.
* The withdrawal of a route ends the pass, as it does with the hook on. The branch
  without the hook (M:563-571) is left out: as no patch fails and nobody else
  touches the Machine, a recorded route has its hook. `MachineController` has the
  branch, and `HookGuardsRoute` says when it is taken.

### `ClusterController_proofs`, `MachineController_proofs`, `System_proofs`, `CloudInit_proofs`, `CloudCalls_proofs`

The theorems about the module each is named after, see below. `Counting` holds
what they need about the size of a finite set that gains one element.

## Assumptions about what is not in the repository

* **`patch.Helper`** (Cluster API v1.9): sends what differs between `before` and
  `obj`, first metadata and spec, then the status, both without a resource
  version. A section without a difference sends nothing. The second request is
  tried after a failed first one; errors are aggregated. An object that is gone
  is no error when the finalizer was being removed.
* **Cluster API** deletes a WXOneMachine after the Machine's pre-drain hooks are
  gone and its Node is drained. If the Cluster is being deleted or the Machine
  has no Node there is neither hook nor drain to wait for. (For the last control
  plane Machine of a Cluster, Cluster API does not drain either; that case
  behaves as a Machine without a Node.)
* **controller-runtime** puts an object back in its queue after an error or a
  panic, with a finite back-off; resyncs every ten hours; and after a restart
  lists the objects before the first pass.
* **The schema**: the ids of a request are `UUID!`, but for the project of
  `createNetwork`, `createKey` and `deleteKey`, which is a `UUID` that may be
  absent. The client sends an empty string like any other value, also there (it
  leaves out a nil pointer only), and WX-ONE is assumed to refuse it because it is
  no UUID. By `MissingIdsOnlyBehind` this only ever concerns `getImageList` and
  `createInstance`, where the project is `UUID!`.
* **WX-ONE** creates exactly one new resource per creation. `MissingIsError` says
  whether the deletion of what is not there is an error; the repository only
  guesses (M:568). Deleting an instance does not take it out of the floating
  group, which is why the code does that itself (M:563).

## Disturbances and bounds

What may go wrong is a set of kinds, `Disturbances`, spent from one budget of
`MaxDisturb`; this is the only bound, and with it the number of ids is finite,
because only a disturbance makes a pass create something twice. Without
disturbances a run is still full of interleavings: the deletion, Cluster API's
steps, watch events and resyncs fall between any two steps of a pass.

| kind | meaning |
|---|---|
| `crash` | the manager ends at any step and starts again |
| `stale` | a pass starts on a copy that is behind |
| `read`, `auth` | a Get fails; the login fails |
| `me` | `NewWXOneClients` returns neither an error nor a client |
| `call` | a call fails before it has an effect |
| `lost` | a call has its effect and the pass fails |
| `inband` | a deletion is refused inside the answer |
| `patch` | the API server does not accept a request |

Every flaw found needs one disturbance or none, so that budgets of two and
three leave room for one to hit the recovery from another. `read`, `auth`, `me`
and `call` have no effect outside the pass; they are called benign below.
`budget.misread` remembers that a pass started on a copy that was behind.

`CloudCalls` has bounds of its own: `MaxBad` answers that are bad or lost,
`MaxEdits` edits of a spec or a template, and a `Quota` on the resources of a
kind, which is what stops a spec without subnets from creating networks for
ever. Twelve `Situations` vary project, subnets, image catalogue, bootstrap
data and Secret one at a time, because the code looks at each of them in one
place only. A quota of two lets one bad answer leave one thing behind and the
retry succeed.

## Runs

Passing runs:

| Run | Checks | Shows |
|---|---|---|
| `ClusterSafe` (benign, 3) | `NoOrphans`, `CleanedUp`, `ReadyHasEndpoint`, `ImplementsLifecycle` | failing calls never cost a resource, whenever the deletion comes |
| `ClusterFaults` (all kinds, 3, fair) | `TypeOK`, `CreateUnderFinalizer`, `LeakBounded`, `EndpointStable`, `Provisioned`, `DeletionCompletes` | the finalizer comes first, also on stale copies; without one, a disturbance costs one resource at most and the endpoint never moves; in the end the cluster is ready or gone |
| `MachineSafe` (benign, 2, control plane and worker) | `NothingLeftBehind`, `ReadyIsServing`, `ImplementsLifecycle`, `RouteWithdrawnFirst`, `ProviderIDStable` | nothing left in WX-ONE, and the order route, instance, finalizer, for every way to delete |
| `MachineFaults` (all kinds, 2, control plane) | `TypeOK`, `CreateUnderFinalizer`, `LeakBounded`, `HookGuardsRoute` | the finalizer comes first; without stale copies, one thing left per disturbance at most, and a recorded route keeps its hook |
| `MachineLive` (7 kinds, 1, fair, Cluster or WXOneMachine deleted) | `Provisioned`, `DeletionCompletes` | ready, or gone |
| `System` (nothing fails, fair, no resync) | `GetsReady`, `AllGone` | watches and retries suffice to get cluster and machine ready in any order of events, and a deleted Cluster leaves nothing in WX-ONE even if a repeated deletion is an error |
| `SystemFaults` (`crash`, `call`, `lost`, `inband`, `patch`, 1) | `TypeOK`, `ClusterOutlivesMachine`, `BuiltOnCluster`, `RoutedToEndpoint` | what a machine stands on goes after the machine; an instance is only created on ids that exist, and traffic only routed to the endpoint, although the WXOneCluster is read from an informer that may be behind |
| `CloudCalls` (12 situations, 1 bad answer, 1 edit, quota 2, fair) | `TypeOK`, `InNamedProject`, `BuiltToTemplate`, `UserDataOnce`, `MissingIdsOnlyBehind`, `LeakBounded`, `Provisioned`, `DeletionCompletes` | what is in WX-ONE is what the templates ask for, in the project they name, with the user data once and unharmed; a call only misses an id if the machine read its cluster before that was recorded, and then the machine has no instance on record; each bad answer leaves one thing at most; and it ends |

`SystemFaults` is the largest, about 3.8 million states. One disturbance hits any
step of either worker there, with the other worker, the informers and Cluster API
at any point; combinations are left to the runs of the single controllers.

The safe runs use a cloud in which a repeated deletion is an error, the harder
assumption for safety; the others use one in which it is none, since otherwise a
deletion whose answer was lost does not complete.

Runs that end in a counterexample, each a disagreement of the code with what it
says of itself (quoted under `findings` in `PROJECT.json`):

| Run | Violates | Because |
|---|---|---|
| `ClusterCrashLeak` | `CleanedUp` | a crash between a creation and its patch (C:170) |
| `ClusterNilClient` | `ClientUsable` | clients.go:140 returns `err` where it means `meErr` |
| `MachineDrainDeadlock` | `HookUnpauses` | the hook waits for the deletion that waits for the hook (M:552); no disturbance is needed |
| `MachineNotDrained` | `DestroyAfterDrain` | the pass after the early exit does not wait for the drain (M:559); no disturbance is needed |

Why the properties are checked under the conditions they have, found with the
same models and other constants:

* `CleanedUp` also fails with one `stale` (a pass on a copy from before the last
  patch creates everything again, C:68) or one `inband` (a refused deletion is
  taken for done, C:286). `LeakBounded` says how much is lost.
* `RouteWithdrawnFirst` fails with one `crash` between `createFloatingGroup` and
  its patch (M:452).
* `DeletionCompletes` fails with one `crash` if a repeated deletion is an error: a
  withdrawal that was not recorded is retried for ever (M:536).
* `AllGone` fails with one `inband` (the network of a cluster is given up under
  an instance that was not deleted) and if the WXOneCluster is deleted directly,
  before its machines: it goes with all it has, and the passes for the machines,
  not finding it, end without ever deleting anything (M:169).
* `RoutedToEndpoint` allows for no endpoint at all: with a half-failed patch the
  infrastructure is announced ready, and a machine built, before there is one.
* `RoutedToEndpoint` fails with one `stale`: a pass of the cluster controller on a
  copy from before the last patch creates a second floating IP (C:68).
* `LeakBounded` of `CloudCalls` leaves out a spec without subnets, which the
  schema allows: each retry creates a network (C:168) until the quota is used up.
* `ReadyHasEndpoint` and `ProviderIDStable` fail with `patch`: the two requests of
  a `Patch` are not one, so a cluster may be announced before its endpoint is
  written, and an instance may be replaced when its id was lost.

### Fairness

`FairSpec` assumes weak fairness of the steps of a pass, of its start when the
object is queued, and of the delivery of watch events; the queue retries for
ever. For machines it also assumes that Cluster API does its part, that
instances come up, and that every object is resynced: a pass that cannot read
the WXOneCluster ends without an error (M:168), and only the resync is left.
Users are not assumed to do anything, and disturbances are finitely many.

`System` assumes the same of both workers, the informers and Cluster API, without
the resync, and that the user creates the WXOneCluster at some time or deletes
the Cluster. `CloudCalls` assumes strong fairness of the start of a pass for
either object, since the real workers do not wait for each other as the passes of
this module do, weak fairness of `Deliver`, since an informer catches up sooner or
later, and that somebody completes a Secret that lacks something.
`DeletionCompletes` of `CloudCalls` is about both objects at once: whenever one is
leaving, there comes a moment at which none is. A deletion that is stuck would
keep that moment from coming, since only its end leads out of it.

`MachineLive` leaves out the deletion of a single Machine, which does not
complete (`MachineDrainDeadlock`).

## Theorems

### The controllers

The two proof modules hold for every set of disturbances, every budget and both
answers of WX-ONE to a repeated deletion, that of the machine also for every way
to delete it, unless a theorem says otherwise. "Benign" theorems assume that only
reads, logins and cloud calls fail (`Disturbances \subseteq Benign`); the
counterexamples above show why the others must be excluded. The arguments are the
same for both controllers.

* `TypeCorrect`: `TypeOK`, together with `Sections` (a pass only patches in the
  sections that have a patch), which is what makes it inductive: `After` has to
  be defined where it is applied.
* `FinalizerFirst`: `[]CreateUnderFinalizer`. The property speaks of a moment in
  the middle of a pass, so the invariant `FinInv` has to say how it came about.
  `CacheInv` relates the cache to the object: a copy may be behind, but gone and
  deleting are final, and a finalizer, once seen, stays until the object is
  deleted by a pass that knows it is leaving. `PassInv` follows the finalizer
  from the copy that was read to the end of the first patch: a pass on a copy
  without it gets beyond that section only if the patch was accepted. For the
  machine it also says which half of the reconciler a section belongs to.
* `EndpointFinal` (cluster, all disturbances): `EndpointStable`. `EndpointInv`
  says that the endpoint that is written is the floating IP that is recorded
  (`Published`), and how a pass keeps this although it writes the two in different
  requests of different sections: the endpoint only differs from what was read in
  the last section, whose predecessors have been patched or the pass would have
  ended.
* `HookBeforeRoute` (machine, all disturbances): `[]HookGuardsRoute`. `HookInv`
  follows the hook from the Machine to the pass's copy of it: a normal pass goes
  on only with the hook on, and one that deletes takes the hook off only after the
  withdrawal has been patched.
* `NothingOrphaned`, `ObjectOutlivesResources` (benign): `[]NoOrphans`,
  `[]CleanedUp` of the cluster and `[]NothingLeftBehind` of the machine. The
  invariant `OwnInv` says that ids are handed out once, that between passes the
  object knows everything and without the finalizer there is nothing, and that in
  a pass its copy knows everything, and where the copy differs from the object it
  differs from the snapshot too, so that the patch will write it. The last part
  carries the id from the creation to the object through a patch that compares
  with a snapshot and not with the object. For the machine `OwnInv` is exact: what
  exists *is* what is recorded (`CloudIs`), and in which order (`SyncInv`).
* `ReadyReports` (cluster), `ReadyServes` (machine), `WithdrawnFirst`,
  `ProviderIDFinal` (machine; all benign): `[]ReadyHasEndpoint`,
  `[]ReadyIsServing`, `RouteWithdrawnFirst`, `ProviderIDStable`. For the cluster
  `ServeInv` adds to `OwnInv` that what is recorded exists, and in which of the two
  requests endpoint and announcement reach the object.
* `LifecycleImplemented` (both, benign): `ImplementsLifecycle`, that is, every
  step maps to a step of `ResourceLifecycle` or to a stutter. The cloud calls are
  acquisitions and releases; the first request of a patch guards or removes, the
  second announces; everything else is invisible.

* `LeaksBounded` (both, all disturbances): `[]LeakBounded`. The property counts
  at a moment between passes, so what is counted must make sense in the middle of
  one. `Forgotten` is what the `Holder` does not know, the holder being the
  pass's copy while there is a pass and the object otherwise. `TrailInv` says that
  object and copy agree on every record but the one of the section that is not
  patched yet, and that the finalizer only goes when nothing is recorded; so a
  pass that dies forgets one thing at most. `PaidInv` then says that what is
  forgotten and what is left of the budget are no more than there was. It needs
  one thing besides: a `Patch` of which the first request failed has spent its
  disturbance, but forgets something only when it ends, so until then one of what
  was spent is still to be used. Like the property, both say nothing once a pass
  has started on an old copy (`budget.misread`).
* `GroundInvariant` (cluster, all disturbances but `stale`): until somebody deletes
  the WXOneCluster, every id it records exists and is never replaced, the copy of
  the informer has each of these ids or none yet, and neither has the key without
  the network and the floating IP. This is what a machine relies on.

### The composition

`System_proofs` makes `System` an instance of the two proof modules, so that every
lemma about one controller can be cited for its part of the composition. `Steps`
and the lemmas after it say what a step of `System` is: a step of one controller
that leaves the other's variables alone (a *frame*), a crash, which is a step of
both, a call that is refused, or one of nobody. What the two share, the budget,
the ids and the request in the machine's queue, the other may change at any time:
`ClusterFrame` and `MachineFrame` show that the invariants of a controller do not
mind. The bridging lemmas at the beginning only say that a definition of one
instance is the same definition in the other.

* `TypeCorrect`: `[]TypeOK`, for every set of disturbances.
* `SystemInvariant`: the invariants of both controllers that hold under every
  disturbance (`FinInv`, `TrailInv`, `EndpointInv`, `GroundInv`; `FinInv`,
  `HookInv`, `TrailInv`, `PaidInv`), and what ties them, `LinkInv`: as long as
  there is a Machine nobody has deleted the WXOneCluster, and the ids a pass for the
  machine holds are those of the informer, or fewer, the key never without the
  rest.
* `ClusterLast`: `ClusterOutlivesMachine`. A resource of the cluster only goes
  after the WXOneCluster was deleted, hence without a Machine, hence without a
  WXOneMachine; what is left of instances and routes then is `Forgotten`, and has
  been paid for.
* `BuiltOnWhatExists`: `BuiltOnCluster`. The creation of an instance is refused
  without a key, the key is recorded last, and what is recorded exists.
* `RoutesLeadToEndpoint`: `RoutedToEndpoint`, from `EndpointInv`.

All but the first assume that no pass is started on an old copy
(`"stale" \notin Disturbances`), as the run does. The condition is needed: one
such pass of the cluster controller creates a second floating IP, and TLC finds
`RoutedToEndpoint` violated. It does not concern the copy of the WXOneCluster a
pass *for the machine* reads, which may be as old as it likes.

### User data and cloud calls

* `AddressAddedOnce`, `UserDataSent` (`CloudInit_proofs`): for every document, of
  any length, that the conversion accepts, what is sent begins with the files and
  commands of the document, and holds the address in exactly one of the entries
  after them if the machine is one of the control plane, nowhere otherwise.
* `CallsInvariant` (`CloudCalls_proofs`): `CallsInv`, that is `TypeOK`, how far the
  two objects and the pass have come (`LifeInv`), in which order ids become known
  and are forgotten (`IdsInv`), and what the informer and the machine's pass can
  have read of them (`SeenInv`): each id, or none yet, and none without those that
  are recorded before it. With it `TypeCorrect`.
* `EmptyIdsOnlyBehind`: `[]MissingIdsOnlyBehind`. No id is checked before it is
  sent. The cluster's own are known by the order of its calls, and because it looks
  up the project again that a failing pass forgot. Those a machine has read may be
  empty, but only when it has no instance yet: an instance takes a copy with the
  key, which is recorded last; an id that has been seen is not replaced as long as
  there is a machine; and whatever is read later is no older. So nothing is
  missing when a route is made or withdrawn or an instance looked up or deleted.
* `CreatedInProject`, `AsTheTemplateAsks`: `[]InNamedProject`,
  `[]BuiltToTemplate`, from `WebInv`, under `Webhooks`: the manager may be started
  without them, and then an edit of a spec goes through.
* `UserDataComplete`: `[]UserDataOnce`. `DataInv` adds to `UserDataSent` that the
  address an instance was sent is the one the cluster has, for as long as the
  instance is recorded.
* `LeaksBounded`: `[]LeakBounded`, under `Webhooks`. `LeakInv` counts as above,
  bad answers instead of disturbances; ids are handed out once, so each answer
  that is lost leaves one resource.

These hold for every quota, every number of bad answers and edits. TLC checked
each of the inductive invariants above on the constants of a run as well (for
`DataInv` with a bound on the address, which it takes from all of `Nat`).

### Only model-checked

Liveness and everything that rests on fairness (`Provisioned`,
`DeletionCompletes`, `GetsReady`, `AllGone`) is out of reach of the prover. Every
invariant, every action property and both refinements that a passing run checks
are stated by a theorem.

## Not modelled, and why

* Several clusters or machines: objects share no state in the controllers, and
  passes of one controller do not overlap. What a cluster and its machines share
  is in `System`.
* Deep copies and conversions (`zz_generated.deepcopy.go`, the hub markers): a
  copy of a value is the value, as it is everywhere in the models. The generated
  functions have no other behaviour.
* `getFloatingIP`, `getFloatingIPAttachment`, `getKey`, `getNetwork`, `updateKey`
  and `updateNetwork` of `generated.go`: nothing calls them. Of the operations that
  are called, the getters and the marshalling are abstracted to what a caller can
  find in an answer; they are the larger part of that file.
* The predicates and mappers of Cluster API that `SetupWithManager` uses are
  library code; `Deliver`, `DeliverCluster` and `Resync` have their effect.
* The defaulters and the validators of deletions, which do nothing.
* An instance in status ERROR: the code treats it as one that is not up yet.
* Edits of a provider id after it was written: nothing in the code repairs them.
* Which values a half-filled Secret takes from the environment of the manager:
  the mixture logs nobody in.
* Logging, names, RBAC, certificates, metrics, flags, manifests: no property is
  about them.
* The paused annotation and condition reporting: the code does not look at them.
* Two manager processes at once: leader election is controller-runtime's.

## Plan

The order follows the importance for the system. Done: the two controllers, their
common abstraction and the proof that both implement it; their composition; the
cloud calls with the login, the user data and the webhooks; the invariants of
both controllers, the bounds on what they leave behind, the composition and the
cloud calls proved. Left:

1. Proofs: for the composition too, that nothing is orphaned if only calls fail
   (`OwnInv` of both controllers), and the invariants of `ResourceLifecycle` itself.
2. `System` with two machines that share the floating group, and `SystemFaults`
   with two disturbances; both are beyond minutes of model checking as it is.
3. The interleaving of the two workers in `CloudCalls`.

## Running it

    tlc -config ClusterSafe.cfg ClusterController
    tlc -config MachineSafe.cfg MachineController
    tlc -config SystemFaults.cfg System
    tlc -config CloudCalls.cfg CloudCalls
    tlapm ClusterController_proofs.tla
    tlapm MachineController_proofs.tla
    tlapm System_proofs.tla
    tlapm CloudInit_proofs.tla
    tlapm CloudCalls_proofs.tla

Every `.cfg` belongs to the module its name begins with, `Cluster...` and
`Machine...` to the two controllers. Definitions marked
"mutant" stand for a plausible bug; each is paired in `PROJECT.json` with the
property that notices it.
