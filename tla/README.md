# A TLA+ model of the Flyt adapter

The Flyt adapter stands between OpenStack and the Flyt GPU virtualisation
cluster. Nova tells it about VMs; for every VM whose flavor asks for a GPU
profile it keeps one *session*, admits it against a quota and the GPU capacity,
creates it at the Flyt Cluster Manager with a bootstrap token, hands that token
to the guest through vendor data, and takes everything back when the VM goes.

This directory holds TLA+ modules translated from the Python sources, TLC
configurations that check them on small instances, and TLAPS proofs for every
value of the constants. Source paths below are relative to the repository root
(`src/flyt_adapter/` unless another directory is given).

## 1. The system

### Processes

The Helm chart (`deploy/helm/flyt-adapter/templates/deployment.yaml`) starts one
pod, one replica, with up to three containers over the same SQLite file:

| container | entry point | work |
|---|---|---|
| `adapter` | `http.py` | a `ThreadingHTTPServer`: prebuild, rollback, admissions, events, vendor data |
| `nova-notifications` | `messaging.py` | an oslo.messaging listener that feeds `events.py` |
| `reconciler` | `__main__.py`, `reconcile.py` | a loop: session pass, port pass, sleep |

Each container builds a `FlytLifecycleService` of its own. It has its own lock
(`threading.RLock`), its own quota reservations and its own set of active tokens,
all three rebuilt from the rows when the container starts. **The only things the
containers share are the rows and the services they call**, and no lock spans two
containers.

Each of them calls Neutron, Nova and Placement. The backend of all three is the Cluster
Manager and, with GPU Cells, Kubernetes; but the chart mounts the socket of the manager and the
Kubernetes token into `adapter` only (`deployment.yaml:67-72`, `100-101`, `123-125`). In a
pod of this chart a start, or a delete of a session that has a backend session, raises in the other two
containers every time: the operations end the way the models have them end when the manager
refuses. The models are about containers that can reach what they call, as the
code itself is written for; what is said of the repair loop's liveness needs a manager the loop reaches.

### Components

| component | state | operations | what makes it correct | model |
|---|---|---|---|---|
| session lifecycle (`service.py`, `fakes.py`, `models.py`) | the record of each instance; quota and capacity reservations; active tokens | `admit_build`, `instance_active`, `delete_instance`, `abort_build`, `bootstrap_token` | quota and inventory are exceeded only by sessions whose end could not be recorded; a guest is served the token the manager has; each admission is a new generation; nothing is left behind by a delete | `Lifecycle`, `SessionContract`, `LifecycleProofs` |
| session store (`storage.py`) | the rows | whole-row read and write, one transaction each; either may raise | a row is always one some operation wrote; what goes wrong between containers goes wrong only where operations overlapped | `SharedStore`, `SharedStoreProofs`, `SharedStoreQuotaProofs` |
| process start (`http.py` `Application.build`) | none of its own | rebuild from the rows | a restart neither drops nor resurrects a reservation | `Lifecycle`, `SharedStore` |
| Cluster Manager backend (`flyt.py`) | sessions at the manager | `UPSERT_SESSION`, `DELETE_SESSION`, refresh | see lifecycle | `Lifecycle`, `SharedStore`, `GpuCells` |
| Nova notifications (`events.py`, `messaging.py`) | none; no requeue | four event types | losing, repeating or reordering them is repaired | `Reconciliation`, `ReconciliationProofs` |
| session reconciler (`reconcile.py`, `__main__.py`) | a snapshot of the records, the statuses asked for | `run_once`, the loop | never deletes the session of a living VM; ends the session of a VM that is gone; starts that of one that runs | `Reconciliation`, `ReconciliationProofs` |
| service ports, orphan reclaim (`network.py`, `reconcile.py`, `http.py`) | the Neutron ports of a VM | `ensure`, `get`, `delete`, `list_managed`, `run_once` | a VM keeps its port; the port of a VM that is gone is reclaimed; one port for a VM unless prebuilds overlap | `ServicePorts`, `ServicePortsProofs` |
| GPU Cells (`kubernetes.py`, `flyt.py`) | a ResourceClaim and a Pod for each profile | `ensure`, `get`, `delete` | the Pod keeps its claim unless containers create it at once or an error status is wrong; retries take up what is left; READY means there is a node | `GpuCells`, `GpuCellsProofs`, `Offerings` (which cell) |
| Placement capacity (`openstack.py`) | none; reads Nova's allocation | `reserve` | as in lifecycle | `Lifecycle` |
| HTTP boundary (`http.py`, `serialization.py`) | none | request handlers | as in ports and lifecycle; a vendor-data answer never has the token of an earlier life than its generation | `ServicePorts`, `Lifecycle`, `SharedStore` (partly) |
| Nova and Glance catalogs (`openstack.py`) | none | reads | statuses may be old when used | `Reconciliation`, `ServicePorts` (partly) |
| Placement inventory sync (`openstack.py`, `__main__.py`, the Job of the chart) | provider generations, inventories, traits, aggregates in Placement | `ensure_profile` for each profile | a pool is visible only when it is whole; nobody else's aggregate is lost; an interrupted sync is completed by the next | `PlacementSync`, `PlacementSyncProofs` |
| configuration (`config.py`, the ConfigMap of the chart) | what each container loaded | `load`, once, at the start | what is admitted can be created; sessions survive an edit of the file | `Offerings`, `OfferingsProofs` (partly) |
| protocols, injection, the rest of the deployment | none | rendering, typing | | not modelled (section 7) |

### What is hard here

- Three containers change the same rows with private locks. `instance_active`
  is a read, a write, a call of up to five seconds, and a second write.
- Every call of the manager may take effect and its reply be lost, and each
  container may be killed between any two steps, and the write of a row may raise.
  The order *revoke, call, free, write* decides what a failure leaves.
- Reservations live in memory, and sessions in rows: the two must agree after
  failures, aborts and restarts.
- The reconciler acts on a snapshot and on statuses that are older than the
  rows and ports it changes, while notifications change them, too.
- Notifications are lost when their handler raises (`allow_requeue=False`), and
  an exception in the reconciler ends the process, in the session pass before any
  port was looked at.
- Neutron and Kubernetes are used with check-then-act pairs of requests.
- The Placement sync is up to a dozen requests for each profile, each conditional on
  a generation that Nova's own claims advance, and any error ends the attempt.
- A configuration is loaded once. After an edit the containers of one pod
  run different ones, while Placement still has the inventory of the old one and sessions of
  removed offerings live on.

`PROJECT.json` lists these as hazards, each at its line, with the properties
that are about it.

## 2. The modules

```
SessionStates                       states of a record and the groups the code tests for
  +- FlytModel                      instances, offerings, rows, the manager's sessions
  |    +- SessionContract           abstract: what the adapter promises of a session
  |    +- Lifecycle                 one process, one action per operation   --- implements SessionContract
  |    |    +- MCLifecycle          values of the constants for TLC
  |    |    +- LifecycleProofs      theorems
  |    +- SharedStore               several containers, one action per shared access; each unraced
  |         |                       session alone                             --- implements SessionContract
  |         +- MCSharedStore
  |         +- SharedStoreProofs    theorems
  |              +- SharedStoreQuotaProofs
  +- Reconciliation                 Nova, late notifications, the reconciler's session and port passes
  |    +- ReconciliationProofs      theorems
  +- GpuCells                       claim, Pod, node, and the sessions on a cell, request by request
  |    +- GpuCellsProofs            theorems
  +- Offerings                      the configuration file, who loaded which, and the sessions under it
       +- MCOfferings
       +- OfferingsProofs           theorems
ServicePorts                        Neutron ports, handler threads, orphan reclaim, request by request
  +- ServicePortsProofs             theorems
PlacementSync                       the Job that offers the profiles in Placement, request by request
  +- PlacementSyncProofs            theorems
```

The modules divide the system by *grain*. `Lifecycle` takes an operation as one
step because the lock makes it one, and says everything about its outcomes.
`SharedStore` opens the operation at every access to what is shared.
`Reconciliation` and `ServicePorts` take a session operation as one step again
and are about the order of operations between Nova, the bus, the handlers and
the reconciler. Each header says which module answers for what it leaves out.

### Lifecycle: state and actions

| TLA+ | code |
|---|---|
| `sessions[u]` | the row of `u`: `state`, `generation`, `token` (`bootstrap_token`), `backend` (`backend_session_id` is set); `NoRecord` is a missing row |
| `quotas`, `capacity` | `FakeQuotaProvider.reservations`, `FakeCapacityProvider.reservations` |
| `placement` | consumers with an allocation in Placement; Nova makes and drops them |
| `active` | `FakeCredentialIssuer.active` |
| `unsettled` | (history) instances whose reservations an operation changed before it raised without having written the row, until a later operation or a restart has put them right |
| `manager[u]` | what `UPSERT_SESSION` stored under workload id `u` |
| `AdmitBuild` | `admit_build`; disjuncts: granted, `NoCapacityError`, and an exception after the reservations (the write of the row, a malformed Placement answer) |
| `InstanceActive`, `RefreshSession` | `instance_active`; answered, refused, reply lost or crash after the manager stored the session, last write raising after the answer; the `PENDING_CAPACITY` branch |
| `DeleteInstance` | `delete_instance`; answered, refused, reply lost, write raising after the reservations went |
| `AbortBuild` | `abort_build`; done, write raising after the reservations went |
| `Restart` | `Application.build` |

`OpenStackMode` chooses between the Placement and the in-memory capacity
provider, `HasRefresh` says whether the backend is the one with GPU Cells. A
command may always take effect unanswered, and every write of a row may raise
(`storage.py:78`: a locked database, a full disk). A crash inside an
operation leaves what one of its outcomes leaves, followed by `Restart` (between
`service.py:118` and `130`: `StartReplyLost`), so no action of its own is needed for it.

`SessionContract` has `released` for the sessions that live on because their end could not be
recorded: the contract lets them no longer count. `Lifecycle` implements it with
`released` as the live ones among `unsettled`.

### SharedStore

`pc[p]` is where the operation of container `p` stands, `copy[p]` the
`SessionRecord` it read and changes. `*Begin` reads the row under the
container's lock; `StartPersist`, `CreateSession`, `Store`, `DeleteSession` and
`Close` are the later accesses; `WriteRaises` is each of the three writes that
`__setitem__` may refuse, after which what the
operation did before stays done; `Crash` ends an operation anywhere. `VendorData`
is a request of Nova: a read of the record and, in a second step, of the
token, with `answer` what has been read so far or was answered last, and in `life` (history)
the generation the row had when the token was read.

`raced` is a history variable: the instances on which operations of two
containers ever overlapped. Several properties are stated for the other instances,
which says precisely that the missing lock between the containers, and
nothing else (no crash, no lost reply, no failed write), is what breaks them. They say
nothing of the instances where containers did overlap: of those only
`RowsAreWhole` speaks. They do break without the condition. `Contract(u)` is `SessionContract` over the session
of `u` alone, with a quota that never is in its way: what containers do to the row of an instance
that is not raced are steps of it (`UnracedStepsLegal`).

### Reconciliation

`nova[u]` and `sent` are Nova and the bus; a notification in `sent` may be
delivered at any time, again, in any order, or never. `ActiveReturns`,
`ActiveRaises` and their like summarise the session operations as a call that
returns and a call that raises. `TakeSnapshot`, `AskSessionStatus` (one server
per step), `RepairSession`, `ListPorts`, `AskPortStatus`, `VisitPort`, `Sleep`
are the turn of the loop in the order of the code; an exception is `Dies`,
after which `Restart` is kubelet's. `Unbound` are instances whose record was
admitted with a port without an IP address: `create_session` raises for those
every time. `ports` are the VMs that have their managed port: create.error over HTTP takes it
(`EventPort`), also that of a build that goes on elsewhere, and the port pass goes by ports. An
admission may be refused in any turn, and for good (`AdmitPort`). An instance is a number, as a UUID is one: the order of the numbers is the order in
which the rows are listed.

### ServicePorts

`call[w]` is the request a worker (handler thread or the reconciler) is about to
make, `ports[u]` what Neutron has. `old` are the ports past
`orphan_grace_seconds`, `Undated` those without `created_at`, which never get there. `width[u]`
(history) is how many prebuilds of `u` ran at once at most; nothing keeps them apart. The
handlers are those of `http.py`, step by step
(`EnsureGet`, `EnsurePost`, `Rollback`, `AdmitGet`, `AdmitClaim`, `AdmitWrite`, `EventSession`,
`DeleteGet`, `Delete`); the reconciler lists (`ListManaged`), asks (`AskStatus`), and visits
(`VisitPort`, `Reclaim`). Its session pass, the admission of a listed port and a delete
may each raise, in every turn if it comes to that, and end the process.

### GpuCells

`claim` and `pod` are the two Kubernetes objects of one physical profile, `node`
whether the Node Manager in the Pod is registered. `Get`, `PostClaim`, `PostPod`,
`Undo` and `AskManager` are the requests of one `create_session` or
`refresh_session`; `Kubernetes` is the scheduler, the probe, the node and
evictions. `spoiled` (history) says that, since the cell was last created from nothing, two containers
were creating it at once, or an error status came back although the Pod is there: in both
cases `Undo` may take the claim from under a Pod.

### PlacementSync

`task[s]` is the request that program `s` is about to make: its `step`, the
profile (`pool`) and provider (`at`) it is about, the profiles still to do, and what
it has read. Of a generation only one thing matters, whether it is still
the current one: `fresh`, which every accepted write to the provider, every claim of
Nova and every change of an operator takes away (`Outdated`). `Look`,
`ReadGeneration`, `ReadAggregates` and `Write` are the requests of
`ensure_profile` and `_ensure_aggregate` in their order; `Refused` is a 409 or
another refusal, which ends the program; `Fault` is a request that fails before or
after it took effect, or a kill; `Start` is the Job, up to `backoffLimit`.
`overlapped` says that Kubernetes ever ran the program twice at once.

### Offerings

`file` is `config.json`, `runs[p]` what container `p` loaded, `under[u]` the
configuration under which `u` was admitted. A `Content` is the offerings that each
of the five sections names. `Accepted` is the comparison of sections in
`ServiceConfig.load`; `Creatable` what `create_session` of the configured backend
looks up. `Edit` is the operator, `Starts` `main`, `Sync` the Placement
Job, which adds pools and never takes one away. A session operation is one step,
with the exception it raises when the container does not know the offering: an
answer of a frontend, and the end of the reconciler.

## 3. The runs

| run | instance | properties | shows |
|---|---|---|---|
| `Lifecycle_fake` | 3 instances, 2 projects with a quota of 1, inventory 1, 3 tokens, generations to 2 (712,273 states) | `TypeOK`, `CapacityRespected`, `ReservationsMatchSessions`, `ManagerSessionsRecorded` | with the in-memory provider the reservations are those of the live sessions, whatever fails, but for rows that could not be written; no row loses a session the manager keeps |
| `Lifecycle_openstack` | 2 instances of a project with a quota of 1, 4 tokens, generations to 3, Placement, refresh (185,262) | `CredentialAgreement`, `QuotaRespected`, `LeftoverIsOlder`, `NoForgottenCredential`, `ImplementsContract`, `TokenStable` | quotas hold although they may leak; the token served is the manager's; one step only forgets a token; the service implements the contract |
| `SharedStore` | 2 containers, 1 instance, 5 tokens, generations to 3, writes that raise, vendor-data reads (505,674) | `TypeOK`, `RowsAreWhole`, `UnracedCredentialAgreement`, `UnracedAnswersNotAhead`, `UnracedStepsLegal` | rows stay whole always, and legal where no operations overlapped; a vendor-data answer may mix two lives of an instance, but never an earlier token with a later generation |
| `SharedStore_quota` | 2 containers, 3 instances of one quota of 1, 1 token, generations to 1 | `UnracedQuota` | together the containers exceed the quota, and by no more than their number |
| `Reconciliation` | 2 instances, 1 transient fault (534,438) | `TypeOK`, `OnlyGoneVmsDeleted`, `GoneSessionsEnd`, `ActiveVmsServed` | the loop repairs what notifications lose and never ends a living session |
| `ServicePorts` | 1 instance, 2 ports, one of them undated, 2 threads and the reconciler (302,580) | `TypeOK`, `PortsWithinWidth`, `PortsOfVmsKept`, `OrphansReclaimed` | rollback and reclaim never take the port of a VM; only prebuilds that overlap give it two; dated orphans go for good as long as turns complete |
| `GpuCells` | 2 instances, 2 containers, 3 faults (17,347) | `TypeOK`, `PodHasClaim`, `SessionsServe` | half-made cells are taken up; the Pod keeps its claim but for the two ways it can lose it |
| `PlacementSync` | 2 programs of the Job, 2 pools, 2 compute providers, `Backoff` 1, 2 faults | `TypeOK`, `SharedOnlyWhenWhole`, `DoneMeansEnsured`, `FailsOnlyWhenDisturbed`, `ForeignAggregatesKept`, `Completes` | wherever a sync stops, no pool is visible half-made; its remains never fail the next one; the aggregates of others survive |
| `Offerings` | 2 instances of 2 offerings, the adapter and the reconciler, 9 contents of the file, 3 edits or kills | `TypeOK`, `AdmittedCanBeCreated`, `StartedOnceOffered`, `GoneSessionsEndAnyway` | what `load` compares is enough for what is admitted; a reconciler that raises over an older file recovers by it |

Three runs show a statement of the repository that the code does not keep. Each
checks one property and TLC finds a counterexample:

| run | the repository says | the code does |
|---|---|---|
| `Lifecycle_lostreply` | `service.py:135`: delete removes "credentials, backend session, and reservation" | after a create whose reply was lost the row has no `backend_session_id`, and delete asks the manager nothing |
| `Reconciliation_poison` | README: "periodic session reconciliation for lost/reordered Nova notifications" | one record whose start always raises ends every turn before the records after it |
| `GpuCells_nonode` | README: with zero Node Managers the session "must remain `PENDING_CAPACITY`, never `READY`" | a refresh takes READY from the Pod's readiness alone |

### Bounds, and why they are enough

- *Instances.* Quota and inventory are about competition: two instances of one
  project and one of another compete for each with every outcome (`Lifecycle_fake`); the quota of one project
  alone needs the two (`Lifecycle_openstack`).
  An operation touches one row, so a third instance of a
  project adds no new case; the proofs remove the bound altogether.
  Reconciliation needs two, because one record's exception keeps the loop from
  another, and Offerings two, of different offerings, for the same reason.
  The run `SharedStore` is about one instance: no step
  there relates two. In ServicePorts what other VMs do to one is end the turns of the reconciler, which
  any turn of the one instance may do there as well (`Dies`). `SharedStore_quota` needs three for two containers with a quota of 1: two that
  they may admit and one too many.
- *Containers.* Two in SharedStore: what is stated concerns pairs of operations, and the
  proofs hold for any number.
- *Tokens.* One for each place that can hold one at once (the row, a copy of each
  container, the manager, an answer): with these numbers the paths of
  interest all occur (each has a mutant that TLC catches). A step that finds no fresh
  token is disabled. `SharedStore_quota` needs one, as it is about admissions.
- *`MaxGeneration` 2 or 3*: a delete, a new admission, and what the first life left;
  3 for a vendor-data answer from two lives ago, and for leftovers of two lives. It is 1 in `SharedStore_quota`,
  whose property is about instances that are admitted once.
- *`MaxFaults`* caps transient faults so that liveness can be asked for at all: the
  code retries for ever and promises nothing while faults go on. What may go on for ever is not
  counted: refusals of an admission or of a start, raising turns and lost requests in ServicePorts, and every
  fault in the Lifecycle and SharedStore runs. In PlacementSync
  2 is one more than the Job tolerates there.
- *`Backoff` 1* where the chart says 3: one attempt that is interrupted, one that takes
  up what it left, and a fault too many are all there; more attempts repeat the second.
- *`PortIds` 2*: a port, and one that came in its place or beside it; one of them `Undated`.
- *Pools and compute providers 2*: the profile after the first, and
  a loop over compute providers that is cut in the middle.
- *`MaxChanges` 3* in Offerings: an edit that takes an offering away, one that brings it
  back, and a kill in between. The nine contents are a catalog, one without the second
  offering, each section ahead of or behind the others, and a file without cells.
- *Symmetry* is used in the Lifecycle and SharedStore runs only, over tokens,
  containers and instances that differ in nothing; none of these runs checks liveness.
- *Deadlock* is checked except in the `GpuCells` and `Offerings` runs. Once every
  session is READY and the Pod has been taken away the adapter has nothing to do, which is
  behaviour of the code (`instance_active` returns at once for READY). With a
  file that `load` rejects and every container stopped nothing can start until the
  operator edits it again, which `MaxChanges` may forbid.

Every property of a passing run is paired in `PROJECT.json` with a mutant, a
plausible bug of the definition it names, under which TLC finds the property
violated in that very run.

### Fairness

| module | assumed | because |
|---|---|---|
| `Lifecycle`, `SharedStore` | nothing | safety only |
| `Reconciliation` | WF of the loop, `Restart` included | the loop waits for its sleep only, every request has a timeout, and kubelet restarts the container (`restartPolicy` Always). Nothing is assumed of Nova or of the bus: the properties hold if no notification is ever delivered |
| `ServicePorts` | WF of time (`Age`), of each handler thread, of the loop | a handler runs to its end; the grace period passes. That turns complete again and again is no fairness of the code: it is the premise `TurnsComplete` of `OrphansReclaimed` |
| `PlacementSync` | WF of each program (start, next request) | each request has a timeout; a failed attempt is started again up to `backoffLimit`. Nothing is assumed of Nova and operators |
| `Offerings` | WF of the start of the reconciler, of its start and its delete of each session | kubelet starts a container for as long as it takes, and a turn of the loop gets to every session unless it ends before. Nothing is assumed of the frontends, Nova, the operator or the Job |
| `GpuCells` | WF of each request, SF of a retry of each session | each request has a timeout. The retry is strong because a container may be busy with another session whenever this one is due; the reconciler reaches every record in each turn. Kubernetes, the node and refreshes are not assumed to do anything |

### Assumptions about the environment

- Nova's scheduler never exceeds the inventory it was given (`NovaClaim`).
- In `ServicePorts` the grace of a port ends after Nova built the VM or gave it
  up, and after the prebuild request ended (`Age`): the grace is minutes, and
  the requests take seconds. A rollback is sent only for a build that was given
  up, and `delete.end` only for a VM that is gone; `PortsOfVmsKept` rests on the first, and
  not on the look at the session in `http.py:221`.
- In `Reconciliation` a manager command that fails is a transient fault: the manager answers
  in the end. `ActiveVmsServed` is about VMs whose admission is not `Refused` for ever.
- A UUID that is gone never comes back.
- PlacementSync starts from the first installation, and the compute providers of the
  configuration exist. Placement bumps a provider's generation at every write,
  and refuses a PUT with another than the current one.
- In Offerings a quota is zero or not reached, and calls do not fail; the other
  modules are about those. A GPU Cell, once it has a Pod, keeps it.
- `secrets.token_urlsafe` does not draw a token that is still known anywhere.

## 4. What is proved

Everything below is proved for every value of the constants that the named
assumptions allow; TLC checks each of these properties on a small instance as well.

### Lifecycle (`LifecycleProofs`)

For every finite set of instances, every quota, inventory and set of tokens, and every mode:

| theorem | states |
|---|---|
| `TypeCorrect` | `Spec => []TypeOK` |
| `QuotaNeverExceeded` | `Spec => []QuotaRespected` |
| `CapacityNeverExceeded` | `Spec => []CapacityRespected` |
| `LifecycleImplementsContract` | `Spec => ImplementsContract`, the refinement of `SessionContract` |
| `CredentialsAgree` | `Spec => []CredentialAgreement` |
| `LeftoversAreOlder` | `Spec => []LeftoverIsOlder` |
| `RecordedUntilDropped` | `Spec => ManagerSessionsRecorded` |
| `ServedTokenStable` | `Spec => TokenStable` |
| `OnlyAnsweredTokensForgotten` | `Spec => NoForgottenCredential` |
| `ReservationsAreExact` | `Spec => []ReservationsMatchSessions` |

The assumptions are those the modules name: `InstancesFinite`, `OfferingTypes`,
`LimitTypes`, `TokenTypes`, `GenerationBound` and `ModeTypes`. TLC
evaluates each of them in the runs. `MaxGeneration` is an arbitrary number here.

The argument:

- **Quota and capacity.** That the *live sessions* are within the quota is not
  inductive, and since rows may fail to be written neither is it true of all of them. Nor
  are the *reservations* within the quota: `Restart` gives those back that a failed
  write had released, unchecked. What is bounded is what is both (`Counted`):
  `QuotaInv` is `ReservationsMatchSessions`, which equates the two outside `unsettled`,
  and the quota of `Counted`. An admission counts reservations,
  which are no fewer, so room for it is room among the counted (`QuotaOfGrant`). What each step
  does to reservations, live sessions and `unsettled` is said once (`BooksAfterStep`), from which
  both parts follow (`ReservationsStep`, `CountedAfterStep`): each step adds at most the
  instance that was admitted, and `Restart` none.
  `CapacityInv` is its twin for the in-memory provider.
- **The contract.** The refinement maps a row to its state and generation.
  Each action maps to the contract's step of the same operation or to a stutter
  (`NextMapped`); a delete or abort whose write raises is the contract's `Release`. The admission step
  needs `QuotaInv`: the contract counts live sessions that are not released, the code counts reservations,
  and room for the second is room for the first only because the first are among the
  second (`SettledSessionsCount`, `RoomForAdmission`).
- **Credentials.** Agreement of serving rows is not inductive either: a lost
  reply leaves the manager with a token the row never had, and a deleted row may
  come back. `CredentialInv` (`PairOK` for each instance) adds that a row which
  does not serve has neither token nor backend session, and that the manager is
  never ahead of the row's generation and is strictly behind that of a row just
  reserved. `CredentialsAgree`, `LeftoversAreOlder`, `RecordedUntilDropped` and
  `ServedTokenStable` follow from it. `OnlyAnsweredTokensForgotten` uses it for the
  rows that are overwritten: those `admit_build` and `instance_active` find have no token, so that
  no valid one is dropped (`ActiveAfterOperation`); what remains is the start whose last write
  raises.

### SharedStore (`SharedStoreProofs`)

For any finite set of containers, any set of instances, with or without failing writes and
vendor-data reads:

| theorem | states |
|---|---|
| `TypeCorrect` | `Spec => []TypeOK` |
| `RowsNeverTorn` | `Spec => []RowsAreWhole` |
| `UnracedCredentialsAgree` | `Spec => []UnracedCredentialAgreement` |
| `UnracedStepsAreLegal` | `Spec => UnracedStepsLegal`, the refinement of `SessionContract` by each unraced session |
| `AnswersNeverAhead` | `Spec => []UnracedAnswersNotAhead` |

The assumptions are `ProcsFinite`, `NoOneTypes`, `SwitchTypes` and those of `FlytModel`.

- **Whole rows.** A row is whole after a write only if the copy was, and a copy is made
  long before. `WholeInv` is `RowsAreWhole` of every row and, for each container,
  `CopyOK`: a copy about to be written is whole, and one on its way to the manager
  has neither token nor backend session. It needs no condition about overlaps.
- **Unraced instances.** `UnracedInv` says that at most one container works on an
  instance that is not raced, that the row agrees with the manager, and
  that the copy this container holds still fits the row (`NextWriteOK`): writing it is a
  legal step. What another container does is kept away by `StepFrame` (a step of `p` changes
  nothing outside the instance `p` works on, and a second container on it makes it
  raced) and `OnlyOwn`. `UnracedStepsAreLegal` is then `NextWriteOK` at the moment of the write,
  and `LegalMapped`: what `LegalStep` says of two records is a step of the contract or a
  stutter.
- **Answers.** `AnswerInv` rests on the order of the two reads: the generation is read
  first and the generation of an unraced row never falls, so the token that is read later belongs to
  that generation or a later one, `life`; and within one generation a serving row keeps its token, so
  it is the one served for as long as `life` lasts.

### The quota of several containers (`SharedStoreQuotaProofs`)

`QuotaPerContainer` proves `Spec => []UnracedQuota`, under the same assumptions and
`LimitTypes`, for every number of containers.

What a container holds after it was killed is the live sessions of all containers, so
that its reservations may exceed the quota, and no bound on them is invariant. The
invariant is about a *share* of them: there is a way to give each instance that counts (its
first admission lives, or is about to be written) to a container, such that every container
has its share among its reservations and the share alone is within the quota
(`ShareInv`). An admission adds to the share of the container that counted
reservations and found room, which is room for the share; a crash leaves every
share among the live sessions; what gives a reservation back ends the session
(`ClosingEnds`), which then no longer counts (`ShareKept`). Nothing else begins to count: an unraced row
with a first generation was written by the container that reserved it (`CountedKept`,
which is `StepLegal` again). `NewHeldByOne` is what fails when a write raises or an instance is
admitted again: then a container may admit what its map still holds, without counting.
The bound is a count over pairs of a container and a number within the quota
(`QuotaOfAll`): no induction over the containers is needed.

### Reconciliation (`ReconciliationProofs`)

For any number of instances and faults, whichever instances are `Unbound`:

| theorem | states |
|---|---|
| `TypeCorrect` | `Spec => []TypeOK` |
| `DeletedOnlyWhenGone` | `Spec => OnlyGoneVmsDeleted` |

The assumptions are `InstanceTypes` and `FaultBound`. `ReconInv` says why old knowledge
suffices for a delete: Nova's answer 404 was about a VM that had been built (`Built`, as
only those have a record or a port), and such a VM is gone for good (`MissingGone`); what a
notification says was true when it was sent and stays true (`Announced`); and the
turn acts on no session whose status it did not ask for (`AllAsked`). That a pass
always has a next row (`FirstOfTodo`) needs a least element of a set that may be
infinite (`SmallestOf`), which follows from the library's order on finite subsets.

### ServicePorts (`ServicePortsProofs`)

For any number of threads, instances and ports, dated or not, and any number of failures:

| theorem | states |
|---|---|
| `TypeCorrect` | `Spec => []TypeOK` |
| `OnlyEndsTakePorts` | `Spec => PortsOfVmsKept` |
| `PortsNeedOverlap` | `Spec => []PortsWithinWidth` |

The assumptions are `WorkerTypes` and `SetTypes`. `PortInv` carries the reason for a
delete from where it was seen to where it is used: an old port belongs to a VM that was
built or given up (`OldBuilt`), so that one whose VM Nova did not know *later* is of a VM that
is gone (`ListedJust`), and so is every call that may take a port, but for
create.error (`CallsJust`). It matters that the status is asked after the list, and `AskPortInv` is where
the proof uses it. `WidthInv` counts the ports of a VM together with the prebuilds that found none and are on
their way to the POST: a prebuild only gets there while there is no port, so both together are never more
than the prebuilds that ran at once.

### GpuCells (`GpuCellsProofs`)

For any number of containers, instances and faults, under `CellTypes`:

| theorem | states |
|---|---|
| `TypeCorrect` | `Spec => []TypeOK` |
| `PodKeepsClaim` | `Spec => []PodHasClaim` |

`ensure` deletes the claim after an error status for the Pod, so the property rests on who may be there:
`CellInv` says that a claim which is held, or about to go, has its running Pod (`HeldByPod`), and that
while nothing spoiled the cell a container that creates it is the only one and there is no Pod yet
(`Sound`, `Creator`). The first holds always and is what makes the next cell sound again after
the one that was spoiled is gone.

### PlacementSync (`PlacementSyncProofs`)

For any number of programs, pools, compute providers, traits, disturbances and attempts:

| theorem | states |
|---|---|
| `TypeCorrect` | `Spec => []TypeOK` |
| `OffersAreWhole` | `Spec => []SharedOnlyWhenWhole` |
| `DoneIsEnsured` | `Spec => []DoneMeansEnsured` |
| `OthersKeepTheirs` | `Spec => ForeignAggregatesKept` |
| `FailuresAreDisturbances` | `Spec => []FailsOnlyWhenDisturbed` |

The assumptions are `ProviderNames`, `AggregateNames` and `CounterBounds`.

- **What was done stays done.** `SyncInv` says of each program, by its step, what it has already made
  sure of: its finished profiles, the inventory and traits of the current one, the providers
  of the loop it has passed (`Done`). No step of anybody takes any of it back (`Grows`), so it
  does not matter who did it. `OffersAreWhole` and `DoneIsEnsured` follow.
- **Aggregates of others.** `ReadInv`: what a program has read is what Placement has for as
  long as the generation is current. A PUT with a current generation therefore writes what
  is there and the shared aggregate.
- **Failures.** `AloneInv`, about a program that runs alone: the provider it is going to
  create is not there, and its failures, with the refusal a stale generation is about to cause, are at most the
  disturbances so far.

### Offerings (`OfferingsProofs`)

For every set of offerings, instances, and contents of the file, under `OfferingsTypes`:

| theorem | states |
|---|---|
| `TypeCorrect` | `Spec => []TypeOK` |
| `AcceptedCatalogIsConsistent` | whatever has a quota in an accepted file with GPU Cells has a size, a mapping and a defined cell |
| `AdmittedIsCreatable` | `Spec => []AdmittedCanBeCreated` |

The strengthening `AdmittedByAccepted` is that what a container runs, and what a
session was admitted under, is a file that `load` accepted, and that the offering of
a session that was admitted had a quota there; the first theorem does the rest.

## 5. What is only model-checked

- All liveness (`GoneSessionsEnd`, `ActiveVmsServed`, `OrphansReclaimed`,
  `SessionsServe`, `Completes`, `StartedOnceOffered`, `GoneSessionsEndAnyway`): the
  proof system does not reach liveness under fairness, or ENABLED.
- That the three statements of section 3 do *not* hold: a counterexample is a run's to find.
- `InstanceActive` of `Lifecycle` as one step: that the container's lock makes an
  operation one step for the other threads is how the models are cut, and no theorem.

Every invariant and action property that a passing run checks is a theorem of section 4.

## 6. What holds and what does not, for the reader of the code

Inside one process the service is sound as long as it can write its rows: no lost reply, abort,
refusal, crash or restart makes it exceed a quota, serve a token other than the manager's, or take
an illegal step. Two failure paths leave something behind: a create whose reply was
lost (`Lifecycle_lostreply`), and a delete that the manager refuses: it has
revoked the token by then (`service.py:141`), and the row goes on serving it
(`bootstrap_token` looks at the row only, `service.py:155`).

A write that raises costs more. `delete_instance` and `abort_build` give the reservations
back before they write (`service.py:147-150`, `179-181`): the session stays live in its row and counts nowhere, the next admission
takes its place, and the project is over its quota (the profile over its inventory) by one session for
each such failure, also after a restart, which restores reservations without checking them. A
start whose last write raises (`service.py:130`) leaves a valid token, and a
session at the manager, that no row knows, until the next start takes the session over and a restart forgets the
token. An admission whose write raises leaks its reservation. The properties say that this is all it costs.

Between processes rows never tear, whatever fails. Two operations that overlap
on one instance may undo each other: a deleted session may come back, and a token that is
served may be replaced, so that two guests' reads of vendor data differ. Each container
counts quota for itself: what it admitted and what it found at its
start. Together they admit at most the quota of each, under three conditions that the
property names; after a write that failed, or with instances that are deleted by one container
and admitted by another again, not even that is held.

The two reads of `POST /v1/nova/vendor-data` are two steps: with a delete and a new admission between them the
answer has the generation of the earlier life and the token of the later one. The other
mixture, an old token under a new generation, is excluded by the order of the reads; reading
the token first is a mutant that TLC catches.

A prebuild that is repeated while the first is still running makes a second port
(`network.py:65-71`; `openapi.yaml:43` calls it idempotent), after which neither can be used or
deleted through the adapter: `get` raises for the instance. Nothing else makes a second one.
The claim of a GPU Cell is deleted after any error status for its Pod (`kubernetes.py:92-94`),
also if the Pod was created, or is another container's: that Pod never runs. The next one does.

The repair loop does repair every lost notification as long as no
record raises for ever. A record does so when its offering is taken out of the
file: the reconciler raises at its start and, being restarted, again, until the file
offers it once more. Sessions end without any offering being looked up. A record that raises in
the session pass also keeps the loop from all ports, and so does a VM with two ports from the
ports after it; a port without `created_at` is never reclaimed. A VM is left without a session
for good when its build was reported as failed and goes on elsewhere, with its record FAILED or, if there
was none, its port deleted (`http.py:234-240`), and when its admission is refused for good.

The Placement sync may be killed anywhere. It never shows a pool to the scheduler before
it is whole, and it fails only as often as somebody disturbs it. It never takes
anything back: the pool of an offering that was removed stays in Placement, Nova goes on
scheduling onto it, and the quota section alone refuses the admission. The comparison in
`load` makes that work with GPU Cells; without them nothing is compared, and a
quota for an offering the manager section lacks admits sessions that can never start.

## 7. What is not modelled, and why

- The checks of single values in `config.py` (types, ports, tokens, ranges): they keep no
  state; what they admit are the assumptions on the constants.
- `injection.py` and `guest-image/` render text and run in the guest.
- `ports.py` are typing protocols.
- Request parsing, authentication and response formatting of `http.py`, payload
  normalisation of `events.py`, manifests of `kubernetes.py`, the wire format of
  `flyt.py`.
- `POST /v1/vendor-data/<uuid>` reads the token first and the record after it; only the
  request that Nova makes is modelled.
- `preflight` reserves nothing and changes no state.
- `KubernetesGpuCellProvider.delete`: nothing in the adapter calls it.
- The amounts in Placement's inventories, and an inventory that is set below what is allocated.
- The deployment beyond what decides concurrency, restarts and configuration, and the tests and docs.
- `ensure`'s comparison of project and zone, and networks that are not configured.
- Where the chart mounts the manager's socket and the Kubernetes token (section 1).
- Four hazards have no property. `PortsOfVmsKept` holds whether or not a rollback looks at the session, because of what Nova does, and it
  excepts create.error, so an admission that overlaps either is said nothing of. And `PENDING_CAPACITY` is not among the states the reconciler starts, and
  READY is never looked at again: there the code does nothing, and nothing in
  the repository says what it should do.

## 8. Plan

Done, in this order: `FlytModel`, `SessionContract`, `Lifecycle`,
`LifecycleProofs`, `SharedStore`, `Reconciliation`, `ServicePorts`, `GpuCells`,
`PlacementSync`, `SharedStoreProofs`, `Offerings`, `OfferingsProofs`, `GpuCellsProofs`,
`ReconciliationProofs`, `ServicePortsProofs`, `PlacementSyncProofs`,
`SharedStoreQuotaProofs`. `SharedStore` as a whole does not refine the
contract: each container counts for itself. Each unraced session does, and the quota holds up to
the factor of the containers.

Left:

1. The safety part of the liveness arguments, as invariants: what is true of
   a session whose VM is gone until the turn that ends it, and the measure that each
   turn lowers.
2. The chart's mounts: what of `Reconciliation` is left when only `adapter` reaches the manager.

## 9. Running it

```
tlc -workers 2 -config Lifecycle_openstack.cfg MCLifecycle
tlc -workers 2 -config SharedStore.cfg MCSharedStore
tlc -workers 2 -config SharedStore_quota.cfg MCSharedStore
tlc -workers 2 -config Reconciliation.cfg Reconciliation
tlc -workers 2 -config ServicePorts.cfg ServicePorts
tlc -workers 2 -config GpuCells.cfg GpuCells
tlc -workers 2 -config PlacementSync.cfg PlacementSync
tlc -workers 2 -config Offerings.cfg MCOfferings
tlapm LifecycleProofs.tla
tlapm SharedStoreProofs.tla
tlapm SharedStoreQuotaProofs.tla
tlapm ReconciliationProofs.tla
tlapm ServicePortsProofs.tla
tlapm GpuCellsProofs.tla
tlapm PlacementSyncProofs.tla
tlapm OfferingsProofs.tla
```

The longest run, `SharedStore`, takes about two and a half minutes.
