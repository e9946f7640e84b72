# Verification of the Quobyte CSI driver

TLA+ models of the Quobyte CSI driver (`src/` is this repository's root, so the Go code is
`src/src/`), the TLC configurations that check them, and TLAPS proofs.
Line numbers refer to the commit the modules were written from.

## The system

One binary, two roles. The **controller** serves the CSI controller service over gRPC to
the Kubernetes sidecars (external-provisioner, external-resizer, external-snapshotter) and
turns each call into a few calls of the Quobyte management API and, for shared volumes, of
file system calls in the controller's own Quobyte client mount. The **node driver** serves
kubelet and bind-mounts volumes into pods. Neither keeps durable state: what a call needs is
in its volume handle (`tenant|volume[|subdirectory]`), in the Quobyte backend, or in the
directory names of a shared volume.

| Component | Source | State | Operations |
|---|---|---|---|
| Controller, dedicated volumes | `controller.go` | none of its own; volumes and quotas in the backend, handlers in flight | CreateVolume, DeleteVolume, ControllerExpandVolume |
| Controller, shared volumes | `controller.go`, `shared_volume_mapper.go` | subdirectories and delete markers in a shared volume | CreateVolume, DeleteVolume |
| Directory deleter | `shared_volume_directory_deleter.go`, `main.go` | a walker, a bounded channel, workers | periodic walk, queueing, removal |
| Controller, snapshots | `controller.go` | snapshots in the backend | CreateSnapshot, DeleteSnapshot, ListSnapshots, CreateVolume from a snapshot |
| Node service, mounter | `node.go`, `mounter.go` | bind mounts, the mount path's xattr | NodePublishVolume, NodeUnpublishVolume, NodeGetVolumeStats |
| API client cache | `quobyte_api_client_factory.go` | an LRU cache of clients | NewQuobyteApiClient |
| Request parsing | `controller.go`, `utils.go`, `node.go` | none | parameters, labels, handles |
| Start-up, identity | `driver.go`, `identity.go`, `main.go` | the process, its socket file | flags, socket, constant answers |
| Test framework | `e2e-tests/framework` | users, tenants, grants, cluster objects, cleanups | setup, waits, cleanups |

How they interact: the deleter runs in the controller process, shares the client mount with
the handlers and shares nothing else but the process; DeleteVolume's rename is its only
input. The node service finds a volume by the handle that CreateVolume composed, or inside the
snapshot whose id CreateSnapshot composed and CreateVolume carried into the volume context. The
end-to-end tests drive all of it at once against one Quobyte installation.

What is hard here is not any one call but what lies between calls. The driver takes no lock;
each gRPC call is a goroutine; the API client does not take the gRPC context, so a call that
timed out goes on in the driver while the sidecar has already sent the retry. Everything is
retried, and each of a handler's steps may fail, succeed with its answer lost, or be the last
one before a restart. `PROJECT.json` lists these hazards line by line with the properties
that cover them.

For each component, what makes it correct:

* dedicated volumes: a bound claim has its volume, retries return the same volume, capacity
  is never promised twice, nothing but a deletion loses data, a deletion leaves nothing,
  retrying ends;
* shared volumes: a bound claim has its subdirectory with mode and owner, a deleted one is
  no longer under its own name, deletion only renames, storage is reclaimed in the end;
* deleter: only the driver's own markers go, all of them go in the end, one unreadable
  volume does not stop the others;
* snapshots: one snapshot per name however often it is asked for, which goes only with its
  VolumeSnapshot, and a restored volume shows the files as they were;
* node: a mount is accessed with the key of its own secret, publishing and unpublishing end,
  and after unpublishing nothing is mounted;
* cache: a handler acts with the credentials of its own request;
* parsing: the volume asked for is what the parameters say, whatever their order;
* process: it serves again after a crash;
* test framework: what a volume's deletion needs outlives the volume, a mounted volume stays, a
  test leaves nothing behind, concurrent tests keep their grants, every test ends.

## Modules

| Module | What it is |
|---|---|
| `Capacity` | the sum of capacities, as a number of units |
| `CapacityLedger` | abstract specification: capacity reserved for and promised to owners, within a limit |
| `DedicatedVolumes` | CreateVolume, DeleteVolume, ControllerExpandVolume for dedicated volumes |
| `DedicatedVolumes_proofs` | theorems about `DedicatedVolumes`, with their proofs |
| `OneVolumePerClaim_proofs` | more of them, built on the first: creations and deletions of one claim agree on its volume |
| `Quotas_proofs` | built on both: who takes expansions back, and provisioning implements `CapacityLedger` |
| `MCDedicatedVolumes` | its instances for TLC |
| `SharedVolumes` | CreateVolume and DeleteVolume inside shared volumes |
| `ClaimStorage` | abstract specification: what becomes of the storage of one claim and of another |
| `DirectoryDeleter`, `MCDirectoryDeleter` | the sweep of delete markers, in one or more controller processes |
| `DirectoryDeleter_proofs` | theorems about `DirectoryDeleter` |
| `SharedVolumeSystem`, `MCSharedVolumeSystem` | `SharedVolumes` and `DirectoryDeleter` over the same volumes, in the same process, with a history of the attempts at a subdirectory that were cut off |
| `SharedVolumes_proofs` | theorems about `SharedVolumeSystem`; it instantiates `DirectoryDeleter_proofs` |
| `Handles` | volume handles, snapshot ids and mount paths, as sequences of their parts |
| `Snapshots` | CreateSnapshot, DeleteSnapshot, ListSnapshots, and claims restored from a snapshot |
| `NodeMounts` | NodePublishVolume and NodeUnpublishVolume on one node |
| `RestoredVolumes`, `MCRestoredVolumes` | `Snapshots` at the controller and `NodeMounts` on the node of the pods that use the restored claims |
| `RestoredVolumes_proofs` | theorems about `RestoredVolumes` |
| `ClientCache` | the cache of API clients, as operators |
| `CreateRequest` | what CreateVolume makes of its parameters, as operators |
| `DriverProcess`, `MCDriverProcess` | start-up, crashes, and handlers that use `ClientCache` and `CreateRequest` |
| `DriverProcess_proofs` | theorems about `DriverProcess` |
| `TestTeardown`, `MCTestTeardown` | setup and teardown of concurrent end-to-end tests |
| `TestTeardown_proofs` | theorems about `TestTeardown` |

### DedicatedVolumes

State: `handler` is the goroutines (program counter, operation, claim, volume UUID so far,
size asked for, and whether a caller still waits), `volume` the backend's volumes (name,
quota, whether files were written), `claim` what Kubernetes knows of a claim (phase, handle,
size asked and granted, whether the user still wants it, whether the provisioner keeps
retrying in the background). One action per API call: `Identify` (WhoAmI, GetTenantUUID),
`CreateNewVolume`, `VolumeExists`, `ResolveVolumeName`, `SetVolumeQuota`, `QuotaRefused`,
`RollbackVolume`, `EraseVolume`, `EraseMissingVolume`; `ApiCallFails` is the error return of
any of them. The environment is modelled from what the driver relies on and marked external in
the map: the provisioner waits for one call per claim, retries after a failure, and after an
answer it did not get retries even when the claim was deleted (so that it can delete the
volume); the resizer likewise; pods write to bound volumes; users delete and expand claims.

Faults, each counted against `MaxFaults`: `api` (a call fails without effect), `lost` (it
takes effect and the answer is lost), `timeout` (the caller gives up, the handler goes on),
`crash` (the process restarts: handlers are gone, callers see a failed connection).

External assumptions: UUIDs are never reused, and a handle that holds a UUID needs no
call to be resolved; a quota is refused exactly when the tenant (with
`disable_oversubscription`) has no room; what erasing an unknown volume answers is the
constant `EraseOfMissing`, because the code does not show it. The liveness run takes success:
with an error a retry of a lost erase could never end.

### SharedVolumes

`dir` is the stage of a claim's subdirectory (`absent`, `made`, `moded`, `ready`: after Mkdir,
Chmod, Chown), `marked` the delete markers in each volume, `readable` the volumes that the
client mount shows, `tasks` the pending delete-files tasks. Actions: `CreateSharedVolume`
(create or resolve), `StatDirectory`, `MakeDirectory`, `ChangeMode`, `ChangeOwner`;
`RenameDirectory`, `RenameMissing` (ENOENT is success), `CreateTask`, `RunTask` (the backend).
Names of subdirectories and markers are functions of the PV name, so a claim stands for both.
Expanding a shared handle returns at once and has no action. Additional faults: `fs` (a call on the
client mount fails) and `unmount` (the client mount no longer shows a volume, until `Remount`).

A rename onto a marker that is still there succeeds when the marker is empty and fails when it
is not; the contents of a marker are not modelled, so both are possible. A file of the
subdirectory's name and a mode that does not parse are errors without effect and count as failed
calls (`CallFails`); that such an error comes back at every retry is not modelled.

`SharedVolumeSystem` has one history variable, `cutOff`: the claims one of whose attempts
stopped between Mkdir and Chown (a failed call, a crash, a panic of the sweep), or was given up by
its caller before it was through. `BoundIsReady` is about it, and nothing else reads it.

### DirectoryDeleter and SharedVolumeSystem

Per process: the walker (asleep, about to open the volume it is `at`, or queueing what is
`left` of what it read), the channel, and what each worker holds. The list may have empty names,
which the walk skips (`WalkFrom`). `ReadVolume` may read part of a directory, `Enqueue` blocks on a
full channel, `Remove` ignores errors and does nothing for a path that is gone, `Panic` is the nil
dereference of the error path. The five minutes of sleep are any time. The worker's check of the
name's prefix always holds, as the walker selected names by a longer one; that of the directory's
holds if the mount path reads as `filepath.Join` writes it (`CleanMountPath`). `Mark` stands
for DeleteVolume, and may happen again for one name, as it may in the code after a stale CreateVolume.

`SharedVolumeSystem` takes every action of `SharedVolumes` and of one process of
`DirectoryDeleter`, over shared `marked`, `readable` and `faults`; `Panics` and `Crashes`
also end the handlers. As in `main`, the sweep never wakes with `use_delete_files_task`.

### Handles, Snapshots, NodeMounts, RestoredVolumes

A handle is the sequence of the parts that the code joins with `|`, a mount path a record of the
volume, the access key context and the names below. `Snapshots` has one step per handler
(`TakeSnapshot`, `RemoveSnapshot`, `ListVolumeSnapshots`), because each makes one call that
matters, after look-ups that change nothing; the answer of any may be lost. `shots` is the
snapshots of the backend with the state of the files they hold (a counter that `ChangeFiles`
advances). What is listed for an id with a fourth part names only three (`ListedIds`), so it does
not read like the id asked for; whether the snapshotter takes a shorter id for it is the constant
`ShorterIdIsIt`. CreateVolume from a snapshot and the deletion of such a claim call nothing, which is
the point: `RestoreClaim`, `DeleteRestoredClaim`.

`NodeMounts` takes the steps of a publish apart: `ResolveVolume` (directory, UUID, the refusal of
mount options, key), `SetXAttr`, `BindMount`; `CallFails` is the error return of the look-up of the
UUID and of the extended attribute. `pod` remembers per target whether kubelet did not learn how a
publish (`uncertain`) or an unpublish (`unheard`) ended. `stack` is what is mounted at each target, bind
over bind; `Unmount` takes the top away, answers success for a dead mount and leaves it, and an error
where nothing is mounted. `ClientRestart` kills all mounts and the contexts the client knew. The
driver removes no context; those that nothing refers to are left out of the state, so that the set stays finite.

External assumptions: the external-snapshotter has one call per VolumeSnapshot in flight and
repeats it, kubelet has one per target; what the API answers to the deletion of an unknown
snapshot is either (`DeleteOfMissing`); a claim that a pod uses is not deleted (Kubernetes'
pvc-protection); kubelet unpublishes also what it only may have published. A bind mount shows
what its directory held, so a mount of a deleted snapshot reads nothing.

### ClientCache, CreateRequest, DriverProcess

`ClientCache` is the key, Get and Add over a sequence of entries in the order of their last use;
that the library's LRU behaves so is external. `CreateRequest` is the loop of CreateVolume
over the parameters, one iteration as `Applied`, its checks and the request that comes out, with
the tenant as its UUID (`TenantUuid`, external; an unknown one is a failed call). In
`DriverProcess` each handler takes its parameters in an order of its own, between
`GetClient` and `AddClient` others run, and a `Crash` loses cache and handlers and leaves the
socket file. A handler is followed to the point where the volume is asked for: what comes then is
`DedicatedVolumes` and `SharedVolumes`. The width of accessMode is a constant, 32 in the code and
4 in the instance, which has a value that wraps and one that does not parse.

### TestTeardown

A test here is one claim with what it needs: the sequence of its setup steps, each of which creates
what it is named for and pushes its cleanup, or waits. Tests of the repository that make several
claims and pods (`shared_volume_test.go:97-98`, `storage_class_parameters_test.go`) are several of
these, of one outcome each; their claims sharing one secret or class is not modelled. The framework's
helpers are the actions: `EnsureTenantExists` and, for `EnsureTenant`, also the look-up, the listing and
the update of the shared API user's grants as steps of their own (`GetUsers`, `ExistingTenantIds`,
`UpdateUser`), `Apply`, the waits, and for each cleanup `DeleteObject`, the wait for it to be gone, for
a bound claim also for its PV (`PvIsReclaimedByDeletion`, then the wait for reclaim),
`DeleteInQuobyte`. Creating a tenant registers nothing: most tests keep the run's. A test that gives
a tenant of its own back says so in a step of its own (`GiveTenantBack`): one kind of cleanup empties it
before it deletes it (`DeleteVolumesInTenant`, `DeleteTenant`: `tenant_isolation_test.go:47-54`,
`storage_class_parameters_test.go:158-165`), the other only deletes it
(`namespace_tenant_mapping_test.go:186-190`).

Between them run Kubernetes (things are marked, and go when nothing holds them) and the driver, which
is taken at its promises: it provisions and reclaims when user, key, secret and class are there. Each
test has a cluster of its own, all have one Quobyte installation. `excused` remembers a failed call or
a wait that was given up during teardown: the framework logs it and goes on, so later promises are off.

## Runs

| Run | Question | Instance |
|---|---|---|
| `dedicated_retries` | safety and the ledger refinement under failures, lost answers, restarts | 2 claims, 3 handlers, sizes 1..2, tenant of 3, 2 faults |
| `dedicated_timeouts` | handlers that outlive their callers, without createQuota | 2 claims, 3 handlers, 2 faults |
| `dedicated_progress` | only a call that was given up takes a quota back; provisioning, deletion, expansion end | 2 claims, 2 handlers, sizes 1..2, tenant of 4, so that refusals are not permanent; 1 fault, which may be a timeout |
| `dedicated_stale_rollback` | finding: a stale rollback deletes a bound volume with data | 2 claims, 2 handlers, tenant of 1, 1 timeout |
| `system_retries` | handlers and sweep under failures, lost answers and restarts: safety, and claims are bound and reclaimed in the end | 2 claims, 2 handlers, 2 faults |
| `system_stale` | stale handlers, unmounted volumes, failed calls on the client mount, panics of the sweep: bound claims keep their storage, the promise of `ClaimStorage` is kept, and mode and owner lack only after an attempt of the claim itself that was cut off | 2 claims, 2 handlers, 2 faults |
| `system_tasks` | deletion by tasks ends and takes no other subdirectory | 2 claims, 2 handlers, 3 faults of the API |
| `sweep` | two processes sweep two volumes, with an empty name between them in the list and a marker in them that is not theirs; all others go | 1 worker and 1 place each, 1 fault |
| `sweep_unreadable` | finding: an unreadable volume panics the process and starves the later ones | no faults at all |
| `restored` | from CreateSnapshot to the directory and key that a pod reads with, under lost answers, timeouts, restarts of controller, node driver and client | a dynamic and a pre-provisioned snapshot of one volume, a claim and a pod on each, 1 fault of any kind |
| `driver_process` | handlers act with their own credentials on what their parameters say, and a crashed process serves again | 2 handlers, 5 requests, 2 cached clients, 2 faults |
| `teardown` | what two concurrent tests leave behind, and in which order | a claim that is refused, in a tenant that is emptied, beside one of: a dynamic volume, a volume of the test's own (both in the run's tenant), a dynamic volume in a tenant that is deleted, and in one that is emptied; 1 fault |

Why these bounds. Claims interact through the tenant's capacity, or the volume they share,
pairwise: two suffice to make one be refused because of the other. Three handlers hold a stale
create, its retry, and a call of the other claim (or an expansion). Two sizes are needed for an
expansion, and limits 1, 3 and 4 make the tenant too small for both, for both at full size, or
for none. In `dedicated_progress` a call that was given up keeps one of the two handlers until it ends,
and the retry and the expansion of its claim pass through the other, so that a quota is in fact
taken back. The stale rollback needs one timeout, the other finding no fault. UUIDs are
`2 * claims + handlers`: each live volume, handle and handler remembers at most one, so a fresh one
always exists. A walker that comes round again while its worker is still busy finds the one place
of its channel taken, so it blocks. The runs of the system have two handlers, one stale and one
more, because the sweep multiplies their states. In `system_retries` the volume exists from the
start, as `--shared_volumes_list` takes UUIDs, which are not known before: `system_tasks`, where no
sweep runs, starts without it. `system_stale` meets bound claims without mode and owner: without its
exception `BoundIsReady` fails there. The mount path is clean in all instances; otherwise nothing
would be swept.

In `restored` each pod has two call slots, one for a call that kubelet gave up and one for its
successor, and the two pods race for the one extended attribute. The dynamic snapshot has two
slots as well; the pre-provisioned one is retained, so it is only listed, and has one. Four contexts
are one per call slot, so a fresh one exists. One fault shared by controller and node is enough for
each exception that the properties make to be met; the retries after it are free of faults. A third
VolumeSnapshot, which no claim uses, has an administrator's id of three parts, which is listed.
No target of the instance asks for mount options: it would only fail for ever. In
`driver_process` the requests are chosen to collide pairwise: credentials that read alike when
joined, one user with two passwords, a parameter spelled in two ways, and four cache keys (those of
two requests are one) for two places; one tenant is named in two ways. In `teardown` the two tests race for
the grants; the cleanup order of one is independent of the other. No state constraint is used.

The configurations of `dedicated_*`, `system_tasks`, `restored`, `driver_process` and `teardown`
turn deadlock checking off, because these systems stop: when all claims, pods or tests are done
and the faults are used up nothing is left to do, and a driver with refused options ends. The
sweep never stops, and the runs in which it is launched check for deadlock.

Fairness is weak everywhere: goroutines run, sidecars, snapshotter and kubelet retry, the backend
runs its tasks, a lost mount comes back, the container is started again, a test and its cluster
run on. Nothing is assumed of users (nobody has to delete a claim or a pod), of faults (whose
number is bounded) or of the order in which handlers run. Retrying is what the external sidecars
and kubelet do; the driver relies on it in every error return.

Every property of a passing run is paired with a mutant of a modelled definition, inline in
the module and marked `Mutant:`, that a plausible slip would make of the code; the run must
then fail.

## Findings

Each is a run that ends in the counterexample, and an entry of `PROJECT.json`.

1. `controller.go:168` (`dedicated_stale_rollback`) - the rollback of CreateVolume takes for
   granted that the volume is new and empty. After a timeout the volume may be the one that the
   retry answered.
2. `shared_volume_directory_deleter.go:48` (`sweep_unreadable`) - the error path dereferences the
   nil file that `os.Open` returned and ends the controller.

## Limits of the code

These shape the exceptions and assumptions that the passing properties state. Each was met as a
counterexample to the property without its exception, or follows from the mapped lines alone.

Dedicated volumes
* A CreateVolume handler that outlives its call and the binding by its retry sets the quota
  back to the first size, below what an expansion granted (`controller.go:163`), and so does an
  expansion that was given up before a later one (`:523`). `OnlyForgottenCallsShrinkQuotas` is checked
  with timeouts and says that nothing else does; `LedgerKept`, which such a step breaks, is checked without.
* The rollback drops its own error (`controller.go:168`), so a rejected volume can stay behind,
  which `storage_class_parameters_test.go:147-150` says it does not.

Shared volumes
* After an attempt that was cut off between Mkdir and Chown, by a failed Chmod or Chown, a failed
  look-up of the owner, a crash or a panic, the retry finds the subdirectory and answers without mode
  or owner (`shared_volume_mapper.go:25-38`), and so does one beside an attempt that was given up and
  is still on its way. The accessMode that "is applied to the claim's subdirectory"
  (`access_mode_test.go:35`) then is not. `BoundIsReady` is checked under these faults, with the client
  mount lost and regained, and says that nothing but a cut-off attempt of the claim itself leads there.
* ENOENT because the shared volume is missing from the client mount is taken for a finished
  deletion (`controller.go:286`; cf. `shared_volume_cleanup_test.go:37`): `DeletedIsGone` is checked
  while the mount shows the volume.
* A CreateVolume handler that outlives its call can make the subdirectory of a deleted claim
  again (`shared_volume_mapper.go:47`): `DeletedIsGone` and `StorageIsReclaimed` are checked without
  timeouts.
* A sharedVolumeName in another spelling makes a dedicated volume that has the shared one's name
  (`controller.go:69`, `:89`).

Snapshots and nodes
* A CreateSnapshot handler that outlives its call takes a deleted snapshot again
  (`controller.go:410`). Whether the retry of a DeleteSnapshot that took effect ever succeeds is the
  API's to decide (`:445`).
* ListSnapshots builds its ids of three parts, to "match the snapshot id" (`:480-482`), which an
  administrator's id with a subdirectory has four of: the id that is asked for is never among those
  listed. `SnapshotsSettle` promises nothing of such an id.
* The id of a dynamic snapshot drops the subdirectory of its source, as a TODO says (`:417`): a
  claim restored from it is mounted at the root of the snapshot.
* A publish that kubelet gave up and repeats mounts twice (`node.go:98`); unpublishing takes one
  away. `UnpublishedIsUnmounted` excepts such a target.
* Unpublishing where nothing is mounted fails for ever (`mounter.go:108`). It comes to that after a
  publish that kubelet gave up and that mounted nothing, and after an unpublish that succeeded and
  whose answer kubelet did not get. `TargetsSettle` excepts these two cases and no other.

Requests and start-up
* Credentials that read alike when user and password are joined share a client
  (`quobyte_api_client_factory.go:45`).
* A parameter given in two spellings takes the value that the map's order makes last
  (`controller.go:85`).
* An accessMode beyond 31 bits wraps into a negative mode (`:109`).
* `strings.Split("", ",")` is a list of one empty name (`main.go:78-79`), so the sweep is launched also
  without `--shared_volumes_list`; it skips the empty name (`shared_volume_directory_deleter.go:31-34`)
  and its walks find nothing. What turns it off is `--parallel_deletions=0`.
* With a `--quobyte_mount_path` that is not clean (`/mnt//quobyte`) no worker removes anything:
  `filepath.Join` cleans what the walker queues, and the worker compares it with the path as given
  (`shared_volume_directory_deleter.go:40`, `:62`).

Test framework
* `waitForGone` stops at the first failed API call (`wait.go:245`), and a claim that could not be
  read, or binds after it was read, has its PV not waited for (`apply.go:101`). The properties
  excuse the teardown after a failed call, so they do not show this; no suite of `MCTestTeardown`
  deletes a claim that is yet to bind.
* `ensureTestTenant` deletes its tenant without emptying it (`namespace_tenant_mapping_test.go:186-190`),
  while "the driver's erase leaves volumes behind for a while" and "a tenant that still holds volumes
  cannot be deleted" (`volume.go:259-261`): the tenant may stay, with a warning in the log, although it is
  meant to go "again afterwards" (`:68-69`). `NothingLeaks` allows a test of this kind its tenant
  and a volume that is being erased; one that empties its tenant first is held to leave nothing.
* `EnsureTenant` reads the shared user's grants and writes them back (`tenant.go:72-84`); two tests
  at a time may lose one of them.

## Proofs

TLC shows a property for the small instances above; the theorems hold for every value of the
constants under the named assumptions of the modules.

**Dedicated volumes** (`DedicatedVolumes_proofs`)

* `TypeCorrect`: `Spec => []TypeOK`;
* `BoundIsBackedAlways`: `NoStaleRollback` implies `Spec => []BoundIsBacked`;
* `OnlyDeletedClaimsLoseDataAlways`: `NoStaleRollback` implies `Spec => OnlyDeletedClaimsLoseData`.

`NoStaleRollback` (no timeouts, or no createQuota) is the exact line that finding 1 draws: with
timeouts and createQuota the two properties are false. `BoundIsBacked` is not inductive. The
invariant `BackingInv` adds where each operation's handlers may be (`ProgramOrder`), that a
remembered UUID is remembered for the claim whose name the volume has (`UuidsMatch`), that the
provisioner has one call per claim, in the phase that the call is for (`OneProvisioningCall`), that
a CreateVolume about to answer success holds a live volume (`CreateAnswersLive`), that deletions
only hold volumes of claims being deleted (`DeletesKnowWhat`) and that only bound or deleting
claims have data (`DataIsBound`). With these, a volume can only be removed by a rollback of the
one awaited handler of a pending claim, or by the erasure of a claim that is being deleted. The
proof sorts the actions into four kinds (a handler moves on, gets hold of a volume, removes its
volume, is forgotten or answers), shows each kind preserves the invariant, and places each
action in its kind.

**One volume per claim** (`OneVolumePerClaim_proofs`, on top of `BackingInv`)

* `OneVolumePerClaimAlways`: under every fault, no two volumes have one name;
* `CreateIsIdempotentAlways`: `NoStaleRollback` implies `Spec => []CreateIsIdempotent`;
* `DeletedLeavesNothingAlways`: without timeouts, `Spec => []DeletedLeavesNothing`.

The first needs no more than that the backend refuses a name that is taken. A successful
creation, also one that nobody waits for, holds a volume that exists until the claim's deletion
(`CreatedIsLive`), and as there is one volume per claim it is the bound one. While callers wait
(`CallersWait`), a claim being deleted has no creation left that could make another volume, so what
is left of it is the volume of its handle (`OnlyHandleIsLeft`). With timeouts a forgotten creation
can come after the deletion, and the property is false.

**Quotas and the ledger** (`Quotas_proofs`, on top of both)

* `OnlyForgottenCallsShrinkQuotasAlways`: `Spec => OnlyForgottenCallsShrinkQuotas`, under every fault;
* `LedgerKeptAlways`: without timeouts and with createQuota, `Spec => LedgerKept`, that is,
  `DedicatedVolumes` implements `CapacityLedger`;
* `PromisesFitAlways`: under the same conditions, what all bound claims were promised adds up to
  no more than the tenant has. No run checks this one: it is what the ledger is for.

`SetVolumeQuota` is called with the size of the request and never reads the quota, so the
invariant `QuotaInv` bounds what is on the way: quotas and requests do not exceed the size the
claim asks for now, a claim has one expansion that somebody waits for, and its size is not below the
volume's quota. A forgotten handler can set its older, smaller size; that only such a one can is the
first theorem, and that without timeouts there is none makes the second possible.

The refinement maps what is reserved for a claim to the quotas of the volumes of its name, and
what it is promised to the size that its caller was told. Setting a quota is the ledger's
`Reserve`, an answer `Promise`, the end of a bound claim `Withdraw`, a rollback or an erasure
`GiveBack`; every other step leaves the ledger alone (a new volume has no quota yet). The invariant
`LedgerInv` adds what makes these steps allowed: a promise has a quota as large behind it, a handler
about to answer success has set the quota of its size, and an expansion works on the volume of its
claim. The backend is assumed to check the limit against all volumes of the tenant when a quota is
set (`Fits`), as the comment in the code relies on it.

The limit is about sums over sets of any size, and induction is out of the prover's reach. `Capacity`
therefore counts units: a capacity of n is n units, and a sum is the number of all of them. One sum
equals another because of a bijection between their units, and is at most another because of an
injection, both facts of the library's module on finite sets; they need the live volumes to be
finitely many, which is part of the invariant and not an assumption on `Uuids`.

**The sweep** (`DirectoryDeleter_proofs`)

* `TypeCorrect`, and `OnlyOwnMarkersGoAlways`: `Spec => OnlyOwnMarkersGo`.

What a worker removes was read by the walker long before, so the invariant says of everything on
the way (what the walker has left to queue, the channel, the workers' hands) that it is the
driver's own (`OwnQueued`). The number of processes, workers and places is any.

**Shared volumes with the sweep** (`SharedVolumes_proofs`)

* `TypeCorrect`, `BoundHasDirectoryAlways`, `SweptWasDeletedAlways`, `DeletionMarksAlways`:
  under every fault, with no condition;
* `StorageKeptAlways`: `System => StorageKept`, that is, `SharedVolumeSystem` implements
  `ClaimStorage`, also under every fault;
* `DeletedIsGoneAlways`, if `CallsAreHeard` (no call is given up and the client mount keeps its
  volumes);
* `BoundIsReadyAlways`: `System => []BoundIsReady`, under every fault: without mode and owner is
  only a bound claim one of whose own attempts was cut off.

The condition is the one under which the run checks `DeletedIsGone`, and it is needed: see the limits
of the code above. Handlers take no lock, so the argument is about which handlers can
exist: a create handler that somebody waits for has a pending claim, a delete handler a claim
that was given up (`CallMatches`), a claim has one caller (`OneCall`), and tasks and markers are
made of claims that were given up only (`GivenUp`). As a given-up claim never comes back, no
deletion, however late, meets a bound claim. Every action is one of three kinds: storage moves,
a handler moves, claims move. The sweep's part is taken from `DirectoryDeleter_proofs`
by instantiation. For the last two theorems the invariant grows by what no late handler can
disturb (`MountInv`, `GoneInv`), and by the stage that a subdirectory has at each call of a handler
none of whose claim's attempts was cut off, each of which is awaited (`WholeInv`).

The refinement maps a claim's phase to its `tenure`, what is under its name to `own` (nothing, an
empty subdirectory, files), and the claims that have a marker to `trash`. Mkdir is `Provide`, a rename
or a task of the backend `Discard`, a removal by a worker `Empty`, the binding of the claim `Hold`, a
deletion asked for `GiveUp`; handlers, faults and restarts are stutters, and so are Chmod and
Chown. The steps are allowed by the invariant above, with the addition that nothing is left of a
subdirectory that is gone (`NothingLeft`), so that Mkdir makes an empty one. What no fault can do follows: a
claim that was given up is never held again, files come under a name by writing and leave it by deletion
only, and what the sweep empties was discarded before. `SweptWasDeletedAlways` is the part of it about
the sweep. That the trash is emptied in the end is `StorageIsReclaimed`, which TLC checks.

**Snapshots and nodes** (`RestoredVolumes_proofs`)

* `TypeCorrect`, `AnswersAreTrueAlways`, `SnapshotsStayAlways`, `MountUsesOwnKeyAlways`;
* `UnpublishedIsUnmountedAlways`, `RestoredShowsSourceAlways`.

They rest on what the modules assume of the outside: a volume's UUID names it and nothing else, no
two VolumeSnapshots name one snapshot (`NamesAssumption`), and a publish waits until there is a
context that nobody uses (the code takes a random one). The invariant for the snapshots is
that a handler belongs to the phase of its VolumeSnapshot (`CallsMatch`, `OneCall`), that an
answered id is the one that the handler will ask for again (`IdsSettled`), and that the files of a
snapshot are never newer than the volume's (`ShotsArePast`); for the node, that a publish
carries a claim that was restored (`PublishesMatch`) and that a context, once handed to
a mount or to a handler, keeps its key (`KeysMatch`).

The last two relate both drivers, under every fault (`FilesInv`). Of a snapshot that is ready, the
backend has only what is not newer than its VolumeSnapshot says (`FilesOfTime`); all that is mounted
at a target, also under a newer mount, leads into the snapshot its claim was restored from
(`MountsMatch`); and what kubelet knows bounds the stack of mounts (`KubeletInv`): one call that it
waits for per target, nothing mounted before a publish and one mount after, unless a publish was
given up. `IdsAssumption` is about pre-provisioned snapshots: the administrator's id names a
snapshot and the subdirectory it was taken of.

**Driver process** (`DriverProcess_proofs`)

* `TypeCorrect`, `ActsAsItselfAlways`, `FieldsAreGivenAlways`, `DedicatedVolumesStayApart`.

They hold for any requests, orders of parameters, cache sizes and crashes. The cache is an LRU list
in which each key occurs once and holds a client with the credentials that the key reads
(`CacheInv`), although look-up and filling are two steps; a handler's client has the key of its own
credentials (`ClientInv`). In the loop over the parameters each field is what one of the parameters
dealt with so far gave it, or its default (`LoopInv`, `Follow`), whichever came first. Only the last
theorem uses `NamesAssumption`: Kubernetes names PVs after unique ids, and no StorageClass names a
shared volume like a PV.

**Test framework** (`TestTeardown_proofs`)

* `TypeCorrect`, `CredentialsOutliveVolumeAlways`, `MountedHasVolumeAlways`, `NothingLeaksAlways`;
* `GrantsAreKeptAlways`: `Spec => GrantsAreKept`.

They are about any number of tests with setups of any length and order that `SuitesAssumption`
allows: a test is one claim with what it needs, made once, after what it needs; a PV of
the test's own is for a volume of its own; a claim that the driver provisions is waited for; the
cleanup of a tenant is registered before what is put into it; and a claim whose quota is refused is
in a tenant that is emptied. A tenant may be kept, deleted or emptied and deleted, and
`NothingLeaksAlways` says for each what stays. The
invariant `TeardownsInv` says of each test that its cleanups are in the order of its setup
(`CleanupsOrdered`), that until the teardown all that was made stands (`Intact`), that during it what
was not come to stands (`Standing`) and what was passed is gone (`TeardownInv`), why each
thing is there at all (`ClusterInv`), and that what a PV or a mount needs is there (`NeedsInv`);
between the tests, that a tenant granted when the grants were read was among the tenants listed
(`GrantsInv`).

Only model-checked: liveness (`RequestsEnd`, `WantedClaimIsBound`, `StorageIsReclaimed`,
`DeletionEnds`, `MarkersGo`, `SnapshotsSettle`, `TargetsSettle`, `ServesAgain`, `TestsEnd`), which is
out of the prover's reach. Every invariant and every action property that a passing run checks is a
theorem.

## Plan

Done: every module of the table above. Left:

1. Tests of several claims over one secret, class or tenant in `TestTeardown`.
2. A `SetVolumeQuota` that compares before it sets, as the fix for the stale quota, against which
   `LedgerKept` could be checked with timeouts.

## Not modelled

* `NodeGetVolumeStats`: it reads statfs and multiplies, and changes nothing; the identity service
  and the capability calls, which answer constants.
* The Quobyte API library and the backend beyond what the driver relies on; the file contents
  of volumes beyond whether, and as of when, there are any.
* Of the test framework: its configuration from the environment, commands in pods, dumps of
  artifacts, the building of Kubernetes objects. They keep no state that a later step reads.
* The bodies of the end-to-end tests and the upstream storage suite they call: they state what the
  driver promises, and are quoted where a property or a finding is about it.
* Generated mocks, formatting and logging, build files and the Helm chart.
