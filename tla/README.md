# A TLA+ model of nativestor

nativestor provisions node-local storage for Kubernetes in two ways: whole disks as *raw devices*
(`driver/raw_device`, `pkg/raw_device`, `pkg/operator/discover`), and volume groups for TopoLVM, which
the operator sets up on the nodes and deploys (`pkg/operator/topolvm`). This directory models both, and
the controllers that deploy them as the operator's settings say. Paths are relative to the repository.

## 1. The system

### Components, their state and their operations

| Component | Source | State | Operations |
|---|---|---|---|
| Raw device CSI controller service | `driver/raw_device/controller.go`, `pkg/raw_device/controller/cmd/run.go` | none of its own; an informer cache (lister) of RawDevice objects per replica | CreateVolume, DeleteVolume, GetCapacity, ValidateVolumeCapabilities |
| RawDevice objects | `apis/rawdevice/v1`, `pkg/operator/k8sutil/rawdevice.go` | `Spec` (path, size, availability), `Status.Name` (the mark of a taken device), resource version | create, update of the spec, update of the status, delete, watch |
| Discovery daemon, one per node | `pkg/operator/discover/discover.go`, `pkg/util/sys/disks.go` | lister of RawDevices; the keys `devices` and `status` of the ConfigMap `lvmd-<node>` | scans on a timer and on udev events: create or update and delete RawDevices, publish the disks, check the device classes |
| External provisioner (sidecar, not in the repository) | deployed by `pkg/operator/raw_device/csi` | PersistentVolumes, claims | calls the controller service, retries |
| Raw device CSI node service | `driver/raw_device/node.go` | device nodes of pods, a mutex | publish, unpublish |
| preparevg job | `pkg/operator/topolvm/volumegroup/preparevg.go`, `pkg/util/sys/lvm.go` | volume groups of a node; the keys `status` and `lvmd` of its ConfigMap | create, retry, extend, shrink and remove volume groups |
| Volume group manager | `pkg/operator/topolvm/volumegroup/vgmanager.go`, `pkg/operator/k8sutil/job.go` | one job per node, by name | start or replace a preparevg job and wait for it |
| TopolvmCluster controller | `pkg/operator/topolvm/controller/topolvmcluster_controller.go` | the cluster object, its finalizer, the specification reconciled last, the status checker | reconcile; deletion with clean-up |
| lvmd ConfigMap controller | `.../lvmdconfig_controller.go` | deployments of lvmd, status of the cluster | onAdd, onUpdate |
| Cluster status checker | `pkg/operator/topolvm/monitor/status.go` | status of the cluster | checkStatus every 60 seconds |
| Clean-up | `.../controller/cleanup.go`, `pkg/operator/topolvm/clean`, `cmd/cleanup` | one job per node, its volume groups and disks | runs while a cluster is deleted |
| Operator settings and deployment controllers | `pkg/operator/topolvm/csi`, `pkg/operator/raw_device/csi`, `pkg/operator/discover/daemon.go` | deployments, daemon sets, CSIDriver objects | start and stop three drivers as the settings ConfigMap says |

The other components (identity service, gRPC runner, text parsing, metrics, certificates, generated
clients) keep no state that interacts; `PROJECT.json` says for each why it is not modelled.

### How the parts interact

*Raw devices.* A daemon scans its node and writes one RawDevice per disk; it deletes those of disks it
did not find, when its lister shows them unmarked. CreateVolume picks a smallest fitting free device
from the replica's lister and marks it with one `UpdateStatus`; the mark is the device's name, and that
is the volume id. DeleteVolume looks, again in the lister, for the mark and clears it. The API server
refuses a write whose resource version is not the newest: that is the only synchronisation between
replicas, calls and daemons. The node service makes a device node for a pod under one mutex.

*Volume groups.* A TopolvmCluster names the groups and disks of each node. The reconciler compares the
specification with the one it reconciled last and asks for a job per node (`RunReplaceableJob`). The
pod of the job reads the specification and the ConfigMap `lvmd-<node>`, runs LVM commands and patches
what it did into `status` (created and failed classes) and `lvmd` (the configuration). The daemon
publishes disks under `devices` and, when the groups look different, patches `status` as well. None of
these patches carries a version. The operator's informer of these ConfigMaps copies `status` into the
cluster, restarts the job when `devices` changes, and replaces the pod of lvmd when `lvmd` changes. The
status checker computes phases and writes them to the same cluster object, under a lock it shares with
the handler. A deletion stops the checker, empties the ConfigMaps, runs the clean-up jobs, which remove
the groups the specification names, and takes the finalizer away.

*Settings.* A change of the settings ConfigMap is a request for each of the three controllers, which
create or delete their objects one API call after the other; the handler of the lvmd ConfigMaps makes
node deployments from the same settings.

### Hard behaviours, and what correctness means

* **Stale reads.** Calls, reconciler, handler and checker decide on copies that lag. Correct means:
  what is *written* is still right when it is written (`GrantsFreeDevice`, `FreesMarkedDevice`,
  `OnlyCallsMoveMarks`, `ReportsKept`, `ReadyNodesHaveClass`), and the replicas together behave as one
  atomic allocator (`ImplementsAllocation`) without leaks (`MarkedIffHeld`).
* **Patches without versions.** Jobs, daemon, operator and clean-up write one ConfigMap. Correct means
  that groups, records and served classes part only where the code writes an old copy back
  (`ServesRecorded`, `RecordsKept`), that nothing is left of a deleted cluster (`NothingLeft`), and that
  disks and readiness are right in the end (`DevicesPublished`, `ReadyIfComplete`).
* **Failures in the middle.** A pod can die between any two LVM commands and the next one starts from
  what the last has recorded. Whatever happens, the groups may change only as the specification allows
  (`ImplementsGroups`), and a class in use stays served (`UsedClassStaysServed`).
* **Timeouts, retries, restarts.** A call nobody waits for goes on (`NoTargetLeft`, `UniqueVolumeIds`),
  and a failed or interrupted one leaves no lock and no device node behind (`TargetsFollowPods`).
* **Nothing is forgotten.** Edits, deletions, reports and settings arrive while the last one is worked
  on (`SpecApplied`, `LvmdFollows`, `StatusReported`, `PhasesFollow`, `DeletionFinishes`,
  `RestMeansApplied`, `DriversFollow`, `NodesFollow`).
* **Arithmetic.** Bytes and GiBs are rounded in different directions and shifted without an overflow
  check (`GrantCoversRequest`); GetCapacity measures in bytes what CreateVolume compares in GiBs
  (`GrantsUpToMaximum`).

`PROJECT.json` lists every hazard at its line with the properties that cover it, or why none does.

## 2. The modules

| Module | Models | State and actions in terms of the code |
|---|---|---|
| `RawDeviceApi` | API server and informers of RawDevices (external) | `store`, `revision`; `cache[r]`, the lister of process `r`; `pending[r]`, watch events on their way. One action per call of the clientset; `RestartReader` is a process with an empty lister |
| `RawDeviceCsi` | CreateVolume, DeleteVolume | `call[k]`: one gRPC call and the object it holds. `PlaceVolume` = the branch without topology; `ChooseDevice` = `createVolume` up to the DeepCopy; `FindVolume` = `deleteVolume` up to the DeepCopy; `UpdateStatus` = the write both end in |
| `CsiProvisioner` | the sidecar and the claims (external) | `pv[v]`: phase, volume id and the call waited for; retries, lost and late answers |
| `RawDeviceDiscovery` | the daemon's raw device half | `scan[n]`: the progress of one scan, each API call a step. `ChangeDisk` is the hardware |
| `RawDeviceSystem` | the four above together | `Init`, `Next`, fairness, properties |
| `VolumeAllocation` | the abstract allocator | a volume gets at most one device in its life, a device has at most one volume at a time |
| `RawDeviceInvariant`, `RawDeviceProofs` | – | the inductive invariants `IInv` (always) and `HInv` (without faults) and the proofs about `RawDeviceSystem` |
| `RawDeviceSearch`, `RawDeviceSearchProofs` | the loops and the arithmetic of `controller.go` | one step per list element, sizes in bytes, integers that wrap around; the proofs |
| `RawDeviceNode`, `RawDeviceNodeProofs` | `node.go` and the kubelet (external) | `mu`, `target` (pods with a device node), `call[k]` with whether its context is cancelled. `GetRawDevice`, `Mknod` and `Remove` may also fail with a live context (`Fails`); `Answer` gives the mutex back; the proofs |
| `LvmNode` | LVM commands and disks of one node | `pv[d]`: raw, labelled, or in which group; disks that are missing; logical volumes; `faults`. `Works`/`Fails` are the two outcomes of a command |
| `LvmdConfigMap` | the ConfigMap of a node and the events it makes | `cm` with the keys devices, status, lvmd; `changed`: the keys whose change the informer has still to deliver. `Patch(old, new)` writes only keys that differ |
| `PrepareVg` | the pod of the preparevg job | `pod`: what it has read, the class it is at, the commands it has done, what it will record. One action per LVM command, API read and patch |
| `PrepareJob` | RunReplaceableJob, WaitForJobCompletion, DeleteBatchJob; the job controller (external) | `job`, `tries`, `asks[l]`: where goroutine `l` is |
| `DeviceClassCheck` | updateDeviceCM, checkDeviceClass | `daemon`: the disks and the status it has read, per step |
| `CleanUpJob` | the pod of the clean-up job | `cleaner`: groups and disks it has still to look at |
| `VolumeGroups` | what jobs and clean-up promise of the groups | a group is made of named disks, extended by named disks, loses disks only when they are not named and not in use, and groups of others stay – unless a clean-up ends them |
| `TopolvmNode` | `LvmNode` to `CleanUpJob` with reconciler, handler and deletion, for one node | `spec`, `life` (how far a deletion is), `seen` (`r.cluster`), `informed` (the informer runs), `event` (the work queue), `report` (the status in the cluster), `plugin` (what lvmd has read) |
| `TopolvmNodeProofs`, `TopolvmGroupsProofs`, `TopolvmRecordsProofs` | – | the proofs about `TopolvmNode`: types, volume groups, records |
| `ClusterApi` | the cluster object and the operator's cache | `cr`, `copies[a]`: what actor `a` has read, and whether its resource version is current. `Update` is `UpdateStatus` with its second attempt that never happens |
| `StatusChecker`, `LvmdController`, `ClusterController` | checkStatus; updateClusterStatus; reconcile and reconcileDelete | `check[k]` with the lock `lock`; `news`, `reporting`; `reconciling`, `todo`, `health` |
| `TopolvmCluster`, `TopolvmClusterProofs` | the four above together, for several nodes | properties; the proofs |
| `OperatorSettings`, `OperatorSettingsProofs` | the three deployment controllers and the handler's node deployments | `settings`, `cache`, `feed`, `obj[c]`, `ctl[c]` (the objects left to do), `node`, `handler`; the proofs |
| `MC…` | – | instances for TLC |

`TopolvmNode` has one node and what happens on it in every detail; `TopolvmCluster` has several nodes and
the writes to the object they share. Each leaves to the other what it abstracts: conflicts of the status
write are one fault (`"write"`) in `TopolvmNode`, and what jobs record is arbitrary in `TopolvmCluster`.

### Abstractions

* Of `RawDevice.Spec` size and availability are kept. `RawDeviceCsi` counts GiBs and lets `createVolume`
  take *any* smallest fitting device; `RawDeviceSearch` shows, in bytes and list order, which.
* An API call fails by conflict, NotFound or AlreadyExists; one that cannot reach the server ends like
  one that times out, and the models have that as a fault at every step where the code handles it.
* A scan reads a disk completely or misses it (`MaxSkips`). In `PrepareVg` udev data that cannot be read
  make a disk look available (`Blind`, fault `"udev"`).
* A device class is a name with a set of disks; class name, group name and `lvmd.yaml` entry are one
  value, which the code keeps the same. Default class, spare sizes and stripes are left out.
* LVM is modelled by what its commands need and do to labels and groups. A command that changes several
  disks may fail before it does anything; `pvcreate` and `pvremove` are done disk by disk.
* Validation that reads only a request, and logging, are left out.
* A status is compared as sets of classes. The code compares text, in which the classes stand in the order
  of a Go map, so from two of a kind on an unchanged status may be written back (`Reorders`). The runs have
  no node on which two classes can both be written back so over a status that changed meanwhile; the proofs
  about records cover it.
* What a manifest says is one `Version` in `OperatorSettings`.
* With `useAllNodes` a specification names one group and no disk per node; the clean-up then strikes off
  no named disks (`DisksToClean`). `TopolvmNode` uses one constant, `UseAllNodes`, for this and for the
  job that changed devices start.

## 3. What TLC checks

| Run | Instance | Shows | States |
|---|---|---|---|
| `RawDeviceAllocation` | 2 replicas, a daemon, 2 devices of 1 and 2 GiB on 2 nodes, 2 volumes with and without topology, 2 calls, 1 resize or reuse of a disk, no faults | the subsystem implements the abstract allocator, marks and held volumes agree, ids are unique, equal versions are equal objects | 599 960 |
| `RawDeviceDiscovery` | 1 replica, a daemon, 1 device, 1 volume, 2 calls; a disk change, a missed disk, and a timeout or restart; fair | the inductive invariant; scans move no marks; creates take and deletes free only what they may; records, claims and releases come right | 176 230 |
| `RawDeviceSearch` | lists of up to 3 devices on one node and up to 2 on two, GiB = 2, 4-bit integers beside it | the loops compute what they should, between whole GiBs and where the shift overflows; what CreateVolume grants is what GetCapacity answers, in whole GiBs | 189 712 |
| `RawDeviceNode` | 2 pods, 3 calls, 3 timeouts, failures of a call's own, or restarts; fair | no device node is left behind; in the end the pods that are not deleted have theirs and no others | 180 575 |
| `TopolvmNode` | 2 disks, 2 classes: one that grows, shrinks, or gives way to one of another name, or a cluster that is deleted with its clean-up and created again under another class; changed devices start jobs; no faults; fair | groups, records and served classes part only by an old copy or a lost pod; the specification is applied or a class reported as failed; lvmd, devices and the reported status follow; a deletion leaves nothing | 487 937 |
| `TopolvmFaults` | 3 disks, 2 classes, a group of others, 1 volume, 1 edit or deletion, 1 fault: a command, udev data, a disk, a pod, the daemon, the operator, a wait, a write | the groups change only as `VolumeGroups` allows; a class in use stays served | 1 950 130 |
| `TopolvmCluster` | 2 nodes, 2 checkers, a cluster created twice, 3 edits, deletions, reports, pod changes or restarts; fair | reports are kept, a node is shown as ready only with a ready class, phases follow, deletions finish | 422 542 |
| `OperatorSettings` | 2 nodes, 3 controllers looked at one by one, 3 edits, 3 failed calls or restarts; fair | a controller at rest has applied what is set; drivers and node deployments follow the last edit | 470 275 |

**Why the bounds are enough.** The conflicts of the raw device code are between two writers of one
object: two replicas, two calls and a daemon give every pair. In `RawDeviceAllocation` a disk grows, so a
claim is refused before and bound after, and a device is taken, freed and taken while old copies are
about. `MaxLag = 1` suffices because a call holds the copy it has chosen over any number of writes of
others; the proofs hold for every `MaxLag`. In `RawDeviceDiscovery` a call that timed out goes on beside
its retry. In `RawDeviceNode` the third call is what a timeout leaves behind while two pods go on; three
faults give a publish that fails or is given up, its retry, and an unpublish that does. On a
node, jobs are sequential per name, so what can go wrong is between two goroutines that replace one job
(`Launcher` has a reconciler's and the handler's), the job's pod, the daemon and the operator: each is
there once. One edit after a settled first job gives every transition between two specifications of
`Wishes`; one fault hits any step of either job. The properties of the records need a second class only,
whose record the daemon or a pod can lose; with two edits (3 839 165 states) they hold as well, and the
proofs say that more disks, groups or edits add nothing. In `TopolvmCluster` three events give a report between a
deletion and a second cluster; the second checker is the one a deletion stops while it still sleeps. The
settings' controllers share nothing but the settings and a work queue each, so one at a time loses only
their interleaving, which nothing reads.

**What `Patient` restricts.** In `TopolvmNode` users edit, delete or create the cluster only when
nothing of the last change is under way (`Settled`); before a deletion the devices are published, and
before a re-creation the job and the deployment are collected and the daemon's check and the clean-up
have ended. `Returns` are the specifications a deleted cluster may be created with again, none for an
administrator who never does. In `OperatorSettings` edits wait for the handler to be idle, the handler builds a deployment
only when the informer has delivered everything, and restarts wait for deletions in progress. Without
these the properties do not hold; the remarks below say what happens then. `TopolvmLostEdit` is
`TopolvmNode` with an administrator who does not wait.

**Deadlock** is checked where a raw device daemon runs (its scans never end). Elsewhere the system does
stop: a search ends, volumes and pods are gone, a cluster is reconciled and nobody edits any more.

**Fairness**, and why the code has it. Raw devices: informers deliver, a goroutine serving a call runs to
its end, the provisioner retries from a queue, and the daemon's loop wakes on `probeInterval` for ever
(`discover.go:147-157`). `RawDeviceNode`: goroutines run on, and who waits for the mutex gets it in the
end (strong fairness of `Lock`; a Go mutex hands itself to a goroutine that has waited 1 ms); the kubelet
retries, and calls do not go on failing of themselves (`MaxFaults`). `TopolvmNode`: pods, jobs, goroutines, daemon, clean-up and garbage collector go on; the
daemon looks at the classes again and again although udev events may make it skip them at times
(strong fairness of `ReadClasses`). `TopolvmCluster` and `OperatorSettings`: informer, reconcilers,
handler, checkers and the garbage collector go on. Users, faults, disks and kubelet timeouts owe nothing.

**What liveness does not say.** `EveryReleaseFrees` says that the *device* is freed. That the delete is
ever *answered* with OK does not hold once an answer is lost: the retry finds no mark, `deleteVolume`
answers NotFound, and so does every further retry. In the same way `TargetsFollowPods` says that the
*device nodes* are right in the end, not that the kubelet is told. Once the answer to a publish is lost its
retries find the target there and fail (`node.go:103`); and after a publish that failed before Mknod, or an
unpublish whose answer was lost, `os.Remove` finds none and NodeUnpublishVolume fails for ever
(`node.go:134`), so that a deleted pod stays.

### Findings

Four runs are expected to find a violation; each compares the code with a line of the repository.

| Run | What happens |
|---|---|
| `RawDeviceRetriedDelete` | the volume id is the device's name: a DeleteVolume retried after a late answer clears the mark of the *next* volume, and the device is granted twice (`csi.pb.go:1356-1357`: the id uniquely identifies the volume) |
| `TopolvmEveryDisk` | with `useAllDevices` the second job of a node takes the disks of the group for dropped ones, as they are not available any more, and removes the group (`docs/user_manual.md:47`, `:49`) |
| `TopolvmLostEdit` | a disk added while a job runs is never added to its group: the active job is kept, and it has read the old specification (`docs/user_manual.md:223`) |
| `TopolvmLostReport` | the handler's status write loses against the checker's, the second attempt needs an error that is a conflict and invalid at once, and the report is dropped for good (`preparevg.go:254`: the ConfigMap is written to update the status) |

### Remarks

Behaviour the models show, or that came up while writing them, and for which there is no run of its own.
Some of it differs from what the comments of the generated CSI interface ask for; these lines are named.
Of the rest no line of the repository says otherwise.

*Raw devices.* A create retried after a late answer marks a second device, as nothing of the request's
name is stored (`controller.go:93`); `csi/csi.pb.go:901-907` asks that several CreateVolume calls of one
name provision one piece of storage, and warns of unused volumes otherwise. The request is compared with
its limit before it is rounded up past it, so the volume can be larger than `limit_bytes` (`:244`), which
`csi/csi.pb.go:1291` excludes. `maximum_volume_size` is in bytes while devices are compared in GiBs: of a
device that is no whole number of GiBs, a request of just the maximum answered is refused, against
`csi/csi.pb.go:2592-2595` (`:74`, `:402`); requests whose whole GiBs are within the maximum are granted
(`GrantsUpToMaximum`). `minimum_volume_size` is the size of the smallest free device, or 0 when the first of
the list is not free (`:399`), and not the smallest usable `limit_bytes` of `csi/csi.pb.go:2608-2610`; no
property is about it. A disk one scan misses while the lister does not show its mark loses its marked object
(`discover.go:199`). Publish and unpublish are not idempotent: repeated after a lost answer they return
errors, for ever.

*Records.* The daemon's check reads the records, looks at the groups and writes the records back
(`discover.go:353-409`); a class that a job records in between is lost, with no fault at all, and the
next job takes its group, which may be in use, for one that others made, and drops it from the
configuration of lvmd. `UsedClassStaysServed`, `ServesRecorded` and `RecordsKept` name this step
(`StaleCheck`) and say that nothing else does it. A pod that saves after such a write records what it had
read and can undo it again (`StaleSave`). A job that a second goroutine deletes between `vgcreate` and the
patch, or whose pod dies there, leaves a group without a record (`PodLost`), and its class fails for ever.
A removed group whose disk cannot be wiped keeps its record (`WipeFails`).

*Renaming.* A class whose disks another class still held when the job came to it fails, although the
job removes that other class afterwards. The retry that would succeed is asked for while the job is
still active, and is dropped (`job.go:48`); `SpecApplied` therefore allows a class that is reported as
failed.

*preparevg.* A `pvcreate` that succeeded before the group could be made leaves a label, and the class
fails for ever. A group with a single disk whose command fails is never shown as unready. A group made by
a retry lists no devices, so the check of its devices says nothing (`preparevg.go:516`). A failed
creation of a loop device is recorded as successful (`preparevg.go:745-756`).

*Jobs.* `DeleteBatchJob` goes by the name and can delete the job another goroutine has just made
(`job.go:46-61`); it is repeated, so this costs time only.

*Status.* `checkStatus` decides on the loop's copy of a node, so a cluster without a ready class can be
shown as ready (`status.go:232`). The metric is sent before a write that may be refused, and not after a
restart (`status.go:255`).

*lvmd.* When the operator restarts between a change of the ConfigMap and `replaceNodePod`, lvmd keeps its
old configuration.

*Deletion.* A device change just before a deletion lets the handler start a preparevg job that runs
beside the clean-up and makes groups or records again. A daemon's check that began before a deletion can
write old classes into the map of the next cluster. A clean-up pod that fails ends the wait at once and
the finalizer goes; the pod started again finds no cluster – or a new one of the same name, which it
cleans. So does a clean-up that outlives its 15 minutes. The clean-up goes by the names of groups: one
that others made and preparevg refused is removed as well, if it holds no volumes.

*Settings.* A deletion that fails or is given up after 90 seconds is swallowed by `stopDrivers`, and the
object stays. A restart during a foreground deletion, after which the driver is switched on again, ends
in an update of an object that is dying. The handler can build a node deployment from settings that have
just changed. The deletion of the settings ConfigMap triggers nothing. The first start of the discovery
daemon set only logs its errors.

## 4. What is proved

All proofs are checked by TLAPS for every value of the constants that satisfies the named assumptions of
the modules: any number of nodes, replicas, devices, pods, calls, faults, edits, any lag, any lists.

| Module | Theorems | Statement |
|---|---|---|
| `RawDeviceProofs` | `InvariantHolds`, `TypesHold`, `VersionsAgree` | `Spec => []IInv`, `[]TypeOK`, `[]SameVersionSameObject` |
| | `CreateTakesFreeDevice`, `DeleteFreesItsDevice`, `DiscoveryKeepsMarks` | `Spec => GrantsFreeDevice`, `FreesMarkedDevice`, `OnlyCallsMoveMarks` |
| | `MarksAreHeld`, `VolumeIdsAreUnique`, `AllocatesAtomically` | `Faultless => (Spec => …)` for `[]MarkedIffHeld`, `[]UniqueVolumeIds`, `ImplementsAllocation` |
| `RawDeviceSearchProofs` | `SearchInvariant`, `LargestIsPlaced`, `BestFitIsChosen`, `GrantIsLargeEnough`, `MaximumIsGranted` | `Spec => []SearchInv`, `[]PlacesOnLargest`, `[]ChoosesBestFit`, `[]GrantCoversRequest`, `[]GrantsUpToMaximum` |
| `RawDeviceNodeProofs` | `NodeInvariant`, `TargetsAreRemoved` | `Spec => []IInv`, `[]NoTargetLeft` |
| `TopolvmNodeProofs` | `NodeTyped` | `Spec => []TypeOK` |
| `TopolvmGroupsProofs` | `GroupsAreKept`, `NamedDisksAreKept` | `Careful => (Spec => ImplementsGroups)`, `Careful /\ CleanUp = FALSE => (Spec => NamedDisksStay)` |
| `TopolvmRecordsProofs` | `UsedClassesStay`, `ServedAreRecorded`, `RecordsAreKept` | `Patient = TRUE => (Spec => …)` for `UsedClassStaysServed`, `ServesRecorded`, `RecordsKept` |
| | `PodsAreCurrent` | `Patient = TRUE => (Spec /\ [][~StaleCheck]_vars => [][life = "there" => ~StaleSave]_vars)` |
| | `ServedAlwaysRecorded` | `Patient = TRUE => (Spec /\ [][~StaleCheck /\ ~JobAsked]_vars => [](Served = Recorded))` |
| | `NothingIsLeft` | `Patient = TRUE => (Spec /\ [][~Mishap]_vars => []NothingLeft)` |
| `TopolvmClusterProofs` | `ClusterInvariant`, `OnlyReportsChangeClasses`, `ReadyNodesAreReady` | `Spec => []IInv`, `ReportsKept`, `[]ReadyNodesHaveClass` |
| `OperatorSettingsProofs` | `SettingsInvariant`, `SettingsTyped`, `RestIsApplied` | `Calm => (Spec => []…)` for `IInv`, `TypeOK`, `RestMeansApplied` |

*Raw devices.* A create decides on a copy that may be arbitrarily old, so `GrantsFreeDevice` cannot
follow from the guard of the write, which only compares versions. What makes the comparison a test of
everything the copy said is that *every copy of an object anywhere* (in a cache, on its way to one, held
by a call or a scan) is a `Version`: not newer than the last write, marked with nothing but its own name,
and equal to the stored object if it carries the same resource version. `IInv` says this of each place in
turn, because copies move between them; `AsAsked` says what a call's copy looked like when it was chosen.
The proof first shows that every step writes the API in one of few ways (`ApiEffect`), each of which
keeps versions versions, and then treats calls, volumes and scans apart.

*Raw devices without faults.* `AllocatesAtomically` is the refinement of `VolumeAllocation`: calls of many
replicas, which choose from caches of any age, and daemons, which rewrite and create objects, act like one
allocator. `Faultless` means that no call times out, no process restarts, no scan misses a disk and no disk
goes for good; disks may still appear, grow, be used and be freed, and writes conflict. It is what
`RawDeviceAllocation` has, where TLC checks the same three properties. None of its parts can be spared: a
delete repeated after a timeout frees the device of another volume (`RawDeviceRetriedDelete`), and a disk
that is missed or gone takes its marked object with it when the daemon's lister is old, so the device comes
back free. TLC finds two bound volumes with one id in instances with either. Without faults, `HInv` says: a recorded disk is there and every scan finds it, so no object is
ever deleted (`NoneDeleted`), and what a lister shows exists (`ListedExist`); every call is the one its
volume waits for, and the other way round (`CallsAwaited`, `VolumesWait`); a volume holds its device from
the moment the mark is written, not from the answer, until the mark is cleared, alone (`HeldOnce`,
`MarkedIffHeld`). The proof shows of every step that it changes no mark and no holder, or marks one free
device for the volume of the call (`Grants`), or clears the mark of a call's device and takes it from its
volume (`Frees`).

*Searches.* `SearchInv` states for each loop what it has established of the part of the list it has read.
`GrantIsLargeEnough` needs arithmetic besides: rounding up covers the request (`RoundUpCovers`), and a
granted request cannot have overflowed, because a device of at least that many GiBs exists (`NoOverflow`).
The check at `controller.go:174` is not what protects the answer; the search is. `MaximumIsGranted` compares
the two services on one list: a device has room for a number of GiBs exactly when these are not more than its
bytes (`WholeUnits`), so what fits the largest free device is what the maximum, rounded down, allows.

*Node service.* `NoTargetLeft` speaks of the kubelet's view of a pod and the file system, which only the
calls in between connect. A call may fail at every step. The invariant says who has the mutex, which calls the kubelet still waits for,
and that a call for a cleared pod – one whose unpublish has been answered – is either cancelled before
its Get, which then fails, or past everything.

*Types of a node.* `TypeOK` of `TopolvmNode` is proved with `TInv`, which adds where the pod, the daemon
and the clean-up may be in their work: what a stage has not read yet it does not hold.

*Volume groups.* `GroupsAreKept` is the refinement of `VolumeGroups` by everything that happens on a
node: `Groups!GroupsInit` holds at first, and every step is a `Groups!GroupsNext` or leaves the groups
alone. It says that each of the many LVM commands, issued by a pod that knows only what it read when it
started, does to the groups what the specification of *this moment* allows. The invariant `GInv` says
why: a pod works for an active job (`PodHasJob`), on the specification there is (`PodWants`), extends a
group only by disks of its class (`PodExpands`); nobody has a record of a group that others made, not
the ConfigMap, the pod or the daemon (`OnlyLost` in each), so no job takes one for its own; a clean-up
runs only at the end (`CleanerEnds`), and volumes are in groups (`InGroups`). The exception `Lost` is a
group of others that the clean-up of the same specification has removed and a late pod makes again.
`Careful` has four parts. Without `AllDevices = FALSE` or `Patient` the statement is false
(`TopolvmEveryDisk`; the pod of an old specification). A class without disks makes sense with
`useAllDevices` only. And when clusters return after a clean-up, a group that others made, and the
clean-up removed under its name, would be anyone's, so no specification may name one. Launchers, faults,
groups, disks, volumes and retries are arbitrary. `NamedDisksAreKept` follows: without a clean-up, what
`TopolvmEveryDisk` finds needs `useAllDevices`.

*Records.* Pod and daemon each hold a copy of the records, and the configuration of lvmd is written by
whoever makes or removes groups. `RInv` relates all of them: what the pod has in memory is what it read
but for the classes it is done with (`PodCounts`, `PodHolds`); groups it made exist and those it removed do not
(`PodMade`); a class that is served and recorded is in every copy of the records that can still be
written, and what a copy has beyond the records is served (`PodAgrees`, `DaemonAgrees`). A step of the
pod between its reads and its patch is summarised by the groups it changes, the classes it forgets and
the groups it makes (`Does`), so that the preservation of the invariant is proved once (`DoesCounts`,
`DoesMade`). The crux is the patch (`SaveWrites`, `SaveSets`): it writes `status` only if it differs from
what was read, `lvmd` likewise, so the ConfigMap ends up with a mixture of new, read and current keys,
and the invariant is what makes the mixture agree. The theorems assume `Patient = TRUE` and nothing
else; faults of every kind, any number of goroutines replacing the job, and `useAllDevices` are covered.

*Where old copies come from.* Two theorems sharpen these. `PodsAreCurrent`: a pod's copy of the records
is current until it saves, whatever jobs overlap, so it writes an old one (`StaleSave`) only after the daemon
has (`StaleCheck`). `ServedAlwaysRecorded` turns the step property into an invariant of every state, from
one cluster to the next; for that, no job may be asked for during a deletion (`JobAsked`) either: its pod
can hold the records from before `cleanLvmdConfigmap`, find one changed, and patch the status back but
not the unchanged lvmd key, as TLC shows with two faults.

*Nothing left.* After any number of edits, jobs, faults and earlier clusters, a deletion with a clean-up
leaves no group of ours and no record, or one of seven steps has happened, which `Mishap` names: a check
written back after the records changed (`StaleCheck`), a job's pod lost with what it did (`PodLost`), a
record dropped though `vgremove` failed (`ForgetsVg`), a group the clean-up cannot remove (`SkipsVg`), a
clean-up that fails (`CleanerLost`) or outlives its wait (`CleanerLate`), a job asked for during the
deletion (`JobAsked`). The clean-up only knows the names in the last specification, so `LInv` follows every
group through the cluster's life: what exists is in the memory of the pod that works, or else recorded
(`Tracked`), and a pod reads what is recorded until it saves (`ReadsRecorded`); so a job removes all that
earlier ones made under other names, and when it is done only groups of the specification are left,
unless an edit still waits for its job (`Applied`, `Owed`). That is what the clean-up starts from, and
each group stays on its list until it is removed (`CleansUp`), while nobody makes a group (`NoJob`) or
writes a key the operator has emptied (`Emptied`). TLC agrees with `LInv` for three edits or deletions and
a fault of any kind (5 179 966 states), and finds `NothingLeft` violated when any one of the seven is
allowed and the others are not, so none can be spared. The run `TopolvmNode` deletes a cluster that has
seen no edit and no fault, and meets none of them before the deletion.

The assumptions on constants (`MapAssumption`, `PrepareAssumption`, `NodeAssumption`) say that the values
that stand for something absent (`None`, `NoMap`, `NoClass`) are none of the values that are there, a
specification included, and what `checkStorageConfig` accepts. TLC evaluates them in every run.

*Cluster.* The invariant says that a copy with the current resource version is the object
(`CurrentCopies`, which is what the external API server gives) and that a goroutine that may write has read a
cluster (`WriterCopies`). Both theorems then rest on what the writers compute (`StepWrites`): a check sets
phases and keeps classes, a report replaces the state of its node as a whole, phase included, and everything
else leaves the nodes alone. So classes change by reports only (`OnlyReportsChangeClasses`), and a phase of
Ready never outlives the ready class it was given for (`ReadyNodesAreReady`).

*Settings.* `RestMeansApplied` speaks of idle controllers. The invariant says of a busy one that what is
not in its list `todo` any more is done, or a request is queued or an undelivered change will queue one.
`Calm` is `Patient = TRUE` and no failing deletions; without it the property does not hold (see the
remarks).

**Only model-checked.** All liveness, as fairness is out of the prover's reach, and with it
`SpecApplied`, `ReadyIfComplete` and the other properties that hold in the end. Every safety property of
a passing run has its theorem.

## 5. Not modelled, and what is left

* Loop devices (`checkLoopDevice`, automatic loop devices of preparevg) and device numbers: a disk is
  its path. A second model of `PrepareVg` with names that are resolved late would cover the hazard at
  `preparevg.go:444`.
* Text: parsing of lsblk, udevadm and lvm output, the rendering of `lvmd.yaml` and of manifests.
* Metrics, the readiness of Kubernetes nodes, capacity annotations, CSI drivers, pod security policies,
  certificates, Prometheus rules: one-off objects or numbers nothing decides on.
* The collapsing of udev events, leader election, the gRPC runner and the identity service: thin wrappers
  without state, or timing.
* Generated code (`csi/*.pb.go`, `generated/`) is about half of the lines of the repository and has no
  behaviour of its own; this bounds the share of the source that the models can stand for.
