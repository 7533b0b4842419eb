# A TLA+ model of the simplyblock CSI driver

The driver (`src/`, Go) provisions logical volumes (*lvols*) on a storage
cluster and attaches them to Kubernetes nodes over NVMe-oF. This directory holds
TLA+ modules of the parts that keep state and run concurrently, TLC
configurations that check them on small instances, and TLAPS proofs.
`PROJECT.json` says which lines every definition models.

## 1. Inventory

| Component | Source | State | Operations |
|---|---|---|---|
| Volume locks | `pkg/util/idlocker.go` | `sync.Map` of id to `*sync.Mutex` | `Lock(id)`, the unlock closure |
| Controller service | `pkg/spdk/controllerserver.go` | locks only; the lvols and snapshots are the cluster's | `CreateVolume` (new, from a snapshot, from a volume), `DeleteVolume`, `CreateSnapshot`, `DeleteSnapshot`, `ControllerExpandVolume`, `ListSnapshots`, `ControllerGetVolume` |
| Storage cluster client | `pkg/util/jsonrpc.go`, `nvmf.go` | HTTP client with a 60 s timeout | one HTTP request per call |
| Node service | `pkg/spdk/nodeserver.go` | locks; the mounts and directories of the host | `NodeStageVolume`, `NodeUnstageVolume`, `NodePublishVolume`, `NodeUnpublishVolume`, `NodeExpandVolume` |
| NVMf initiator | `pkg/util/initiator.go` | none; the NVMe controllers of the host | `Connect`, `Disconnect` |
| Volume context files | `pkg/util/util.go` | `volume-context.json` per staging directory | stash, look up, clean up |
| Path monitor | `pkg/util/initiator.go` | none; NVMe controllers | a loop that every 3 s looks for subsystems with one path, connects the missing one, or follows an lvol that moved |
| Cache initiator | `pkg/util/initiator.go` | the caching node's agent | `Connect`, `Disconnect` |
| CSI common, driver, identity, main | `pkg/csi-common`, `pkg/spdk/driver.go`, `cmd` | capability tables | start-up |

**Interaction.** The container orchestrator (external-provisioner and
external-snapshotter on the controller's side, the kubelet on the node's) calls
the services over gRPC; every call runs in a goroutine of its own. Handlers
exclude each other only through the volume locks. The controller talks to the
cluster by HTTP, the node service to the host by `nvme`, `mount` and file system
calls, and to the cluster for the connections of an lvol. What the orchestrator
believes (provisioned, staged, published) is a third copy of the state, and
correctness is the agreement of the three.

**What is hard.** The orchestrator repeats calls and stops waiting for slow
ones, whose handlers go on; a request can take effect although its answer is
lost; `nvme connect` can time out after it took effect; handlers of one volume
may lock *different* keys (name or id) and handlers of different volumes may
share one NVMe subsystem; every step of a handler can fail and the clean-up
works on state that others may have used in between; the plugins crash and keep
nothing but files and mounts; the path monitor changes the same NVMe controllers
as the handlers without any lock; expansions take no lock either and may overtake
each other.

**What makes each component correct.**

* Locks: mutual exclusion per id, no lost wake-up, equal to an abstract keyed
  mutex.
* Controller: one lvol per request name; what was handed out stays; what was
  reported as deleted is gone and leaves nothing behind; calls return and
  repeated calls settle.
* Node service: staged means connected, mounted and described by a stored
  context; unstaged means none of that; a failed stage leaves nothing connected;
  not published means nothing bound; repeated calls settle.
* Path monitor: a missing path is restored, a moved volume followed; a staged
  volume is never taken away; an unstaged one is never brought back.
* Sizes: no answer promises a capacity that the lvol or the file system does not
  have; a claim that was raised gets its size.

## 2. Modules

| Module | Models | Extends / instantiates |
|---|---|---|
| `KeyedMutex` | abstract specification of a lock per key | |
| `VolumeLocks` | `idlocker.go` | instantiates `KeyedMutex` as its refinement |
| `Provisioning` | abstract specification of what the controller promises | |
| `Controller` | controller service, client and cluster, orchestrator | instantiates `Provisioning` as its refinement |
| `NodeServer` | node service, initiator, context files, host, kubelet | |
| `PathMonitor` | `MonitorConnection` and the storage nodes, composed with the node service | extends `NodeServer` |
| `Expansion` | sizes: `ToMiB`, creation, snapshots, `ControllerExpandVolume`, `NodeExpandVolume` | |
| `VolumeLocksProofs`, `ControllerProofs`, `NodeServerProofs`, `ExpansionProofs` | theorems | the module each is named after |
| `ProvisioningProofs` | theorems: what was handed out, and the refinement | extends `ControllerProofs` |
| `NodeHostProofs` | theorems: the host | extends `NodeServerProofs` |
| `PathMonitorProofs` | theorems: the monitor beside the handlers | extends `PathMonitor`, `NodeHostProofs` |
| `MCVolumeLocks`, `MCController`, `MCNodeServer`, `MCPathMonitor`, `MCExpansion` | values of constants for TLC | the module each is named after |

### VolumeLocks

`mutexes` is the `sync.Map`, `locked` the state of the mutex objects, `mtx` the
local variable that the unlock closure captures. `LoadOrStore` and `LockMutex`
are separate actions, so that handlers interleave between them. The mutex
`Fresh` stands for `&sync.Mutex{}`; Go's garbage collection is the reuse of
mutexes that nobody refers to. `KeyedMutex` has a set of wanted keys and an
owner per key; the refinement maps a key to the handler past `LockMutex`.

### Controller

The state is the cluster (`life` and `nameOf` of every uuid, `late`: requests
that the client gave up on and the cluster has not carried out yet), the process
(`lock`, and for each handler `pc`, `op`, `obj`, `src`, `work`) and the
orchestrator (`co`, `held`, `await`). A handler takes one step per HTTP request:

| RPC | Steps |
|---|---|
| `CreateVolume` | `Lock` (name), `Lookup`, then `Post`, or `Clone`, or `Snap` and `Clone`, then `Publish`, `Info`, `Return`; on failure of `Publish`: `Undo`; of `Info`: `Unpublish`, `Undo` |
| `DeleteVolume` | `Lock` (volume id), `Unpublish`, `Delete`, `Return` |
| `CreateSnapshot` | `Lock` (source id), `Snap`, `Size`, `Return` |
| `DeleteSnapshot` | `Lock` (snapshot id), `DeleteSnap`, `Return` |

`Lock` is one atomic step; that this is sound is what `VolumeLocks` implementing
`KeyedMutex` shows. A request may fail (`MayFail`), be carried out with its
answer lost (`MayLose`), or be carried out later (`MayDelay`); `GiveUp` is the
orchestrator's deadline, `Crash` the death of the process. Each of them counts
against `MaxFaults`. The cluster and the orchestrator are not in the
repository: the cluster is modelled from the errors the client looks for (a
missing lvol fails every GET; a DELETE of it answers *no such device*, which
`deleteVolume` takes for success), the orchestrator from the CSI contract (one
call per object at a time, repeated until it succeeds; a source outlives the
creations that read it).

Ids `cluster:pool:uuid` are the uuid. `ErrVolumeUnpublished` and
`ErrVolumeDeleted` are returned by nothing in the repository, so the branches
that test for them never run. Annotations read from the PVC, QoS parameters and
sizes only end up in request bodies; when one of them cannot be read, `Post`
fails without an effect.

**Provisioning** is the same service without requests, handlers and locks: per
name a phase, the id that was handed out, the ids that exist, and the ids ever
used. `Controller` implements it (`ImplementsProvisioning`) with the phase read
from `co`, and the ids of a name from `life` and `nameOf`; the steps that only
move a handler stutter. The abstract steps say what must never happen however
the requests interleave: a second lvol of a name, the removal of what was handed
out, a deletion that is confirmed while an lvol of the name exists.

### NodeServer

The state is the host (`exists`: namespaces in their subsystem, `paths`: NVMe
controllers per subsystem, `mnt`, `stash`, `binds`), the plugin (`lock`, and for
each handler `pc`, `op`, `vol`, `idx`, `todo`) and the kubelet (`know`, `await`).
A file system whose last controller went away is `"dead"`: its mount is still
there, and the device does not come back to it.

| RPC | Steps |
|---|---|
| `NodeStageVolume` | `Lock`, `Check`, `Nqn`, `Fetch`, `Conn` per path (`Undo`, `Cut` when the second fails), `Wait`, `Mount`, `Tune`, `Stash`, `Return`; a failure after `Connect` runs the deferred `Disconnect` |
| `NodeUnstageVolume` | `Lock`, `Umount`, `Lookup`, `Disconnect`, `Clean`, `Return` |
| `NodePublishVolume` | `Lock`, `Bind`, `Return` |
| `NodeUnpublishVolume` | `Lock`, `Unbind`, `Return` |
| `Disconnect` (both) | `Glob`, `Drop`, `Cut` per controller, `Gone` |

`disconnectDevicePath` sorts the controllers by ANA state with a comparator that
is no strict order; `Cut` takes them in any order. `RemoveAll` of a target path
on which something is still mounted fails; it may also fail for another reason
after the unmount took effect. A staging directory on which nothing is mounted
can be bind mounted if it is there, so that `Bind` of a file system then has both
outcomes. `binds` is a number because a raw
block volume's target path is not tested for a mount before the next bind. Not
all failures are equal: the errors of `waitForDeviceReady` in `Connect`, for
example, are returned without a disconnect, and `Wait` goes to `err`.
`PathsOf` is the number of connections of an lvol, one or more.

### PathMonitor

The monitor's goroutine runs beside the handlers of `NodeServer` and shares
`paths` with them; its own state is `mpc`, the devices `left` in this round, the
snapshot `seen` of the subsystem it works on, the number of rechecks, and `conn`,
the node whose address it has fetched. That address is used after the disconnect
and however long `nvme connect` is retried, so a *single* lvol that moves again
meanwhile is at another node by then. The handlers keep the address that they
fetched in the same way (`addr`).

| Step | Code |
|---|---|
| `MonList`, `MonPick` | `getNVMeDeviceInfos`, `getSubsystemsForDevice`, the test for one path |
| `MonConfirm` | one recheck of `confirmSubsystemStillSinglePath`; one that fails is skipped and so confirms |
| `MonNode`, `MonFetch` | `checkOnlineNode` up to the connections of the lvol, the one to make kept in `conn` |
| `MonCut`, `MonConn` | `disconnectViaNVMe`, `connectViaNVMe` |

The storage nodes are not in the repository and are modelled from how the code
reads them: `NodeDown`, `NodeUp`, `Move` (the cluster brings a *single* lvol up
elsewhere), `CtrlLoss` (the kernel removes a controller after `ctrl_loss_tmo`).
An lvol with several connections has the serial `ha`, one with a single
connection `single`. Connection *i* of an *ha* lvol leads to node *i*, the first
being the primary; the secondary's ANA state becomes `optimized` while the
primary is down; the only path of a *single* lvol has no ANA state while it is
connecting. (Were it to stay `optimized`, `shouldConnectToNode` would select
nothing, and the monitor would never follow the lvol.) Every volume has a
subsystem of its own. `HostAnswers` restricts the steps of `NodeServer` to what
the nodes allow: connecting and mounting need a node that is up, and connecting
one that the lvol has not left since its connections were fetched.
`nvme disconnect -d` names a controller as it was seen; when that one is gone and
another was connected meanwhile, it has taken over the name. A name that went to
another subsystem is not modelled.

### Expansion

The state is the size of every lvol and of its file system, the handlers of the
four RPCs that deal in sizes, and the orchestrator's copies: the size in the
claim, the capacity of the volume, the capacity in the claim's status, and what
it was told of snapshots. Sizes are bytes with a small number of bytes per MiB,
and `ToMiB` is the code's rounding. No handler of this module excludes another:
the expansions take no lock, and `CreateSnapshot` locks the source, which
expansions do not. Creation and staging are single steps here; their own steps
are in `Controller` and `NodeServer`. The cluster answers a resize with `true` or
`false`, and `ControllerExpandVolume` looks at neither. It is taken never to
shrink an lvol; with `MayRefuse` it may also refuse to grow one and leave it as it
is. With `MayLag` the host may show any size between the file system's and the
lvol's when `NodeExpandVolume` looks, since the NVMe driver scans a namespace
again in its own time; without it the new size is there at once.

## 3. Runs

Eight runs pass. Together they take every action and every disjunct.

| Run | Instance | Shows |
|---|---|---|
| `locks` | 3 handlers, 2 ids, 3 mutexes | `LockInv`, `MutualExclusion`, `ImplementsKeyedMutex`, `LockServed` |
| `ctl_retries` | a volume and a snapshot of it, 2 handlers, 3 lvols, one snapshot id, 2 faults of any kind but failing lookups and late creations of lvols | `NameInv`, `OneLvolPerName`, `DeletedInv`, `DeletedGone`; and, with fairness, `CallsReturn`, `CreateSettles` |
| `ctl_sources` | a volume, a snapshot of it, a clone of it, a volume restored from the snapshot; 2 handlers, 4 lvols, 3 snapshots, 2 faults, an orchestrator that waits | `KeptInv`, `HandedOutKept`, `NoOrphan`, `ImplementsProvisioning` |
| `node_host` | a file system and a raw block volume, 2 handlers, 2 paths, 3 failing commands other than `tune2fs` and the stash | `HostInv`, `StagedMeansUsable`, `UnstagedMeansDisconnected`, `UnboundInv`, `UnpublishedMeansUnbound` |
| `node_failed` | the same volumes, 2 failures of the commands that `NodeStageVolume` cleans up after | `FailedInv`, `FailedStageLeavesNothing` |
| `node_live` | a raw block volume, 2 handlers, 2 faults of every kind, crashes and calls given up included | `NodeInv`; and, with fairness, `StageSettles`, `UnpublishSettles` |
| `monitor` | an *ha* file system or a *single* raw block volume, one handler and the monitor, 3 storage nodes, 2 outages, one failing command, crash or call given up | `MonInv`, `HaInv`, `HaStaysUsable`; and, with fairness, `RedundancyRestored`, `MovedFollowed` |
| `size` | a volume and one restored from a snapshot of it, 2 handlers, 3 sizes (none, and two that are no multiple of a MiB), one fault, no refused resize and no lag | `SizeInv`, `CapacityTrue`, `StatusTrue`, `SnapshotFits`; and, with fairness, `ExpandSettles` |

Four runs are violated, each by a behaviour that a comment of the repository
rules out (`findings` in `PROJECT.json` quotes it).

| Run | Behaviour |
|---|---|
| `ctl_out_of_order` | `CreateVolume` deletes, when `publishVolume` fails, a volume that it found rather than created. A call that the orchestrator gave up on finds the volume that the retry was answered with, fails to read it, and deletes it. |
| `node_half_staged` | `tune2fs` fails after the mount; the deferred `Disconnect` takes the device away under the mounted file system; the repeated stage sees a mount point and answers OK. |
| `monitor_leak` | No fault at all. `NodeUnstageVolume` has disconnected one of two controllers when the monitor looks: the subsystem has one path. The other controller goes, the rechecks fail because the device is gone and so speak against nothing, and the monitor connects the subsystem of the unstaged volume again. |
| `size_refused` | One handler, no fault. The cluster answers a growing resize with `false`; `ControllerExpandVolume` drops the answer and reports the size that it was asked for. |

**Preconditions.** Several properties are stated for fewer faults than the model
has, because the code does not have them under all:

* `OneLvolPerName` and `NoOrphan` without failing lookups (`createVolume` takes
  every error of `getExistingVolume` for *not found* and posts) and without a POST
  of an lvol or clone that is carried out late (after its retry it makes a second
  lvol). `OneLvolPerName` stands late requests of every other kind; `NoOrphan` is
  stated without any. `DeletedGone` needs no precondition, but ids are never used
  twice in the model, so a late request cannot break it.
* `HandedOutKept` and `NoOrphan` without calls that are given up
  (`ctl_out_of_order`); `HandedOutKept` also without a DELETE of an lvol that is
  carried out late (the DELETE of a clean-up then removes the lvol that the retry
  found and was answered with). Late requests of every other kind, and lookups
  that fail, leave it true.
* `StagedMeansUsable` without failures of `tune2fs` or the stash, and without
  crashes between the mount and the stash (`node_half_staged`).
* `UnstagedMeansDisconnected` for subsystems with one volume each, which is the
  driver's default `max_namespace_per_subsys` (two volumes of one subsystem that
  are unstaged together both see two devices and disconnect nothing), for a
  kubelet that waits (a `NodeStageVolume` that was given up connects again after
  the unstage), and for a host without the monitor (`monitor_leak`). It holds
  whatever commands fail and wherever the plugin crashes.
* `FailedStageLeavesNothing` for the failures that the code cleans up after: a
  device that does not appear, and an `nvme connect` that times out after it took
  effect, do leave controllers behind; so does a third connection that fails,
  since only the failure of the second one undoes those before it.
* `UnpublishedMeansUnbound` for a kubelet that waits: a `NodePublishVolume` that
  was given up and waits for the lock binds after everything was torn down.
* `HaStaysUsable` as long as no node goes down while a path of an *ha* subsystem
  is missing; two nodes that are down at once take every path away. For a raw
  block volume it needs more: after a crash within the disconnects of a stage
  that failed, the repeated stage may find the leftover controller of a node that
  is down, answers OK, and loses it to `ctrl_loss_tmo`. A file system cannot be
  mounted through such a controller.
* `RedundancyRestored` unless a node stays down. `MovedFollowed` unless a fault
  hits between the disconnect and the connect of the swap, or the kernel gives
  the controller up first: the monitor finds subsystems by their devices, and a
  subsystem without a controller has none. Nor if the lvol moves once more between
  the monitor's request for its connections and its `nvme connect` (`Outdated`):
  the monitor disconnects, connects to a node that no longer has the lvol, and
  leaves the volume without a path. Without that exception TLC finds this
  behaviour with three storage nodes.
* `CapacityTrue` and `StatusTrue` for volumes without a source:
  `cloneSnapshot` does not send the size that was asked for, and the answer
  reports it all the same. Both also need a cluster that refuses no growing resize
  (`size_refused`), and `StatusTrue` a host that sees a new size in time:
  `NeedResize` on a device that still shows the old one finds nothing to do, and
  `NodeExpandVolume` answers OK without looking at the size it was asked for (TLC
  violates `StatusTrue` with `MayLag` alone). `SnapshotFits` needs neither.

**Bounds.** Three handlers in `locks` let two wait for one; in the other runs two
are enough for an abandoned handler to run beside its retry or beside a delete.
Two paths are the first number with a secondary connection, and the code treats
the third like the first. The lvols and snapshots are at least one more than the
objects, so that a second lvol of a name, a snapshot left by a failed clone and
a full pool all happen. Two or three faults reach a failure within the clean-up
of another one. `MaxBinds` is larger than the number of binds that the faults
allow in the runs whose properties speak of binds (`node_host`, `node_live`), so
it never stops one there; in `monitor` it is 1 and stops the second bind after a
crash or a call given up, which no property of that run is about. In `monitor`, `MaxVols = 1` lets one volume at a
time be on the host, since the monitor works on one subsystem at a time and
subsystems share nothing. One handler is enough because the kubelet has one call
per volume under way and the second actor is the monitor. Two outages are the
first number at which a path that the monitor restored is needed, and at which a
*single* lvol can move twice; three storage nodes are the first number at which
the second move does not lead back to where the host is connected. `Rechecks` is 2
instead of 5: the first recheck and a later one; the leak run uses 5. In `size`,
the sizes 5 and 9 with 4 bytes per MiB are not multiples and have different
roundings, and 0 is the request without a size.

**Deadlock** is not checked in the runs of `Controller`, `NodeServer`,
`PathMonitor` and `Expansion`: they end when all volumes are deleted, or unstaged
and deprovisioned, or have the largest size. `CallsReturn`,
`StageSettles` and `UnpublishSettles` exclude handlers that wait for each other.

**Fairness.** A handler past `Lock` goes on (weak fairness): HTTP requests have a
60 s timeout, `nvme connect` and `nvme disconnect` run under `execWithTimeout`,
the waiting loops are bounded; `mount`, `tune2fs` and `nvme list-subsys` have no
timeout of their own and are taken to end. `Lock` has strong fairness: a Go
mutex on which a goroutine waited for 1 ms enters starvation mode and is handed
over in order. The orchestrator repeats failed calls (strong fairness, since a
handler must be free). The monitor loops for ever, with timeouts on every command
and request that changes something: weak fairness of its steps, and none of the
handlers or of the storage nodes in that run. Nothing is assumed of faults; they are finitely many.

## 4. Proofs

All proofs are checked by TLAPS with Z3, Zenon and LS4, for every value of the
constants that satisfies the `ASSUME` of the module: any number of handlers,
volumes, snapshots, connections, storage nodes, faults and outages. Every safety
invariant of a passing run, and both refinements, are stated by a theorem. What a
theorem assumes beyond that are the *Preconditions* of section 3, as hypotheses
on the constants that select the faults: under the faults that they exclude the
code does not keep the property, or one that shares its invariant.

| Theorem | States | Hypotheses |
|---|---|---|
| `LockInvariance`, `LockMutualExclusion`, `Refinement` (`VolumeLocksProofs`) | `LockInv`, `MutualExclusion`, `ImplementsKeyedMutex` | none |
| `LockInvariance` (`ControllerProofs`) | `LockInv` of `Controller` | none |
| `NameInvariance`, `AtMostOneLvol` | `NameInv`, `OneLvolPerName` | lookups do not fail, no late POST of an lvol or clone |
| `DeletedInvariance`, `DeletedMeansGone` | `DeletedInv`, `DeletedGone` | none |
| `HeldInvariance`, `HandedOutStays` | `HeldInv`, `HandedOutKept` | the orchestrator waits, no late DELETE of an lvol |
| `KeptInvariance`, `NothingOrphaned`, `Refinement` (`ProvisioningProofs`) | `KeptInv`, `NoOrphan`, `ImplementsProvisioning` | lookups do not fail, no late requests, the orchestrator waits |
| `NodeInvariance` | `NodeInv` | none |
| `UnboundInvariance`, `UnpublishedIsUnbound` | `UnboundInv`, `UnpublishedMeansUnbound` | the kubelet waits |
| `OffInvariance`, `UnstagedIsDisconnected` | `OffInv`, `UnstagedMeansDisconnected` | subsystems of their own, the kubelet waits |
| `HostInvariance`, `StagedIsUsable` | `HostInv`, `StagedMeansUsable` | subsystems of their own, the kubelet waits, no crash, `tune2fs` and the stash do not fail |
| `FailedInvariance`, `FailedStageIsClean` | `FailedInv`, `FailedStageLeavesNothing` | subsystems of their own, the kubelet waits, no crash, no lost `nvme connect`, the device appears, the disconnects do not fail, at most two connections |
| `MonInvariance` | `MonInv` | none |
| `HaInvariance` | `HaInv` | the kubelet waits, `tune2fs` and the stash do not fail |
| `HaUsable` | `HaStaysUsable` | those of `HaInvariance`, and *ha* volumes are file systems |
| `SizeInvariance`, `SnapshotInvariance` | `SizeInv`, `SnapshotFits` | none |
| `CapacityInvariance` | `CapacityTrue` | the cluster refuses no growing resize |
| `StatusInvariance` | `StatusTrue` | the same, and the host sees a new size at once |

Each argument is an inductive invariant: it holds initially, one lemma per
action shows that the action keeps it, and it implies the property. Every
inductive invariant is also an invariant of a run or a conjunct of one: the
controller's `LockInv` of `NameInv` and of `DeletedInv`, `HeldInv` of `KeptInv`,
`OffInv` of `HostInv`.

* **Locks.** Mutual exclusion alone is not inductive: two handlers with different
  mutexes for one id would break it one step later. `LockInv` adds that the map
  is injective, that a handler past `LoadOrStore` has the map's mutex for its id,
  and that a mutex is locked exactly while one handler holds it. The refinement
  uses it to show that `LockMutex` finds the abstract lock free.
* **Controller.** `LockInv` has the types, the shape of handlers, the lock
  discipline and the agreement of handlers and orchestrator. `NameInv` adds that
  a `CreateVolume` between its lookup and its POST holds the lock of its name and
  that there is no lvol of that name: the reason why the lookup must be made
  under the lock of the *name*; and that no request under way will still make an
  lvol (`NoLateLvol`). `DeletedInv` adds that ids in use were born, so
  that *not live* means *gone*, and that a delete handler about to answer OK has
  removed its object.
* **Provisioning.** `CreateVolume` and `DeleteVolume` of one lvol lock different
  keys, so the locks alone do not keep a clean-up away from what was handed out.
  `HeldInv` says what does: every handler at work is the one that its object's
  call awaits (`ServesOne`), what it works on was made under that name, a
  creation that is about to answer OK has something that exists, and a request
  that is still under way after its timeout can only make something new or remove
  a snapshot that is being deleted (`LateOK`). `KeptInv` adds `NameInv` and that
  a name that was handed out has no other lvol; `HeldInv` alone is not enough for
  `NoOrphan`, since a second lvol of the name would outlive the delete. The
  refinement maps each step of a handler to the abstract step of its object or to
  a stutter: POST and clone to a creation, `Undo` and `Delete` to a removal,
  which the abstract specification allows only before the id was given or after
  its deletion was asked for, and `Return` to the answer.
* **Node service.** `NodeInv` is the counterpart of the controller's `LockInv`.
  `UnboundInv` adds that every working handler is awaited and that
  `NodeUnpublishVolume` about to answer OK has nothing bound left. `OffInv` is
  about taking down and `HostInv` about setting up, each in two parts: what the
  host has for each view of the kubelet (`OffView`, `ViewOK`), and what an
  unstage or a stage has done at each of its steps (`OffWork`, `WorkOK`). Both
  parts are needed: the view speaks of the moment of the answer, the work of the
  steps that lead to it. They are separate invariants because `OffInv` stands
  crashes and every failing command, `HostInv` does not. `OwnSubsystems` is used
  where one handler's disconnect must leave the other volumes alone. `FailedInv`
  has the same form for the connections alone: they are made in order, so when
  the second fails the first is all there is to undo, and what a disconnect has
  listed is all that is connected.
* **Path monitor.** `MonInv` extends `NodeInv` by the monitor's own steps: what it
  disconnects is the only controller of a *single* lvol that was connecting when
  it looked, never a controller of an *ha* volume. `HaInv` says that while an *ha*
  file system is mounted one of its controllers leads to a node that is up, and
  that handlers take controllers down only when nothing is mounted; outages that
  meet the volume with all its controllers leave one, and neither the monitor nor
  `ctrl_loss_tmo` takes one whose node is up. The handlers' lemmas are those of
  `NodeServerProofs`, since a step of the composition restricted to the handlers
  is a step of `NodeServer`.
* **Sizes.** `SizeInv` is needed because a capacity is read in one step and
  answered in a later one, with expansions in between. It says that every size
  in a request under way, in an answer about to be given and in the
  orchestrator's records is covered by what the lvol or the file system has, as
  far as the cluster refuses nothing and the host does not lag (the conjuncts
  `~MayRefuse => ...` of `CapacityInv` and `~MayRefuse /\ ~MayLag => ...` of
  `StatusInv`); the rest of it, which `SnapshotFits` follows from, holds without
  these conditions. It rests on a lemma about the rounding: what `ToMiB` allocates is at least what was
  asked for.

Only model-checked: the liveness properties `LockServed`, `CallsReturn`,
`CreateSettles`, `StageSettles`, `UnpublishSettles`, `RedundancyRestored`,
`MovedFollowed` and `ExpandSettles`, since fairness and ENABLED are beyond the
prover.

## 5. What is not modelled

* The cache initiator: `NewSpdkCsiInitiator` never sets the client of an
  `initiatorCache`, so that `Connect` and `Disconnect` panic on their first
  request; there is no behaviour to model.
* `ListSnapshots`, `ControllerGetVolume`, `ValidateVolumeCapabilities`,
  `NodeGetInfo` and the other calls that change no state.
* Device links: the model has one `/dev/disk/by-id` link per namespace of a
  connected subsystem, while udev may keep two of one device.
* The text of ids, device names and JSON documents; a truncated
  `volume-context.json` after a crash within `os.WriteFile`.
* A panic on an empty answer list (`result[0]`) or on a shorter list of
  connections (`connections[i]`); listed under hazards.
* The xPU configuration, the gRPC servers, capability tables, flags, manifests
  and charts: start-up code and data without state that a step changes.

Disagreements between code and comments that the model has and no run shows on
its own: `CreateVolume` locks the name and `DeleteVolume` the id, so both may
work on one lvol at once (`jsonrpc.go:54` asks for calls to one volume to be
serialized); `DeleteVolume` repeated after its DELETE took effect fails in
`unpublishVolume` every time, and `NodeUnstageVolume` repeated after it removed
the context file fails in `LookupVolumeContext` every time, so that after a lost
answer neither settles (`controllerserver.go:117`, `nodeserver.go:203`); the
node's locks are per volume while initiators act on a subsystem that volumes may
share (`initiator.go:50`); `CreateSnapshot` repeated after a lost answer posts
again (`jsonrpc.go:67`); `NodePublishVolume` of a raw block volume stacks a bind
mount each time (`nodeserver.go:408`), and `NodeUnpublishVolume` then fails until
all of them are removed (`UnpublishSettles`).

## 6. Plan

Done:

1. `KeyedMutex`, `VolumeLocks` and the refinement.
2. `Controller`: creation, deletion, snapshots, clones; `Provisioning` and the
   refinement.
3. `NodeServer`: stage, unstage, publish, unpublish with the initiator.
4. Proofs of the lock discipline, `OneLvolPerName`, `DeletedGone`,
   `UnpublishedMeansUnbound`.
5. `PathMonitor`, composed with `NodeServer`.
6. `Expansion`: sizes and the two expansions.
7. Proofs that `SizeInv`, `HeldInv`, `KeptInv`, `OffInv`, `HostInv`, `FailedInv`,
   `MonInv` and `HaInv` are inductive, and with them every safety invariant of a
   passing run; the proof that `Controller` implements `Provisioning`.

Left:

8. An abstract specification of staging (per volume: out, staged, published) that
   `NodeServer` implements, and the proof from `HostInv` and `UnboundInv`.
9. `FailedInv` for volumes that share a subsystem.
