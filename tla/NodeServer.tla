----------------------------- MODULE NodeServer -----------------------------
(***************************************************************************)
(* pkg/spdk/nodeserver.go with the NVMf initiator of pkg/util/initiator.go *)
(* and the volume context file of pkg/util/util.go: the CSI node service,  *)
(* the host that it works on (NVMe controllers, mounts, files) and the     *)
(* kubelet that calls it.                                                  *)
(*                                                                         *)
(* A gRPC handler is a sequence of steps, one per command or system call   *)
(* that reads or changes the host.  Commands may fail, an nvme connect may *)
(* take effect although it is reported as failed, the kubelet may stop     *)
(* waiting for a call, and the plugin may crash; all of them draw on one   *)
(* fault budget.                                                           *)
(***************************************************************************)
EXTENDS Naturals

CONSTANTS
  Handlers,   \* gRPC handler goroutines
  Vols,       \* volumes that the kubelet may use on this node
  Block,      \* the volumes that are used as raw block devices
  Subsystems, \* NVMe subsystems, one per nqn
  SubsysOf,   \* SubsysOf[v]: the subsystem that has v's namespace
  NPaths,     \* bound on the connections of a volume
  PathsOf,    \* PathsOf[s]: the number of connections in the volume context
  None,
  MayFail,    \* commands that may fail without any effect
  MayLose,    \* "connect": may take effect although it is reported as failed
  MayGiveUp,  \* the kubelet may stop waiting for a call
  MayCrash,   \* the node plugin may crash
  MaxFaults,  \* how many of these may happen
  MaxBinds    \* how many bind mounts may be stacked on a target path

Commands == {"check", "list", "fetch", "connect", "device", "mount", "tune", "stash",
             "resolve", "disconnect", "umount", "clean", "bind"}

RPCs == {"Stage", "Unstage", "Publish", "Unpublish"}

ASSUME ConstantsAssumption ==
  /\ None \notin Handlers \cup Vols \cup RPCs
  /\ Block \subseteq Vols
  /\ SubsysOf \in [Vols -> Subsystems]
  /\ NPaths \in Nat \ {0} /\ PathsOf \in [Subsystems -> 1..NPaths]
  /\ MayFail \subseteq Commands /\ MayLose \subseteq {"connect"}
  /\ MayGiveUp \in BOOLEAN /\ MayCrash \in BOOLEAN
  /\ MaxFaults \in Nat /\ MaxBinds \in Nat \ {0}

VARIABLES
  \* the host
  exists,    \* the volumes whose namespace is in its subsystem
  paths,     \* paths[s]: the connected controllers of subsystem s
  mnt,       \* mnt[v]: the file system mounted at the staging path
  stash,     \* stash[v]: volume-context.json is in the staging directory
  binds,     \* binds[v]: bind mounts at the target path
  \* the node plugin
  lock,      \* volumeLocks
  pc, op, vol,
  idx,       \* the loop variable of Connect, counted from 1
  todo,      \* the loop of disconnectDevicePath: paths not yet looked at
  \* the kubelet
  know,      \* know[v]: the state of v as the kubelet sees it
  await,     \* await[v]: the handler whose answer the kubelet waits for
  faults     \* faults so far

host    == <<exists, paths, mnt, stash, binds>>
locals  == <<op, vol, idx, todo>>
kubelet == <<know, await>>
vars    == <<exists, paths, mnt, stash, binds, lock, pc, op, vol, idx, todo, know,
             await, faults>>

Steps == {"idle", "lock", "check", "nqn", "fetch", "conn", "undo", "undocut", "wait",
          "mount", "tune", "stash", "glob", "drop", "dropcut", "gone", "umount",
          "lookup", "clean", "bind", "unbind", "ok", "err"}

TypeOK ==
  /\ exists \subseteq Vols
  /\ paths \in [Subsystems -> SUBSET (1..NPaths)]
  /\ mnt \in [Vols -> {"none", "live", "dead"}]
  /\ stash \in [Vols -> BOOLEAN]
  /\ binds \in [Vols -> 0..MaxBinds]
  /\ lock \in [Vols -> Handlers \cup {None}]
  /\ pc \in [Handlers -> Steps]
  /\ op \in [Handlers -> RPCs \cup {None}]
  /\ vol \in [Handlers -> Vols \cup {None}]
  /\ idx \in [Handlers -> 1..NPaths]
  /\ todo \in [Handlers -> SUBSET (1..NPaths)]
  /\ know \in [Vols -> {"out", "staging", "failed", "uncertain", "staged",
                        "publishing", "published", "unpublishing", "unstaging",
                        "unstaged"}]
  /\ await \in [Vols -> Handlers \cup {None}]
  /\ faults \in 0..MaxFaults

Init ==
  /\ exists = {}
  /\ paths = [s \in Subsystems |-> {}]
  /\ mnt = [v \in Vols |-> "none"]
  /\ stash = [v \in Vols |-> FALSE]
  /\ binds = [v \in Vols |-> 0]
  /\ lock = [v \in Vols |-> None]
  /\ pc = [h \in Handlers |-> "idle"]
  /\ op = [h \in Handlers |-> None]
  /\ vol = [h \in Handlers |-> None]
  /\ idx = [h \in Handlers |-> 1]
  /\ todo = [h \in Handlers |-> {}]
  /\ know = [v \in Vols |-> "out"]
  /\ await = [v \in Vols |-> None]
  /\ faults = 0

-----------------------------------------------------------------------------
\* Steps and faults.

Goto(h, step) == pc' = [pc EXCEPT ![h] = step]

NoFault == UNCHANGED faults

Fault ==
  /\ faults < MaxFaults
  /\ faults' = faults + 1

\* Command c fails: nothing happens on the host, the handler goes to step.
Fails(h, c, step) ==
  /\ c \in MayFail /\ Fault
  /\ Goto(h, step)
  /\ UNCHANGED <<host, lock, locals, kubelet>>

\* The handler moves on and leaves the host alone.
Moves(h, step) ==
  /\ Goto(h, step)
  /\ UNCHANGED <<host, lock, locals, kubelet, faults>>

-----------------------------------------------------------------------------
\* The host.

Subsys(h) == SubsysOf[vol[h]]

\* /dev/disk/by-id/*model*_<nsid>: one device file per namespace of a
\* connected subsystem.
Devices(s) == {v \in exists : SubsysOf[v] = s /\ paths[s] # {}}

\* Replace the controllers of s.  A file system whose last controller is
\* gone is dead for good, even when the subsystem is connected again.
SetPaths(s, new) ==
  /\ paths' = [paths EXCEPT ![s] = new]
  /\ mnt' = [v \in Vols |->
               IF SubsysOf[v] = s /\ new = {} /\ mnt[v] = "live"
                 THEN "dead" ELSE mnt[v]]

-----------------------------------------------------------------------------
\* Locking and returning.

FirstStep(h) ==
  CASE op[h] = "Stage"   -> "check"
    [] op[h] = "Unstage" -> "umount"
    [] op[h] = "Publish" -> "bind"
    [] OTHER             -> "unbind"

\* unlock := ns.volumeLocks.Lock(volumeID), the keyed mutex of VolumeLocks.
Lock(h) ==
  /\ pc[h] = "lock"
  /\ lock[vol[h]] = None
  /\ lock' = [lock EXCEPT ![vol[h]] = h]
  /\ Goto(h, FirstStep(h))
  /\ UNCHANGED <<host, locals, kubelet, faults>>

\* What the kubelet concludes.  The errors of this driver have code Internal,
\* which is final: a failed NodeStageVolume counts as not staged.
Conclusion(h) ==
  CASE pc[h] = "ok" /\ op[h] = "Stage"     -> "staged"
    [] pc[h] = "ok" /\ op[h] = "Unstage"   -> "unstaged"
    [] pc[h] = "ok" /\ op[h] = "Publish"   -> "published"
    [] pc[h] = "ok" /\ op[h] = "Unpublish" -> "staged"
    [] pc[h] = "err" /\ know[vol[h]] = "staging" -> "failed"
    [] OTHER -> know[vol[h]]

Answer(h) ==
  \/ /\ await[vol[h]] # h
     /\ UNCHANGED kubelet
  \/ /\ await[vol[h]] = h
     /\ await' = [await EXCEPT ![vol[h]] = None]
     /\ know' = [know EXCEPT ![vol[h]] = Conclusion(h)]

Forget(h) ==
  /\ op' = [op EXCEPT ![h] = None]
  /\ vol' = [vol EXCEPT ![h] = None]
  /\ idx' = [idx EXCEPT ![h] = 1]
  /\ todo' = [todo EXCEPT ![h] = {}]

\* Mutant: a return path without the deferred unlock.
ReturnLocked(h) ==
  /\ pc[h] \in {"ok", "err"}
  /\ Answer(h)
  /\ Goto(h, "idle")
  /\ Forget(h)
  /\ UNCHANGED <<host, lock, faults>>

\* The handler returns; the deferred unlock runs.
Return(h) ==
  /\ pc[h] \in {"ok", "err"}
  /\ Answer(h)
  /\ lock' = [lock EXCEPT ![vol[h]] = None]
  /\ Goto(h, "idle")
  /\ Forget(h)
  /\ UNCHANGED <<host, faults>>

-----------------------------------------------------------------------------
\* NodeStageVolume.

\* isStaged: a mount point at the staging path, a corrupted one too, counts
\* as staged; a block volume never has one.
Check(h) ==
  /\ pc[h] = "check"
  /\ \/ Moves(h, IF mnt[vol[h]] # "none" THEN "ok" ELSE "nqn")
     \/ Fails(h, "check", "err")

\* Connect: isNqnConnected, nvme list-subsys.  One controller of the nqn is
\* enough for Connect to skip the connections.
Nqn(h) ==
  /\ pc[h] = "nqn"
  /\ \/ Moves(h, IF paths[Subsys(h)] # {} THEN "wait" ELSE "fetch")
     \/ Fails(h, "list", "err")

\* fetchLvolConnection: GET /lvol/connect/id.
Fetch(h) ==
  /\ pc[h] = "fetch"
  /\ \/ vol[h] \in exists /\ Moves(h, "conn")
     \/ vol[h] \notin exists /\ Moves(h, "err")
     \/ Fails(h, "fetch", "err")

\* Mutant: the primary connection is left behind.
NoUndo(i) == "err"

\* Where Connect goes when the connection number i fails: only the failure of
\* the second one undoes what was connected before.
AfterFailure(i) == IF i = 2 THEN "undo" ELSE "err"

\* nvme connect with its retries, one connection at a time.  Connecting what
\* is connected fails, so an attempt that timed out after it took effect makes
\* the retries fail too.
Conn(h) ==
  /\ pc[h] = "conn"
  /\ LET s == Subsys(h)
         i == idx[h]
     IN
     \/ /\ i \notin paths[s] /\ NoFault
        /\ SetPaths(s, paths[s] \cup {i})
        /\ \/ i < PathsOf[s] /\ Goto(h, "conn") /\ idx' = [idx EXCEPT ![h] = i + 1]
           \/ i = PathsOf[s] /\ Goto(h, "wait") /\ UNCHANGED idx
        /\ UNCHANGED <<exists, stash, binds, lock, op, vol, todo, kubelet>>
     \/ i \in paths[s] /\ Moves(h, AfterFailure(i))
     \/ Fails(h, "connect", AfterFailure(i))
     \/ /\ i \notin paths[s] /\ "connect" \in MayLose /\ Fault
        /\ SetPaths(s, paths[s] \cup {i})
        /\ Goto(h, AfterFailure(i))
        /\ UNCHANGED <<exists, stash, binds, lock, locals, kubelet>>

\* disconnectDevicePath on the device of the subsystem: EvalSymlinks and nvme
\* list-subsys, which lists the controllers; then the loop at step cut.
Resolve(h, cut) ==
  \/ /\ Devices(Subsys(h)) # {} /\ NoFault
     /\ todo' = [todo EXCEPT ![h] = paths[Subsys(h)]]
     /\ Goto(h, cut)
     /\ UNCHANGED <<host, lock, op, vol, idx, kubelet>>
  \/ Devices(Subsys(h)) = {} /\ Moves(h, "err")
  \/ Fails(h, "resolve", "err")

\* disconnectDevicePath, the loop: nvme disconnect -d, one controller at a
\* time, in an order that depends on their ANA states.  A failure is logged
\* and that controller stays.
Cut(h) ==
  /\ pc[h] \in {"undocut", "dropcut"}
  /\ \/ /\ todo[h] = {}
        /\ Moves(h, IF pc[h] = "undocut" THEN "err" ELSE "gone")
     \/ \E p \in todo[h] :
          /\ todo' = [todo EXCEPT ![h] = todo[h] \ {p}]
          /\ \/ NoFault /\ SetPaths(Subsys(h), paths[Subsys(h)] \ {p})
             \/ "disconnect" \in MayFail /\ Fault /\ UNCHANGED <<paths, mnt>>
          /\ UNCHANGED <<exists, stash, binds, lock, pc, op, vol, idx, kubelet>>

\* The secondary connection failed: wait for the device, disconnect it.
Undo(h) ==
  /\ pc[h] = "undo"
  /\ \/ vol[h] \in Devices(Subsys(h)) /\ Resolve(h, "undocut")
     \/ vol[h] \notin Devices(Subsys(h)) /\ Moves(h, "err")
     \/ Fails(h, "device", "err")

\* waitForDeviceReady.
Wait(h) ==
  /\ pc[h] = "wait"
  /\ \/ /\ vol[h] \in Devices(Subsys(h))
        /\ Moves(h, IF vol[h] \in Block THEN "stash" ELSE "mount")
     \/ vol[h] \notin Devices(Subsys(h)) /\ Moves(h, "err")
     \/ Fails(h, "device", "err")

\* stageVolume: createMountPoint and FormatAndMount.
Mount(h) ==
  /\ pc[h] = "mount"
  /\ \/ /\ vol[h] \in Devices(Subsys(h)) /\ NoFault
        /\ mnt' = [mnt EXCEPT ![vol[h]] = "live"]
        /\ Goto(h, "tune")
        /\ UNCHANGED <<exists, paths, stash, binds, lock, locals, kubelet>>
     \/ vol[h] \notin Devices(Subsys(h)) /\ Moves(h, "glob")
     \/ Fails(h, "mount", "glob")

\* stageVolume: tune2fs, when the storage class asks for it.
Tune(h) ==
  /\ pc[h] = "tune"
  /\ Moves(h, "stash") \/ Fails(h, "tune", "glob")

\* Mutant: the error path before Stash forgets the volume context.
SkipStash(h) == pc[h] = "stash" /\ Moves(h, "ok")

\* StashVolumeContext.
Stash(h) ==
  /\ pc[h] = "stash"
  /\ \/ /\ NoFault
        /\ stash' = [stash EXCEPT ![vol[h]] = TRUE]
        /\ Goto(h, "ok")
        /\ UNCHANGED <<exists, paths, mnt, binds, lock, locals, kubelet>>
     \/ Fails(h, "stash", "glob")

-----------------------------------------------------------------------------
\* Disconnect: for NodeUnstageVolume, and deferred in NodeStageVolume when a
\* step after Connect failed, with its result ignored.

AfterDisconnect(h) == IF op[h] = "Unstage" THEN "clean" ELSE "err"

\* filepath.Glob: with more than one device the subsystem stays connected.
Glob(h) ==
  /\ pc[h] = "glob"
  /\ \/ /\ \E u, w \in Devices(Subsys(h)) : u # w
        /\ Moves(h, AfterDisconnect(h))
     \/ \E u \in Devices(Subsys(h)) : Devices(Subsys(h)) = {u} /\ Moves(h, "drop")
     \/ Devices(Subsys(h)) = {} /\ Moves(h, "gone")

\* disconnectDevicePath on the device that the glob found.
Drop(h) ==
  /\ pc[h] = "drop"
  /\ Resolve(h, "dropcut")

\* Mutant: the timeout of waitForDeviceGone is not an error.
GoneIgnored(h) == pc[h] = "gone" /\ Moves(h, AfterDisconnect(h))

\* waitForDeviceGone.
Gone(h) ==
  /\ pc[h] = "gone"
  /\ \/ Devices(Subsys(h)) = {} /\ Moves(h, AfterDisconnect(h))
     \/ Devices(Subsys(h)) # {} /\ Moves(h, "err")

-----------------------------------------------------------------------------
\* NodeUnstageVolume.

\* deleteMountPoint(stagingTargetPath): Unmount, then RemoveAll, and either
\* may fail.
Umount(h) ==
  /\ pc[h] = "umount"
  /\ \/ /\ mnt' = [mnt EXCEPT ![vol[h]] = "none"]
        /\ \/ NoFault /\ Goto(h, "lookup")
           \/ "umount" \in MayFail /\ Fault /\ Goto(h, "err")
        /\ UNCHANGED <<exists, paths, stash, binds, lock, locals, kubelet>>
     \/ Fails(h, "umount", "err")

\* LookupVolumeContext: without the file the call fails.
Lookup(h) ==
  /\ pc[h] = "lookup"
  /\ Moves(h, IF stash[vol[h]] THEN "glob" ELSE "err")

\* CleanUpVolumeContext.
Clean(h) ==
  /\ pc[h] = "clean"
  /\ \/ /\ NoFault
        /\ stash' = [stash EXCEPT ![vol[h]] = FALSE]
        /\ Goto(h, "ok")
        /\ UNCHANGED <<exists, paths, mnt, binds, lock, locals, kubelet>>
     \/ Fails(h, "clean", "err")

-----------------------------------------------------------------------------
\* NodePublishVolume and NodeUnpublishVolume.

\* What is bind mounted is surely there: the staging mount, or the device file
\* that the volume context names.
CanBind(v) ==
  IF v \in Block
    THEN stash[v] /\ v \in Devices(SubsysOf[v])
    ELSE mnt[v] # "none"

\* publishVolume: only a file system's target path is tested for a mount.  A
\* staging directory with nothing mounted on it is bind mounted too, when it
\* is there.
Bind(h) ==
  LET v == vol[h] IN
  /\ pc[h] = "bind"
  /\ \/ /\ v \notin Block /\ binds[v] > 0
        /\ Moves(h, "ok")
     \/ /\ v \in Block \/ binds[v] = 0
        /\ v \notin Block \/ CanBind(v)
        /\ binds[v] < MaxBinds /\ NoFault
        /\ binds' = [binds EXCEPT ![v] = binds[v] + 1]
        /\ Goto(h, "ok")
        /\ UNCHANGED <<exists, paths, mnt, stash, lock, locals, kubelet>>
     \/ /\ v \in Block \/ binds[v] = 0
        /\ ~CanBind(v)
        /\ Moves(h, "err")
     \/ Fails(h, "bind", "err")

\* Mutant: the errors of Unmount and RemoveAll are logged only.
UnbindTolerant(h) ==
  LET v == vol[h] IN
  /\ pc[h] = "unbind"
  /\ \/ /\ binds' = [binds EXCEPT ![v] = IF binds[v] = 0 THEN 0 ELSE binds[v] - 1]
        /\ NoFault \/ ("umount" \in MayFail /\ Fault)
        /\ Goto(h, "ok")
        /\ UNCHANGED <<exists, paths, mnt, stash, lock, locals, kubelet>>
     \/ Fails(h, "umount", "ok")

\* deleteMountPoint(targetPath): one unmount, then RemoveAll, which fails as
\* long as something is mounted there, and may fail for another reason.
Unbind(h) ==
  LET v == vol[h] IN
  /\ pc[h] = "unbind"
  /\ \/ /\ binds' = [binds EXCEPT ![v] = IF binds[v] = 0 THEN 0 ELSE binds[v] - 1]
        /\ \/ NoFault /\ Goto(h, IF binds[v] > 1 THEN "err" ELSE "ok")
           \/ "umount" \in MayFail /\ Fault /\ Goto(h, "err")
        /\ UNCHANGED <<exists, paths, mnt, stash, lock, locals, kubelet>>
     \/ Fails(h, "umount", "err")

-----------------------------------------------------------------------------
\* The kubelet and the rest of the world.

Begin(h, rpc, v) ==
  /\ pc[h] = "idle" /\ await[v] = None
  /\ Goto(h, "lock")
  /\ op' = [op EXCEPT ![h] = rpc]
  /\ vol' = [vol EXCEPT ![h] = v]
  /\ await' = [await EXCEPT ![v] = h]
  /\ UNCHANGED <<host, lock, idx, todo, faults>>

CallStage(h, v) ==
  /\ v \in exists
  /\ know[v] \in {"out", "failed", "uncertain", "unstaged"}
  /\ know' = [know EXCEPT ![v] = "staging"]
  /\ Begin(h, "Stage", v)

CallUnstage(h, v) ==
  /\ know[v] \in {"staged", "uncertain", "unstaging"}
  /\ know' = [know EXCEPT ![v] = "unstaging"]
  /\ Begin(h, "Unstage", v)

CallPublish(h, v) ==
  /\ know[v] \in {"staged", "publishing"}
  /\ know' = [know EXCEPT ![v] = "publishing"]
  /\ Begin(h, "Publish", v)

CallUnpublish(h, v) ==
  /\ know[v] \in {"published", "publishing", "unpublishing"}
  /\ know' = [know EXCEPT ![v] = "unpublishing"]
  /\ Begin(h, "Unpublish", v)

Uncertain(k) == IF k = "staging" THEN "uncertain" ELSE k

\* The gRPC deadline of the kubelet's call expires; the handler goes on.
GiveUp(v) ==
  /\ MayGiveUp /\ Fault
  /\ await[v] # None
  /\ await' = [await EXCEPT ![v] = None]
  /\ know' = [know EXCEPT ![v] = Uncertain(know[v])]
  /\ UNCHANGED <<host, lock, pc, locals>>

\* The plugin dies: handlers and locks are gone, the host stays as it is.
Crash ==
  /\ MayCrash /\ Fault
  /\ lock' = [v \in Vols |-> None]
  /\ pc' = [h \in Handlers |-> "idle"]
  /\ op' = [h \in Handlers |-> None]
  /\ vol' = [h \in Handlers |-> None]
  /\ idx' = [h \in Handlers |-> 1]
  /\ todo' = [h \in Handlers |-> {}]
  /\ await' = [v \in Vols |-> None]
  /\ know' = [v \in Vols |-> Uncertain(know[v])]
  /\ UNCHANGED host

\* The controller service provisions a volume, or removes one that the
\* kubelet no longer uses.
Provision(v) ==
  /\ v \notin exists /\ know[v] = "out"
  /\ exists' = exists \cup {v}
  /\ UNCHANGED <<paths, mnt, stash, binds, lock, pc, locals, kubelet, faults>>

Deprovision(v) ==
  /\ v \in exists /\ know[v] = "unstaged" /\ await[v] = None
  /\ exists' = exists \ {v}
  /\ mnt' = [mnt EXCEPT ![v] = IF mnt[v] = "live" THEN "dead" ELSE mnt[v]]
  /\ UNCHANGED <<paths, stash, binds, lock, pc, locals, kubelet, faults>>

Step(h) ==
  \/ Check(h) \/ Nqn(h) \/ Fetch(h) \/ Conn(h) \/ Undo(h) \/ Cut(h) \/ Wait(h)
  \/ Mount(h) \/ Tune(h) \/ Stash(h) \/ Glob(h) \/ Drop(h) \/ Gone(h) \/ Umount(h) \/ Lookup(h)
  \/ Clean(h) \/ Bind(h) \/ Unbind(h) \/ Return(h)

Call(h, v) ==
  \/ CallStage(h, v) \/ CallUnstage(h, v) \/ CallPublish(h, v) \/ CallUnpublish(h, v)

Next ==
  \/ \E h \in Handlers : Lock(h) \/ Step(h)
  \/ \E h \in Handlers, v \in Vols : Call(h, v)
  \/ \E v \in Vols : GiveUp(v) \/ Provision(v) \/ Deprovision(v)
  \/ Crash

Spec == Init /\ [][Next]_vars

(***************************************************************************)
(* Commands have timeouts and the waiting loops are bounded: a handler     *)
(* past Lock goes on (weak fairness); Go mutexes do not starve (strong     *)
(* fairness); the kubelet repeats a call that failed.                      *)
(***************************************************************************)
Fairness ==
  /\ \A h \in Handlers : WF_vars(Step(h)) /\ SF_vars(Lock(h))
  /\ \A v \in Vols :
       /\ SF_vars(\E h \in Handlers : know[v] = "failed" /\ CallStage(h, v))
       /\ SF_vars(\E h \in Handlers : know[v] = "unstaging" /\ CallUnstage(h, v))
       /\ SF_vars(\E h \in Handlers : know[v] = "unpublishing" /\ CallUnpublish(h, v))

FairSpec == Spec /\ Fairness

-----------------------------------------------------------------------------

\* What a handler's step says about its RPC.
HandlerOK(h) ==
  /\ pc[h] # "idle" => op[h] # None /\ vol[h] # None
  /\ pc[h] \in {"check", "nqn", "fetch", "conn", "undo", "undocut", "wait",
                "mount", "tune", "stash"} => op[h] = "Stage"
  /\ pc[h] \in {"glob", "drop", "dropcut", "gone"} => op[h] \in {"Stage", "Unstage"}
  /\ pc[h] \in {"umount", "lookup", "clean"} => op[h] = "Unstage"
  /\ pc[h] = "bind" => op[h] = "Publish"
  /\ pc[h] = "unbind" => op[h] = "Unpublish"

HandlerInv == \A h \in Handlers : HandlerOK(h)

\* The lock discipline: a handler past Lock holds its volume, and a volume
\* that is held is held by such a handler.
LockDiscipline ==
  /\ \A h \in Handlers : pc[h] \notin {"idle", "lock"} => lock[vol[h]] = h
  /\ \A v \in Vols : lock[v] # None =>
       pc[lock[v]] \notin {"idle", "lock"} /\ vol[lock[v]] = v

Doing(rpc) ==
  CASE rpc = "Stage"   -> "staging"
    [] rpc = "Unstage" -> "unstaging"
    [] rpc = "Publish" -> "publishing"
    [] OTHER           -> "unpublishing"

\* The kubelet's view of a call agrees with the handler that serves it.
CallInv ==
  \A h \in Handlers : \A v \in Vols : await[v] = h =>
    pc[h] # "idle" /\ vol[h] = v /\ know[v] = Doing(op[h])

\* The inductive invariant that the others build on: whatever faults hit, the
\* handlers of volumeLocks never hold each other's volume.
NodeInv == TypeOK /\ HandlerInv /\ LockDiscipline /\ CallInv

Quiet(s) == \A h \in Handlers : pc[h] = "idle" \/ SubsysOf[vol[h]] # s

\* NodeUnstageVolume answers OK only when the volume is off the host: when
\* every volume of a subsystem is unstaged, no controller of it is connected,
\* and no mount and no volume context is left.
UnstagedMeansDisconnected ==
  \A s \in Subsystems :
    /\ Quiet(s)
    /\ \E v \in Vols : SubsysOf[v] = s
    /\ \A v \in Vols : SubsysOf[v] = s => know[v] = "unstaged"
    => /\ paths[s] = {}
       /\ \A v \in Vols : SubsysOf[v] = s => mnt[v] = "none" /\ ~stash[v]

\* While the kubelet has a volume staged, its subsystem is connected, its
\* volume context is stored and its file system works.
StagedMeansUsable ==
  \A v \in Vols :
    know[v] \in {"staged", "publishing", "published", "unpublishing"} =>
      /\ paths[SubsysOf[v]] # {}
      /\ stash[v]
      /\ v \notin Block => mnt[v] = "live"

\* A NodeStageVolume that failed leaves no controller connected.
FailedStageLeavesNothing ==
  \A v \in Vols :
    know[v] = "failed" /\ Quiet(SubsysOf[v]) => paths[SubsysOf[v]] = {}

\* When the kubelet was told that a volume is not published any more, nothing
\* is mounted at the target path.
UnpublishedMeansUnbound ==
  \A v \in Vols :
    know[v] \notin {"publishing", "published", "unpublishing"} => binds[v] = 0

\* The inductive strengthening of UnpublishedMeansUnbound, for a kubelet that
\* waits for its calls: no handler works for a call that was given up, and
\* NodeUnpublishVolume is about to answer OK only when nothing is bound.
UnboundInv ==
  /\ NodeInv
  /\ \A h \in Handlers : pc[h] # "idle" => await[vol[h]] = h
  /\ \A h \in Handlers : pc[h] = "ok" /\ op[h] = "Unpublish" => binds[vol[h]] = 0
  /\ UnpublishedMeansUnbound

Off(v) == paths[SubsysOf[v]] = {} /\ mnt[v] = "none" /\ ~stash[v]

\* What the kubelet's view of a volume says of a volume that is off the host.
OffView(v) ==
  IF know[v] \in {"out", "unstaged"} THEN Off(v) ELSE v \in exists

\* What the steps of NodeUnstageVolume have taken down so far.
OffWork(h) ==
  LET v == vol[h] IN
  op[h] = "Unstage" =>
    /\ pc[h] \in {"lookup", "glob", "drop", "dropcut", "gone", "clean", "ok"}
         => mnt[v] = "none"
    /\ pc[h] \in {"clean", "ok"} => paths[SubsysOf[v]] = {}
    /\ pc[h] = "ok" => ~stash[v]

\* The inductive strengthening of UnstagedMeansDisconnected: each step of
\* NodeUnstageVolume finds what the steps before it took down still down.
OffInv ==
  /\ UnboundInv
  /\ \A v \in Vols : OffView(v)
  /\ \A h \in Handlers : OffWork(h)

Usable(v) ==
  paths[SubsysOf[v]] # {} /\ stash[v] /\ (v \notin Block => mnt[v] = "live")

\* What the kubelet's view says of a volume that is to be staged or is staged.
ViewOK(v) ==
  /\ know[v] # "uncertain"
  /\ know[v] = "failed" => mnt[v] = "none" /\ ~stash[v]
  /\ know[v] \in {"staged", "publishing", "published", "unpublishing"} => Usable(v)

\* What the steps of NodeStageVolume have set up so far.
WorkOK(h) ==
  LET v == vol[h] IN
  pc[h] # "idle" /\ op[h] = "Stage" =>
    /\ pc[h] \in {"mount", "tune"} => v \notin Block
    /\ mnt[v] = IF pc[h] \in {"tune", "stash", "ok"} /\ v \notin Block
                  THEN "live" ELSE "none"
    /\ pc[h] \in {"mount", "tune", "stash", "ok"} => paths[SubsysOf[v]] # {}
    /\ IF pc[h] = "ok" THEN stash[v] ELSE ~stash[v]

\* The inductive strengthening of StagedMeansUsable: what the kubelet was told
\* is what the host has.
HostInv ==
  /\ OffInv
  /\ \A v \in Vols : ViewOK(v)
  /\ \A h \in Handlers : WorkOK(h)

\* How far the connections of a volume have come, at each step that leads to a
\* failed NodeStageVolume: what is left to cut is all that is connected.
PathsOK(h) ==
  LET on == paths[SubsysOf[vol[h]]] IN
  /\ pc[h] \in {"idle", "lock", "check", "nqn", "fetch"} => idx[h] = 1
  /\ pc[h] # "idle" /\ op[h] = "Stage" =>
       /\ pc[h] \in {"lock", "check", "nqn", "fetch", "gone", "err"} => on = {}
       /\ pc[h] = "conn" => on = 1..(idx[h] - 1) /\ idx[h] <= PathsOf[SubsysOf[vol[h]]]
       /\ pc[h] \in {"undo", "wait"} => on # {}
       /\ pc[h] \in {"undocut", "dropcut"} => on \subseteq todo[h]
  /\ op[h] = "Unstage" /\ pc[h] \in {"clean", "ok"} => on = {}

\* What the kubelet's view of a volume says about its connections.
PathsView(v) ==
  /\ know[v] # "uncertain"
  /\ know[v] \in {"out", "unstaged", "failed"} => paths[SubsysOf[v]] = {}
  /\ know[v] \notin {"out", "unstaged"} => v \in exists

\* The inductive strengthening of FailedStageLeavesNothing: a NodeStageVolume
\* starts from, and fails with, nothing connected.
FailedInv ==
  /\ UnboundInv
  /\ \A v \in Vols : PathsView(v)
  /\ \A h \in Handlers : PathsOK(h)

\* A NodeStageVolume that is repeated while it fails succeeds in the end,
\* unless the kubelet changes its mind.
StageSettles ==
  \A v \in Vols : know[v] = "failed" ~> know[v] \in {"staged", "uncertain"}

\* A NodeUnpublishVolume that is repeated while it fails succeeds in the end.
UnpublishSettles ==
  \A v \in Vols : know[v] = "unpublishing" ~> know[v] = "staged"
=============================================================================
