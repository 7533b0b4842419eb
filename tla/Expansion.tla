------------------------------ MODULE Expansion ------------------------------
(***************************************************************************)
(* Sizes: what CreateVolume, CreateSnapshot, ControllerExpandVolume and    *)
(* NodeExpandVolume do to the size of an lvol and of its file system, and  *)
(* what they tell the container orchestrator (CO) about it.  Neither of    *)
(* the two expansions takes a lock.  The lookups and clean-ups of creation *)
(* are in Controller, staging and its steps are in NodeServer; here both   *)
(* are single steps.                                                       *)
(*                                                                         *)
(* Sizes are bytes on a small scale: Mi stands for 1024 * 1024.  A full    *)
(* pool fails a creation like any other error; a growing resize that it    *)
(* does not allow is refused.                                              *)
(***************************************************************************)
EXTENDS Naturals

CONSTANTS
  Handlers,   \* gRPC handler goroutines, of the controller or of the node
  Vols,
  Source,     \* Source[v]: v is restored from a snapshot of it, or None
  None,
  Mi,         \* bytes in a MiB
  Sizes,      \* the sizes that a user asks for; 0: no size given
  First,      \* First[v]: those that v may be created with
  GiB,        \* the size made when none was given
  MayFail,    \* requests and commands that may fail without an effect
  MayLose,    \* requests that may be carried out with the answer lost
  MayRefuse,  \* the cluster may answer a growing resize with false
  MayLag,     \* the host may see a new size of the lvol late
  MayGiveUp,  \* the CO may stop waiting for a call
  MaxFaults   \* how many of these may happen

Calls == {"POST", "PUT", "GET", "resize"}
RPCs  == {"CreateVolume", "CreateSnapshot", "ControllerExpand", "NodeExpand"}

ASSUME ConstantsAssumption ==
  /\ None \notin Handlers \cup Vols \cup RPCs
  /\ None \notin [size : Nat, fs : Nat] /\ None \notin [size : Nat, fs : Nat, told : Nat]
  /\ Source \in [Vols -> Vols \cup {None}]
  /\ Mi \in Nat \ {0} /\ GiB \in Nat \ {0} /\ Sizes \subseteq Nat
  /\ First \in [Vols -> SUBSET Sizes]
  /\ MayFail \subseteq Calls /\ MayLose \subseteq {"POST", "PUT"}
  /\ MayRefuse \in BOOLEAN /\ MayLag \in BOOLEAN
  /\ MayGiveUp \in BOOLEAN /\ MaxFaults \in Nat

VARIABLES
  \* the cluster and the host
  size,     \* size[v]: size of the lvol, 0 when there is none
  fs,       \* fs[v]: size of the file system on it, 0 before the first mount
  staged,   \* the volumes that are staged on the node
  \* the handlers
  pc, op, vol,
  arg,      \* the size in the request
  taken,    \* the snapshot that was made: its size and its file system's
  told,     \* the size to answer with
  awaited,  \* the handlers whose answer the CO waits for
  \* the CO
  want,     \* want[v]: the size in the claim
  asked,    \* asked[v]: the size in the last request that was answered
  cap,      \* cap[v]: the capacity of the volume, 0 before it is bound
  status,   \* status[v]: the capacity in the claim's status
  snap,     \* snap[v]: the snapshot of v that the CO knows, or None
  faults

storage == <<size, fs, staged>>
locals  == <<op, vol, arg, taken, told>>
claims  == <<want, asked, cap, status, snap>>
vars    == <<size, fs, staged, pc, op, vol, arg, taken, told, awaited, want, asked,
             cap, status, snap, faults>>

Steps == {"idle", "post", "snap", "measure", "put", "need", "resize", "ok", "err"}

TypeOK ==
  /\ size \in [Vols -> Nat] /\ fs \in [Vols -> Nat] /\ staged \subseteq Vols
  /\ pc \in [Handlers -> Steps]
  /\ op \in [Handlers -> RPCs \cup {None}]
  /\ vol \in [Handlers -> Vols \cup {None}]
  /\ arg \in [Handlers -> Nat] /\ told \in [Handlers -> Nat]
  /\ taken \in [Handlers -> [size : Nat, fs : Nat] \cup {None}]
  /\ awaited \subseteq Handlers
  /\ want \in [Vols -> Sizes] /\ asked \in [Vols -> Nat]
  /\ cap \in [Vols -> Nat] /\ status \in [Vols -> Nat]
  /\ snap \in [Vols -> [size : Nat, fs : Nat, told : Nat] \cup {None}]
  /\ faults \in 0..MaxFaults

Init ==
  /\ size = [v \in Vols |-> 0] /\ fs = [v \in Vols |-> 0] /\ staged = {}
  /\ pc = [h \in Handlers |-> "idle"]
  /\ op = [h \in Handlers |-> None]
  /\ vol = [h \in Handlers |-> None]
  /\ arg = [h \in Handlers |-> 0] /\ told = [h \in Handlers |-> 0]
  /\ taken = [h \in Handlers |-> None]
  /\ awaited = {}
  /\ want \in [Vols -> Sizes] /\ \A v \in Vols : want[v] \in First[v]
  /\ asked = [v \in Vols |-> 0]
  /\ cap = [v \in Vols |-> 0] /\ status = [v \in Vols |-> 0]
  /\ snap = [v \in Vols |-> None]
  /\ faults = 0

-----------------------------------------------------------------------------

Goto(h, step) == pc' = [pc EXCEPT ![h] = step]

NoFault == UNCHANGED faults

Fault ==
  /\ faults < MaxFaults
  /\ faults' = faults + 1

\* A request or command fails, and with it the call.
Fails(h, c) ==
  /\ c \in MayFail /\ Fault
  /\ Goto(h, "err")
  /\ UNCHANGED <<storage, locals, awaited, claims>>

\* A request was carried out: its answer arrives and the handler goes to
\* step, or the answer is lost.
Done(h, c, step) ==
  \/ NoFault /\ Goto(h, step)
  \/ c \in MayLose /\ Fault /\ Goto(h, "err")

-----------------------------------------------------------------------------
\* The controller service.

\* Mutant: rounds down.
ToMiBDown(bytes) == bytes \div Mi

\* util.ToMiB: bytes rounded up to MiB.
ToMiB(bytes) == (bytes + Mi - 1) \div Mi

\* createVolume: the size in MiB of a request, "resize to 1G" for none.
SizeMiB(bytes) == ToMiB(IF bytes = 0 THEN GiB ELSE bytes)

\* The size of the lvol that is made for a request, in bytes.
Allocated(bytes) == SizeMiB(bytes) * Mi

\* createVolume: POST /lvol with the size in MiB, or POST /snapshot/clone,
\* which does not pass the size on; an existing lvol is taken as it is.  The
\* answer's CapacityBytes is computed from the request in all three cases.
Post(h) ==
  LET v == vol[h] IN
  /\ pc[h] = "post"
  /\ \/ /\ told' = [told EXCEPT ![h] = Allocated(arg[h])]
        /\ \/ /\ size[v] = 0 /\ Source[v] = None
              /\ size' = [size EXCEPT ![v] = Allocated(arg[h])]
              /\ UNCHANGED fs
           \/ /\ size[v] = 0 /\ Source[v] # None
              /\ size' = [size EXCEPT ![v] = snap[Source[v]].size]
              /\ fs' = [fs EXCEPT ![v] = snap[Source[v]].fs]
           \/ /\ size[v] # 0
              /\ UNCHANGED <<size, fs>>
        /\ Done(h, "POST", "ok")
        /\ UNCHANGED <<staged, op, vol, arg, taken, awaited, claims>>
     \/ Fails(h, "POST")

\* CreateSnapshot: POST /snapshot.
Snap(h) ==
  /\ pc[h] = "snap"
  /\ \/ /\ taken' = [taken EXCEPT ![h] = [size |-> size[vol[h]], fs |-> fs[vol[h]]]]
        /\ Done(h, "POST", "measure")
        /\ UNCHANGED <<storage, op, vol, arg, told, awaited, claims>>
     \/ Fails(h, "POST")

\* Mutant: the size is taken for MiB.
MeasureMiB(h) ==
  /\ pc[h] = "measure"
  /\ \/ /\ told' = [told EXCEPT ![h] = size[vol[h]] \div Mi]
        /\ Goto(h, "ok") /\ NoFault
        /\ UNCHANGED <<storage, op, vol, arg, taken, awaited, claims>>
     \/ Fails(h, "GET")

\* CreateSnapshot: GetVolumeSize of the source is SizeBytes of the snapshot.
Measure(h) ==
  /\ pc[h] = "measure"
  /\ \/ /\ told' = [told EXCEPT ![h] = size[vol[h]]]
        /\ Goto(h, "ok") /\ NoFault
        /\ UNCHANGED <<storage, op, vol, arg, taken, awaited, claims>>
     \/ Fails(h, "GET")

\* What the cluster may make of an lvol of old bytes that it is asked to
\* resize to new bytes.  It does not shrink an lvol, and it may refuse to grow
\* one (no space, a limit): it answers false and leaves the lvol as it is.
Resized(old, new) ==
  IF new > old THEN {new} \cup (IF MayRefuse THEN {old} ELSE {}) ELSE {old}

\* Mutant: a resize that the cluster answers with false is an error.
PutRefused(h) ==
  LET v == vol[h] IN
  /\ pc[h] = "put"
  /\ \/ /\ told' = [told EXCEPT ![h] = arg[h]]
        /\ \E z \in Resized(size[v], arg[h]) :
             /\ size' = [size EXCEPT ![v] = z]
             /\ Done(h, "PUT", IF z = size[v] THEN "err" ELSE "ok")
        /\ UNCHANGED <<fs, staged, op, vol, arg, taken, awaited, claims>>
     \/ Fails(h, "PUT")

\* ControllerExpandVolume: PUT /lvol/resize.  The handler does not look at the
\* cluster's answer, true or false; the CapacityBytes that it answers with is
\* the size of the request.
Put(h) ==
  LET v == vol[h] IN
  /\ pc[h] = "put"
  /\ \/ /\ told' = [told EXCEPT ![h] = arg[h]]
        /\ \E z \in Resized(size[v], arg[h]) : size' = [size EXCEPT ![v] = z]
        /\ Done(h, "PUT", "ok")
        /\ UNCHANGED <<fs, staged, op, vol, arg, taken, awaited, claims>>
     \/ Fails(h, "PUT")

-----------------------------------------------------------------------------
\* NodeExpandVolume.

\* The sizes that the host may show for the device: the lvol's, or one from
\* before an expansion, until the NVMe driver has scanned the namespace again.
Shown(v) == IF MayLag THEN fs[v]..size[v] ELSE {size[v]}

\* LookupVolumeContext and NeedResize: without the volume context the call
\* fails; a file system as large as its device is left as it is.
Need(h) ==
  LET v == vol[h] IN
  /\ pc[h] = "need"
  /\ \E d \in Shown(v) :
       Goto(h, CASE v \notin staged -> "err"
                 [] fs[v] < d       -> "resize"
                 [] OTHER           -> "ok")
  /\ UNCHANGED <<storage, locals, awaited, claims, faults>>

\* Mutant: an error of Resize is only logged.
ResizeTolerant(h) ==
  LET v == vol[h] IN
  /\ pc[h] = "resize"
  /\ \/ /\ v \in staged /\ NoFault
        /\ \E d \in Shown(v) : fs' = [fs EXCEPT ![v] = d]
     \/ v \notin staged /\ UNCHANGED fs /\ NoFault
     \/ "resize" \in MayFail /\ Fault /\ UNCHANGED fs
  /\ Goto(h, "ok")
  /\ UNCHANGED <<size, staged, locals, awaited, claims>>

\* Resize: the file system grows to what the device has by now.
Resize(h) ==
  LET v == vol[h] IN
  /\ pc[h] = "resize"
  /\ \/ /\ v \in staged /\ NoFault
        /\ \E d \in Shown(v) : fs' = [fs EXCEPT ![v] = d]
        /\ Goto(h, "ok")
        /\ UNCHANGED <<size, staged, locals, awaited, claims>>
     \/ /\ v \notin staged /\ NoFault
        /\ Goto(h, "err")
        /\ UNCHANGED <<storage, locals, awaited, claims>>
     \/ Fails(h, "resize")

-----------------------------------------------------------------------------
\* The answer, and what the CO makes of it.

Learn(h) ==
  LET v == vol[h] IN
  CASE op[h] = "CreateVolume" ->
         /\ asked' = [asked EXCEPT ![v] = arg[h]]
         /\ cap' = [cap EXCEPT ![v] = told[h]]
         /\ status' = [status EXCEPT ![v] = told[h]]
         /\ UNCHANGED <<want, snap>>
    [] op[h] = "ControllerExpand" ->
         /\ asked' = [asked EXCEPT ![v] = arg[h]]
         /\ cap' = [cap EXCEPT ![v] = told[h]]
         /\ UNCHANGED <<want, status, snap>>
    [] op[h] = "NodeExpand" ->
         /\ status' = [status EXCEPT ![v] = arg[h]]
         /\ UNCHANGED <<want, asked, cap, snap>>
    [] OTHER ->
         /\ snap' = [snap EXCEPT ![v] = [size |-> taken[h].size, fs |-> taken[h].fs,
                                         told |-> told[h]]]
         /\ UNCHANGED <<want, asked, cap, status>>

Return(h) ==
  /\ pc[h] \in {"ok", "err"}
  /\ IF pc[h] = "ok" /\ h \in awaited THEN Learn(h) ELSE UNCHANGED claims
  /\ awaited' = awaited \ {h}
  /\ Goto(h, "idle")
  /\ op' = [op EXCEPT ![h] = None]
  /\ vol' = [vol EXCEPT ![h] = None]
  /\ arg' = [arg EXCEPT ![h] = 0]
  /\ taken' = [taken EXCEPT ![h] = None]
  /\ told' = [told EXCEPT ![h] = 0]
  /\ UNCHANGED <<storage, faults>>

-----------------------------------------------------------------------------
\* The orchestrator: one call of a kind under way for a volume.

Begin(h, rpc, v, bytes, step) ==
  /\ pc[h] = "idle"
  /\ \A g \in awaited : op[g] # rpc \/ vol[g] # v
  /\ Goto(h, step)
  /\ op' = [op EXCEPT ![h] = rpc]
  /\ vol' = [vol EXCEPT ![h] = v]
  /\ arg' = [arg EXCEPT ![h] = bytes]
  /\ awaited' = awaited \cup {h}
  /\ UNCHANGED <<storage, taken, told, claims, faults>>

\* external-provisioner; a restored volume is at least as large as its
\* snapshot is said to be.
CallCreate(h, v) ==
  /\ cap[v] = 0
  /\ Source[v] # None => snap[Source[v]] # None /\ want[v] >= snap[Source[v]].told
  /\ Begin(h, "CreateVolume", v, want[v], "post")

\* external-snapshotter.
CallSnapshot(h, v) ==
  /\ cap[v] # 0 /\ snap[v] = None /\ \E w \in Vols : Source[w] = v
  /\ Begin(h, "CreateSnapshot", v, 0, "snap")

\* external-resizer.
CallExpand(h, v) ==
  /\ cap[v] # 0 /\ cap[v] < want[v]
  /\ Begin(h, "ControllerExpand", v, want[v], "put")

\* The kubelet, once the volume has a larger capacity than the claim shows.
CallNodeExpand(h, v) ==
  /\ v \in staged /\ status[v] < cap[v]
  /\ Begin(h, "NodeExpand", v, cap[v], "need")

\* The user raises the size in the claim.
Raise(v) ==
  /\ cap[v] # 0
  /\ \E n \in Sizes : n > want[v] /\ want' = [want EXCEPT ![v] = n]
  /\ UNCHANGED <<storage, pc, locals, awaited, asked, cap, status, snap, faults>>

\* NodeStageVolume formats a device without a file system; it never resizes.
Stage(v) ==
  /\ cap[v] # 0 /\ v \notin staged
  /\ staged' = staged \cup {v}
  /\ fs' = [fs EXCEPT ![v] = IF fs[v] = 0 THEN size[v] ELSE fs[v]]
  /\ UNCHANGED <<size, pc, locals, awaited, claims, faults>>

\* NodeUnstageVolume.
Unstage(v) ==
  /\ v \in staged
  /\ staged' = staged \ {v}
  /\ UNCHANGED <<size, fs, pc, locals, awaited, claims, faults>>

\* The deadline of a call expires; its handler goes on.
GiveUp(h) ==
  /\ MayGiveUp /\ Fault
  /\ h \in awaited
  /\ awaited' = awaited \ {h}
  /\ UNCHANGED <<storage, pc, locals, claims>>

Step(h) ==
  \/ Post(h) \/ Snap(h) \/ Measure(h) \/ Put(h) \/ Need(h) \/ Resize(h) \/ Return(h)

Next ==
  \/ \E h \in Handlers : Step(h) \/ GiveUp(h)
  \/ \E h \in Handlers, v \in Vols :
       \/ CallCreate(h, v) \/ CallSnapshot(h, v)
       \/ CallExpand(h, v) \/ CallNodeExpand(h, v)
  \/ \E v \in Vols : Raise(v) \/ Stage(v) \/ Unstage(v)

Spec == Init /\ [][Next]_vars

(***************************************************************************)
(* Handlers take no lock and their requests have timeouts (weak fairness); *)
(* the orchestrator repeats an expansion that failed.                      *)
(***************************************************************************)
FairSpec ==
  /\ Spec
  /\ \A h \in Handlers : WF_vars(Step(h))
  /\ \A v \in Vols :
       /\ SF_vars(\E h \in Handlers : CallExpand(h, v))
       /\ SF_vars(\E h \in Handlers : CallNodeExpand(h, v))

-----------------------------------------------------------------------------

Fresh(v) == Source[v] = None

\* The capacity that CreateVolume and ControllerExpandVolume answered with is
\* at least what was asked for, and the lvol has it, however expansions are
\* repeated, overtake each other or lose their answers: as long as the cluster
\* refuses no growing resize.  (Not for restored volumes: the clone has the
\* size of the snapshot, whatever was asked for.)
CapacityTrue ==
  \A v \in Vols : Fresh(v) /\ cap[v] # 0 => asked[v] <= cap[v] /\ cap[v] <= size[v]

\* While a volume is staged, its file system is as large as the claim's
\* status says: NodeExpandVolume answers OK only after the file system grew.
\* It does not compare with the size that it was asked for, so this needs a
\* cluster that refuses no growing resize and a host that sees it in time.
StatusTrue ==
  \A v \in Vols : Fresh(v) /\ v \in staged => status[v] <= fs[v]

\* The SizeBytes of a snapshot, read from the source after the snapshot was
\* taken and without keeping expansions out, are never less than the
\* snapshot has, and no file system is larger than its lvol, so that a volume
\* restored from it never has a truncated file system.
SnapshotFits ==
  \A v \in Vols :
    /\ snap[v] # None => snap[v].fs <= snap[v].size /\ snap[v].size <= snap[v].told
    /\ fs[v] <= size[v]

\* What a handler's step says about its call and its local variables.
HandlerInv ==
  \A h \in Handlers :
    /\ pc[h] = "idle" <=> op[h] = None
    /\ op[h] # None => vol[h] # None
    /\ pc[h] = "post" => op[h] = "CreateVolume"
    /\ pc[h] \in {"snap", "measure"} => op[h] = "CreateSnapshot"
    /\ pc[h] = "put" => op[h] = "ControllerExpand"
    /\ pc[h] \in {"need", "resize"} => op[h] = "NodeExpand"
    /\ h \in awaited => pc[h] # "idle"
    /\ \A g \in Handlers :
         g \in awaited /\ h \in awaited /\ op[g] = op[h] /\ vol[g] = vol[h] => g = h

\* The strengthening of CapacityTrue, and what is left of it when the cluster
\* refuses a resize: volumes that are bound or worked on exist.  Before a volume
\* is bound its claim does not change, so every CreateVolume handler asks for
\* what the first one made.
CapacityInv ==
  /\ \A v \in Vols : cap[v] # 0 => size[v] # 0
  /\ \A v \in Vols : Fresh(v) /\ cap[v] = 0 /\ size[v] # 0 => Allocated(want[v]) <= size[v]
  /\ \A h \in Handlers :
       LET v == vol[h] IN
       /\ op[h] = "CreateVolume" /\ Fresh(v) =>
            IF size[v] = 0 THEN arg[h] = want[v] ELSE Allocated(arg[h]) <= size[v]
       /\ op[h] = "CreateVolume" /\ ~Fresh(v) => snap[Source[v]] # None
       /\ op[h] # None /\ op[h] # "CreateVolume" => size[v] # 0
       /\ op[h] = "ControllerExpand" => arg[h] # 0 /\ cap[v] # 0
       /\ pc[h] = "ok" /\ op[h] \in {"CreateVolume", "ControllerExpand"} =>
            /\ told[h] # 0 /\ size[v] # 0 /\ arg[h] <= told[h]
            /\ Fresh(v) /\ ~MayRefuse => told[h] <= size[v]
  /\ ~MayRefuse => CapacityTrue

\* The strengthening of SnapshotFits: an lvol never gets smaller, so what a
\* snapshot took is never more than what its source has when it is measured.
SnapshotInv ==
  /\ \A h \in Handlers :
       /\ taken[h] # None =>
            /\ op[h] = "CreateSnapshot" /\ taken[h].size # 0
            /\ taken[h].fs <= taken[h].size /\ taken[h].size <= size[vol[h]]
       /\ pc[h] = "measure" => taken[h] # None
       /\ pc[h] = "ok" /\ op[h] = "CreateSnapshot" =>
            taken[h] # None /\ taken[h].size <= told[h]
  /\ \A v \in Vols : snap[v] # None => snap[v].size # 0
  /\ SnapshotFits

\* What the status of a claim is worth when the cluster refuses nothing and the
\* host sees every size at once: NodeExpandVolume is asked for a capacity that
\* the lvol has, and is about to answer OK only when the file system has it.
StatusBacked ==
  /\ \A v \in Vols : Fresh(v) => status[v] <= size[v] /\ (fs[v] # 0 => status[v] <= fs[v])
  /\ \A h \in Handlers :
       op[h] = "NodeExpand" /\ Fresh(vol[h]) =>
         /\ arg[h] <= size[vol[h]]
         /\ pc[h] = "ok" => fs[vol[h]] # 0 /\ arg[h] <= fs[vol[h]]

\* The strengthening of StatusTrue: a volume is staged only with a file system,
\* and is bound before that.
StatusInv ==
  /\ \A v \in Vols : v \in staged => fs[v] # 0
  /\ \A v \in Vols : cap[v] = 0 => fs[v] = 0 \/ ~Fresh(v)
  /\ \A h \in Handlers : op[h] = "CreateVolume" /\ h \in awaited => cap[vol[h]] = 0
  /\ ~MayRefuse /\ ~MayLag => StatusBacked

\* The inductive invariant behind the three: whatever calls fail, are given up
\* or overtake each other, sizes that were answered are sizes that exist.
SizeInv == TypeOK /\ HandlerInv /\ CapacityInv /\ SnapshotInv /\ StatusInv

\* A claim that was raised reaches its size on the node, whatever finite
\* number of faults hit, unless the volume is not staged any more.
ExpandSettles ==
  \A v \in Vols :
    cap[v] # 0 /\ v \in staged /\ status[v] < want[v] ~>
      status[v] >= want[v] \/ v \notin staged
=============================================================================
