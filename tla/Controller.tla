----------------------------- MODULE Controller -----------------------------
(***************************************************************************)
(* pkg/spdk/controllerserver.go: the CSI controller service, with the      *)
(* storage cluster it calls over HTTP and the container orchestrator (CO)  *)
(* that calls it.                                                          *)
(*                                                                         *)
(* A gRPC handler is a sequence of steps, one per request to the cluster,  *)
(* so that handlers interleave between requests.  A request may fail, be   *)
(* carried out although its answer is lost, or be carried out after the    *)
(* HTTP client timed out; the CO may give a call up while its handler goes *)
(* on; the controller may crash.  All of them draw on one fault budget.    *)
(*                                                                         *)
(* A CSI volume id "cluster:pool:uuid" and a CSI snapshot id               *)
(* "cluster:uuid" are abstracted to the uuid, a member of Lvols or Snaps.  *)
(***************************************************************************)
EXTENDS Naturals

CONSTANTS
  Handlers,   \* gRPC handler goroutines
  Names,      \* CreateVolumeRequest.Name
  SnapNames,  \* CreateSnapshotRequest.Name
  Lvols,      \* uuids of logical volumes: the capacity of the pool
  Snaps,      \* uuids of snapshots
  Source,     \* Source[o]: the volume or snapshot that o is made from, or None
  None,
  MayFail,    \* requests that may fail without any effect
  MayLose,    \* requests that may be carried out with the answer lost
  MayDelay,   \* requests that may be carried out after the client timed out
  MayGiveUp,  \* the CO may stop waiting for a call
  MayCrash,   \* the controller may crash
  MaxFaults   \* how many of these may happen

Objs   == Names \cup SnapNames
Things == Lvols \cup Snaps
Keys   == Names \cup Things

Reads  == {"GET name", "GET lvol", "GET connect", "GET size"}
Writes == {"POST lvol", "POST snapshot", "POST clone", "DELETE lvol",
           "DELETE snapshot"}

RPCs == {"CreateVolume", "DeleteVolume", "CreateSnapshot", "DeleteSnapshot"}

ASSUME ConstantsAssumption ==
  /\ None \notin Handlers \cup Objs \cup Things \cup RPCs
  /\ Names \cap SnapNames = {} /\ Lvols \cap Snaps = {} /\ Objs \cap Things = {}
  /\ Source \in [Objs -> Objs \cup {None}]
  /\ \A s \in SnapNames : Source[s] \in Names
  /\ MayFail \subseteq Reads \cup Writes
  /\ MayLose \subseteq Writes /\ MayDelay \subseteq Writes
  /\ MayGiveUp \in BOOLEAN /\ MayCrash \in BOOLEAN
  /\ MaxFaults \in Nat

VARIABLES
  \* the storage cluster
  life,      \* life[t]: "unborn", "live" or "gone"
  nameOf,    \* nameOf[t]: the name that t was made with, or None
  late,      \* requests that the cluster has not carried out yet
  \* the controller process
  lock,      \* volumeLocks: lock[k] is the handler that holds k, or None
  pc, op,    \* the next step of a handler, and the RPC that it serves
  obj,       \* the object the RPC is about
  src,       \* the id of the volume or snapshot to copy from
  work,      \* the id of the volume or snapshot being made or removed
  \* the container orchestrator
  co,        \* co[o]: what the CO knows of o
  held,      \* held[o]: the id that the CO was given for o
  await,     \* await[o]: the handler whose answer the CO waits for, or None
  faults     \* faults so far

cluster == <<life, nameOf, late>>
locals  == <<op, obj, src, work>>
orch    == <<co, held, await>>
vars    == <<life, nameOf, late, lock, pc, op, obj, src, work, co, held, await,
             faults>>

Steps == {"idle", "lock", "lookup", "post", "snap", "clone", "publish", "info",
          "unpublish", "undo", "delete", "size", "delsnap", "ok", "err"}

Requests == [call : Writes, obj : Objs, id : Things \cup {None}]

TypeOK ==
  /\ life \in [Things -> {"unborn", "live", "gone"}]
  /\ nameOf \in [Things -> Objs \cup {None}]
  /\ late \subseteq Requests
  /\ lock \in [Keys -> Handlers \cup {None}]
  /\ pc \in [Handlers -> Steps]
  /\ op \in [Handlers -> RPCs \cup {None}]
  /\ obj \in [Handlers -> Objs \cup {None}]
  /\ src \in [Handlers -> Things \cup {None}]
  /\ work \in [Handlers -> Things \cup {None}]
  /\ co \in [Objs -> {"absent", "creating", "bound", "deleting", "deleted"}]
  /\ held \in [Objs -> Things \cup {None}]
  /\ await \in [Objs -> Handlers \cup {None}]
  /\ faults \in 0..MaxFaults

Init ==
  /\ life = [t \in Things |-> "unborn"]
  /\ nameOf = [t \in Things |-> None]
  /\ late = {}
  /\ lock = [k \in Keys |-> None]
  /\ pc = [h \in Handlers |-> "idle"]
  /\ op = [h \in Handlers |-> None]
  /\ obj = [h \in Handlers |-> None]
  /\ src = [h \in Handlers |-> None]
  /\ work = [h \in Handlers |-> None]
  /\ co = [o \in Objs |-> "absent"]
  /\ held = [o \in Objs |-> None]
  /\ await = [o \in Objs |-> None]
  /\ faults = 0

-----------------------------------------------------------------------------
\* Steps and faults.

Goto(h, step) == pc' = [pc EXCEPT ![h] = step]

NoFault == UNCHANGED faults

Fault ==
  /\ faults < MaxFaults
  /\ faults' = faults + 1

-----------------------------------------------------------------------------
\* The storage cluster: what a request does when it is carried out.

Live(t) == t # None /\ life[t] = "live"

LvolsNamed(n) == {l \in Lvols : life[l] = "live" /\ nameOf[l] = n}

\* A new volume or snapshot gets a uuid that was never used before.
Make(t, o) ==
  /\ life[t] = "unborn"
  /\ life' = [life EXCEPT ![t] = "live"]
  /\ nameOf' = [nameOf EXCEPT ![t] = o]

\* Removing what is not there changes nothing.
Remove(t) ==
  /\ life' = IF Live(t) THEN [life EXCEPT ![t] = "gone"] ELSE life
  /\ UNCHANGED nameOf

\* The kind of uuid that a request makes.
MadeBy(call) == IF call = "POST snapshot" THEN Snaps ELSE Lvols

Posts == {"POST lvol", "POST snapshot", "POST clone"}

\* The pool has room, and the volume or snapshot to copy from exists.
CanMake(call, id) ==
  /\ \E t \in MadeBy(call) : life[t] = "unborn"
  /\ call # "POST lvol" => Live(id)

\* The HTTP client gave up on this request; the cluster did not.
Delay(h, call, id) ==
  /\ call \in MayDelay /\ Fault
  /\ late' = late \cup {[call |-> call, obj |-> obj[h], id |-> id]}
  /\ UNCHANGED <<life, nameOf>>

\* A delayed request is carried out; nobody listens to its answer.
LateArrival ==
  \E r \in late :
    /\ late' = late \ {r}
    /\ \/ /\ r.call \in Posts /\ CanMake(r.call, r.id)
          /\ \E t \in MadeBy(r.call) : Make(t, r.obj)
       \/ /\ r.call \in Posts /\ ~CanMake(r.call, r.id)
          /\ UNCHANGED <<life, nameOf>>
       \/ /\ r.call \notin Posts
          /\ Remove(r.id)
    /\ UNCHANGED <<lock, pc, locals, orch, faults>>

-----------------------------------------------------------------------------
\* Locking and returning.

\* What a handler locks: CreateVolume its request's name, DeleteVolume the
\* volume id, CreateSnapshot its source's id, DeleteSnapshot the snapshot id.
KeyOf(h) ==
  CASE op[h] = "CreateVolume"   -> obj[h]
    [] op[h] = "CreateSnapshot" -> src[h]
    [] OTHER                    -> work[h]

FirstStep(h) ==
  CASE op[h] = "CreateVolume"   -> "lookup"
    [] op[h] = "DeleteVolume"   -> "unpublish"
    [] op[h] = "CreateSnapshot" -> "snap"
    [] OTHER                    -> "delsnap"

\* unlock := cs.volumeLocks.Lock(...), the keyed mutex of VolumeLocks.
Lock(h) ==
  /\ pc[h] = "lock"
  /\ lock[KeyOf(h)] = None
  /\ lock' = [lock EXCEPT ![KeyOf(h)] = h]
  /\ Goto(h, FirstStep(h))
  /\ UNCHANGED <<cluster, locals, orch, faults>>

Forget(h) ==
  /\ op' = [op EXCEPT ![h] = None]
  /\ obj' = [obj EXCEPT ![h] = None]
  /\ src' = [src EXCEPT ![h] = None]
  /\ work' = [work EXCEPT ![h] = None]

\* The CO learns the answer, unless it no longer waits for this handler.
Answer(h) ==
  LET o == obj[h] IN
  \/ /\ await[o] # h
     /\ UNCHANGED orch
  \/ /\ await[o] = h
     /\ await' = [await EXCEPT ![o] = None]
     /\ \/ /\ pc[h] = "err"
           /\ UNCHANGED <<co, held>>
        \/ /\ pc[h] = "ok" /\ op[h] \in {"CreateVolume", "CreateSnapshot"}
           /\ co' = [co EXCEPT ![o] = "bound"]
           /\ held' = [held EXCEPT ![o] = work[h]]
        \/ /\ pc[h] = "ok" /\ op[h] \in {"DeleteVolume", "DeleteSnapshot"}
           /\ co' = [co EXCEPT ![o] = "deleted"]
           /\ UNCHANGED held

\* Mutant: a return path without the deferred unlock.
ReturnLocked(h) ==
  /\ pc[h] \in {"ok", "err"}
  /\ Answer(h)
  /\ Goto(h, "idle")
  /\ Forget(h)
  /\ UNCHANGED <<cluster, lock, faults>>

\* The handler returns; the deferred unlock runs.
Return(h) ==
  /\ pc[h] \in {"ok", "err"}
  /\ Answer(h)
  /\ lock' = [lock EXCEPT ![KeyOf(h)] = None]
  /\ Goto(h, "idle")
  /\ Forget(h)
  /\ UNCHANGED <<cluster, faults>>

-----------------------------------------------------------------------------
\* CreateVolume.

\* How a volume that was not found is made: an lvol, the clone of a snapshot,
\* or the clone of a snapshot that is taken of the source volume first.
Produce(o) ==
  CASE Source[o] = None    -> "post"
    [] Source[o] \in Names -> "snap"
    [] OTHER               -> "clone"

\* Mutant: no getExistingVolume.
SkipLookup(h) ==
  /\ pc[h] = "lookup"
  /\ Goto(h, Produce(obj[h]))
  /\ UNCHANGED <<cluster, lock, locals, orch, faults>>

\* Mutant: an existing volume is an error.
RefuseExisting(h) ==
  /\ pc[h] = "lookup"
  /\ Goto(h, IF LvolsNamed(obj[h]) = {} THEN Produce(obj[h]) ELSE "err")
  /\ UNCHANGED <<cluster, lock, locals, orch, faults>>

\* getExistingVolume: GET /lvol/pool/name.  Every error of this request,
\* not only "not found", leads to the creation of a volume.
Lookup(h) ==
  /\ pc[h] = "lookup"
  /\ \/ \E l \in LvolsNamed(obj[h]) :
          /\ work' = [work EXCEPT ![h] = l]
          /\ Goto(h, "publish")
          /\ NoFault
     \/ /\ \/ LvolsNamed(obj[h]) = {} /\ NoFault
           \/ "GET name" \in MayFail /\ Fault
        /\ Goto(h, Produce(obj[h]))
        /\ UNCHANGED work
  /\ UNCHANGED <<cluster, lock, op, obj, src, orch>>

\* prepareCreateVolumeReq and sbclient.CreateVolume: POST /lvol.  A bad
\* parameter, missing keys or a PVC that cannot be read fail like a POST
\* without effect.
Post(h) ==
  /\ pc[h] = "post"
  /\ \/ \E l \in Lvols :
          /\ Make(l, obj[h])
          /\ \/ /\ NoFault
                /\ work' = [work EXCEPT ![h] = l]
                /\ Goto(h, "publish")
             \/ /\ "POST lvol" \in MayLose /\ Fault
                /\ Goto(h, "err")
                /\ UNCHANGED work
          /\ UNCHANGED late
     \/ /\ \/ ~CanMake("POST lvol", None) /\ NoFault
           \/ "POST lvol" \in MayFail /\ Fault
        /\ Goto(h, "err")
        /\ UNCHANGED <<cluster, work>>
     \/ /\ Delay(h, "POST lvol", None)
        /\ Goto(h, "err")
        /\ UNCHANGED work
  /\ UNCHANGED <<lock, op, obj, src, orch>>

\* sbclient.CreateSnapshot: POST /snapshot, for CreateSnapshot and as the
\* first half of handleVolumeSource.
Snap(h) ==
  /\ pc[h] = "snap"
  /\ \/ /\ Live(src[h])
        /\ \E s \in Snaps :
             /\ Make(s, obj[h])
             /\ \/ /\ NoFault
                   /\ op[h] = "CreateSnapshot"
                   /\ work' = [work EXCEPT ![h] = s]
                   /\ Goto(h, "size")
                   /\ UNCHANGED src
                \/ /\ NoFault
                   /\ op[h] = "CreateVolume"
                   /\ src' = [src EXCEPT ![h] = s]
                   /\ Goto(h, "clone")
                   /\ UNCHANGED work
                \/ /\ "POST snapshot" \in MayLose /\ Fault
                   /\ Goto(h, "err")
                   /\ UNCHANGED <<src, work>>
        /\ UNCHANGED late
     \/ /\ \/ ~CanMake("POST snapshot", src[h]) /\ NoFault
           \/ "POST snapshot" \in MayFail /\ Fault
        /\ Goto(h, "err")
        /\ UNCHANGED <<cluster, src, work>>
     \/ /\ Delay(h, "POST snapshot", src[h])
        /\ Goto(h, "err")
        /\ UNCHANGED <<src, work>>
  /\ UNCHANGED <<lock, op, obj, orch>>

\* sbclient.CloneSnapshot: POST /snapshot/clone.
Clone(h) ==
  /\ pc[h] = "clone"
  /\ \/ /\ Live(src[h])
        /\ \E l \in Lvols :
             /\ Make(l, obj[h])
             /\ \/ /\ NoFault
                   /\ work' = [work EXCEPT ![h] = l]
                   /\ Goto(h, "publish")
                \/ /\ "POST clone" \in MayLose /\ Fault
                   /\ Goto(h, "err")
                   /\ UNCHANGED work
        /\ UNCHANGED late
     \/ /\ \/ ~CanMake("POST clone", src[h]) /\ NoFault
           \/ "POST clone" \in MayFail /\ Fault
        /\ Goto(h, "err")
        /\ UNCHANGED <<cluster, work>>
     \/ /\ Delay(h, "POST clone", src[h])
        /\ Goto(h, "err")
        /\ UNCHANGED work
  /\ UNCHANGED <<lock, op, obj, src, orch>>

\* A read of the lvol's record succeeds when the lvol is there and the
\* request gets through.
Read(h, call, t, good, bad) ==
  /\ \/ Live(t) /\ NoFault /\ Goto(h, good)
     \/ ~Live(t) /\ NoFault /\ Goto(h, bad)
     \/ call \in MayFail /\ Fault /\ Goto(h, bad)
  /\ UNCHANGED <<cluster, lock, locals, orch>>

\* sbclient.PublishVolume: GET /lvol/id.
Publish(h) ==
  /\ pc[h] = "publish"
  /\ Read(h, "GET lvol", work[h], "info", "undo")

\* sbclient.VolumeInfo: GET /lvol/connect/id.
Info(h) ==
  /\ pc[h] = "info"
  /\ Read(h, "GET connect", work[h], "ok", "unpublish")

\* Mutant: CreateVolume succeeds although it has removed the volume.
UndoThenOk(h) ==
  /\ pc[h] = "undo"
  /\ Remove(work[h])
  /\ Goto(h, "ok")
  /\ UNCHANGED <<late, lock, locals, orch, faults>>

\* cs.deleteVolume after publishVolume failed: DELETE /lvol/id, whose result
\* is ignored, whether the volume was created by this call or found by it.
Undo(h) ==
  /\ pc[h] = "undo"
  /\ \/ NoFault /\ Remove(work[h]) /\ UNCHANGED late
     \/ "DELETE lvol" \in MayFail /\ Fault /\ UNCHANGED cluster
     \/ Delay(h, "DELETE lvol", work[h])
  /\ Goto(h, "err")
  /\ UNCHANGED <<lock, locals, orch>>

-----------------------------------------------------------------------------
\* DeleteVolume, CreateSnapshot, DeleteSnapshot.

\* sbclient.UnpublishVolume: GET /lvol/id.  DeleteVolume stops when it fails
\* (a missing lvol included); publishVolume ignores its result.
Unpublish(h) ==
  /\ pc[h] = "unpublish"
  /\ \/ op[h] = "DeleteVolume" /\ Read(h, "GET lvol", work[h], "delete", "err")
     \/ op[h] = "CreateVolume" /\ Read(h, "GET lvol", work[h], "undo", "undo")

\* Mutant: every error of the DELETE request is tolerated.
DeleteTolerant(h) ==
  /\ pc[h] = "delete"
  /\ \/ NoFault /\ Remove(work[h]) /\ UNCHANGED late
     \/ "DELETE lvol" \in MayFail /\ Fault /\ UNCHANGED cluster
     \/ Delay(h, "DELETE lvol", work[h])
  /\ Goto(h, "ok")
  /\ UNCHANGED <<lock, locals, orch>>

\* cs.deleteVolume: DELETE /lvol/id; "no such device" counts as success.
Delete(h) ==
  /\ pc[h] = "delete"
  /\ \/ /\ Remove(work[h]) /\ UNCHANGED late
        /\ \/ NoFault /\ Goto(h, "ok")
           \/ "DELETE lvol" \in MayLose /\ Fault /\ Goto(h, "err")
     \/ "DELETE lvol" \in MayFail /\ Fault /\ Goto(h, "err") /\ UNCHANGED cluster
     \/ Delay(h, "DELETE lvol", work[h]) /\ Goto(h, "err")
  /\ UNCHANGED <<lock, locals, orch>>

\* sbclient.GetVolumeSize: GET /lvol/id of the snapshot's source.
Size(h) ==
  /\ pc[h] = "size"
  /\ Read(h, "GET size", src[h], "ok", "err")

\* sbclient.DeleteSnapshot: DELETE /snapshot/id; every error is returned, the
\* one for a missing snapshot too.  The request carries the whole CSI id
\* "cluster:uuid"; the cluster is taken to accept it.
DeleteSnap(h) ==
  /\ pc[h] = "delsnap"
  /\ \/ /\ Live(work[h])
        /\ Remove(work[h]) /\ UNCHANGED late
        /\ \/ NoFault /\ Goto(h, "ok")
           \/ "DELETE snapshot" \in MayLose /\ Fault /\ Goto(h, "err")
     \/ ~Live(work[h]) /\ NoFault /\ Goto(h, "err") /\ UNCHANGED cluster
     \/ "DELETE snapshot" \in MayFail /\ Fault /\ Goto(h, "err") /\ UNCHANGED cluster
     \/ Delay(h, "DELETE snapshot", work[h]) /\ Goto(h, "err")
  /\ UNCHANGED <<lock, locals, orch>>

-----------------------------------------------------------------------------
\* The container orchestrator.  It has at most one call under way for an
\* object, repeats a failed call, and forgets nothing.

Begin(h, rpc, o, s, w) ==
  /\ pc[h] = "idle"
  /\ Goto(h, "lock")
  /\ op' = [op EXCEPT ![h] = rpc]
  /\ obj' = [obj EXCEPT ![h] = o]
  /\ src' = [src EXCEPT ![h] = s]
  /\ work' = [work EXCEPT ![h] = w]
  /\ await[o] = None
  /\ await' = [await EXCEPT ![o] = h]

\* CreateVolume or CreateSnapshot; the source is there and stays there.
CallCreate(h, o) ==
  /\ co[o] \in {"absent", "creating"}
  /\ \/ Source[o] = None
     \/ Source[o] # None /\ co[Source[o]] = "bound"
  /\ co' = [co EXCEPT ![o] = "creating"]
  /\ Begin(h, IF o \in Names THEN "CreateVolume" ELSE "CreateSnapshot", o,
           IF Source[o] = None THEN None ELSE held[Source[o]], None)
  /\ UNCHANGED <<cluster, lock, held, faults>>

\* DeleteVolume or DeleteSnapshot, once nothing is being made from o.
CallDelete(h, o) ==
  /\ co[o] \in {"bound", "deleting"}
  /\ \A x \in Objs : Source[x] = o => co[x] # "creating"
  /\ co' = [co EXCEPT ![o] = "deleting"]
  /\ Begin(h, IF o \in Names THEN "DeleteVolume" ELSE "DeleteSnapshot", o,
           None, held[o])
  /\ UNCHANGED <<cluster, lock, held, faults>>

\* The gRPC deadline of the CO's call expires; the handler goes on.
GiveUp(o) ==
  /\ MayGiveUp /\ Fault
  /\ await[o] # None
  /\ await' = [await EXCEPT ![o] = None]
  /\ UNCHANGED <<cluster, lock, pc, locals, co, held>>

\* The controller process dies: its handlers and its locks are gone, the CO
\* sees its calls fail.
Crash ==
  /\ MayCrash /\ Fault
  /\ lock' = [k \in Keys |-> None]
  /\ pc' = [h \in Handlers |-> "idle"]
  /\ op' = [h \in Handlers |-> None]
  /\ obj' = [h \in Handlers |-> None]
  /\ src' = [h \in Handlers |-> None]
  /\ work' = [h \in Handlers |-> None]
  /\ await' = [o \in Objs |-> None]
  /\ UNCHANGED <<cluster, co, held>>

-----------------------------------------------------------------------------

\* A step of a handler that is past Lock.
Step(h) ==
  \/ Lookup(h) \/ Post(h) \/ Snap(h) \/ Clone(h) \/ Publish(h) \/ Info(h)
  \/ Undo(h) \/ Unpublish(h) \/ Delete(h) \/ Size(h) \/ DeleteSnap(h)
  \/ Return(h)

Next ==
  \/ \E h \in Handlers : Lock(h) \/ Step(h)
  \/ \E h \in Handlers, o \in Objs : CallCreate(h, o) \/ CallDelete(h, o)
  \/ \E o \in Objs : GiveUp(o)
  \/ LateArrival
  \/ Crash

Spec == Init /\ [][Next]_vars

(***************************************************************************)
(* Every request has a 60s timeout, so a handler past Lock goes on (weak   *)
(* fairness); Go mutexes do not starve their waiters (strong fairness, see *)
(* VolumeLocks); the CO repeats a create call until it succeeds and, once  *)
(* it has started to delete, the delete call.                              *)
(***************************************************************************)
Fairness ==
  /\ \A h \in Handlers : WF_vars(Step(h)) /\ SF_vars(Lock(h))
  /\ \A o \in Objs :
       /\ SF_vars(\E h \in Handlers : co[o] = "creating" /\ CallCreate(h, o))
       /\ SF_vars(\E h \in Handlers : co[o] = "deleting" /\ CallDelete(h, o))

FairSpec == Spec /\ Fairness

-----------------------------------------------------------------------------

\* What a handler's step says about its RPC and its local variables.
HandlerOK(h) ==
  /\ pc[h] # "idle" => op[h] # None /\ obj[h] # None
  /\ pc[h] = "snap" => op[h] \in {"CreateVolume", "CreateSnapshot"}
  /\ pc[h] = "unpublish" => op[h] \in {"CreateVolume", "DeleteVolume"}
  /\ pc[h] = "size" => op[h] = "CreateSnapshot"
  /\ pc[h] = "delete" => op[h] = "DeleteVolume"
  /\ pc[h] = "delsnap" => op[h] = "DeleteSnapshot"
  /\ pc[h] \in {"lookup", "post", "clone", "publish", "info", "undo"}
       => op[h] = "CreateVolume"
  /\ pc[h] \in {"publish", "info", "unpublish", "undo", "size"}
       => work[h] # None
  /\ op[h] = "CreateVolume" => obj[h] \in Names
  /\ op[h] = "CreateSnapshot" => src[h] # None
  /\ op[h] \in {"DeleteVolume", "DeleteSnapshot"} => work[h] # None
  /\ pc[h] = "ok" => work[h] # None

HandlerInv == \A h \in Handlers : HandlerOK(h)

\* The lock discipline: a handler past Lock holds exactly the key it locked,
\* and every key that is held is held by such a handler.
LockDiscipline ==
  /\ \A h \in Handlers : pc[h] \notin {"idle", "lock"} => lock[KeyOf(h)] = h
  /\ \A k \in Keys : lock[k] # None =>
       pc[lock[k]] \notin {"idle", "lock"} /\ KeyOf(lock[k]) = k

\* The CO knows the id of what it was told exists.
HeldKnown ==
  \A o \in Objs : co[o] \in {"bound", "deleting", "deleted"} => held[o] # None

\* The CO's view of a call agrees with the handler that serves it.
CallInv ==
  \A h \in Handlers : \A o \in Objs : await[o] = h =>
    /\ pc[h] # "idle" /\ obj[h] = o
    /\ op[h] \in {"CreateVolume", "CreateSnapshot"} => co[o] = "creating"
    /\ op[h] \in {"DeleteVolume", "DeleteSnapshot"} =>
         co[o] = "deleting" /\ work[h] = held[o]

\* The inductive invariant that every other one builds on.
LockInv == TypeOK /\ HandlerInv /\ HeldKnown /\ CallInv /\ LockDiscipline

\* However CreateVolume calls are repeated, run concurrently, lose the answer
\* of POST or are cut by a crash, a request name has at most one live lvol.
OneLvolPerName ==
  \A n \in Names : \A l, m \in LvolsNamed(n) : l = m

\* DeleteVolume and DeleteSnapshot answer OK only when the volume or snapshot
\* no longer exists.
DeletedGone ==
  \A o \in Objs : co[o] = "deleted" => life[held[o]] = "gone"

\* No request that is still to be carried out makes an lvol.
NoLateLvol == \A r \in late : r.call \notin {"POST lvol", "POST clone"}

\* The inductive strengthening of OneLvolPerName: a CreateVolume handler that
\* is about to make an lvol holds the lock of its name, and there is none; no
\* lvol is made behind its back.
NameInv ==
  /\ LockInv
  /\ NoLateLvol
  /\ \A h \in Handlers :
       pc[h] \in {"post", "snap", "clone"} /\ op[h] = "CreateVolume"
         => LvolsNamed(obj[h]) = {}
  /\ OneLvolPerName

\* The inductive strengthening of DeletedGone: ids in use have been born, and
\* a delete handler is about to answer OK only when its volume or snapshot is
\* gone.
DeletedInv ==
  /\ LockInv
  /\ \A h \in Handlers : work[h] # None => life[work[h]] # "unborn"
  /\ \A o \in Objs : held[o] # None => life[held[o]] # "unborn"
  /\ \A h \in Handlers :
       pc[h] = "ok" /\ op[h] \in {"DeleteVolume", "DeleteSnapshot"}
         => life[work[h]] = "gone"
  /\ DeletedGone

\* A volume or snapshot that the CO was given, and has not asked to delete,
\* is not destroyed by the clean-up of another CreateVolume.
HandedOutKept ==
  \A o \in Objs : co[o] = "bound" => Live(held[o])

\* Once the CO was told that a volume is deleted, no lvol of its name is left
\* in the pool.
NoOrphan ==
  \A n \in Names : co[n] = "deleted" => LvolsNamed(n) = {}

\* A handler at work is the only one that serves its object, works on what was
\* made under that name, and answers a creation only with what exists.
ServesOne(h) ==
  pc[h] # "idle" =>
    /\ await[obj[h]] = h
    /\ op[h] = "CreateSnapshot" => obj[h] \in SnapNames
    /\ work[h] # None =>
         nameOf[work[h]] = obj[h] /\ (work[h] \in Lvols <=> obj[h] \in Names)
    /\ \/ pc[h] = "size"
       \/ pc[h] = "ok" /\ op[h] \in {"CreateVolume", "CreateSnapshot"}
       => Live(work[h])

\* What a request that is carried out late may still do: make something under
\* the name it was sent for, or remove a snapshot that the CO asked to delete.
LateOK(r) ==
  \/ r.call = "POST snapshot"
  \/ r.call \in {"POST lvol", "POST clone"} /\ r.obj \in Names
  \/ /\ r.call = "DELETE snapshot" /\ r.id # None
     /\ life[r.id] # "unborn" /\ nameOf[r.id] = r.obj
     /\ co[r.obj] \in {"deleting", "deleted"}

\* The inductive strengthening of HandedOutKept, for a CO that waits for its
\* calls: what is made bears the name it was made for, and so no handler works
\* on what was handed out for another name.
HeldInv ==
  /\ DeletedInv
  /\ \A h \in Handlers : ServesOne(h)
  /\ \A r \in late : LateOK(r)
  /\ \A t \in Things : life[t] # "unborn" =>
       nameOf[t] \in Objs /\ (t \in Lvols => nameOf[t] \in Names)
  /\ \A o \in Objs : held[o] # None =>
       nameOf[held[o]] = o /\ (held[o] \in Lvols <=> o \in Names)
  /\ HandedOutKept

\* The inductive strengthening of NoOrphan: a name that was handed out has no
\* other lvol than the one handed out.
KeptInv ==
  /\ NameInv /\ HeldInv
  /\ late = {}
  /\ \A n \in Names : co[n] \in {"bound", "deleting"} => LvolsNamed(n) \subseteq {held[n]}
  /\ NoOrphan

MadeFor(o) == {t \in Things : life[t] = "live" /\ nameOf[t] = o}

Promise ==
  INSTANCE Provisioning WITH
    phase <- co, given <- held, alive <- [o \in Objs |-> MadeFor(o)],
    used <- {t \in Things : life[t] # "unborn"}

\* The controller service, with all the requests, retries, clean-ups and
\* crashes of its handlers, implements the abstract specification of
\* provisioning: what is handed out exists and stays, an id is never reused,
\* a name never has two lvols, and what is reported as deleted left nothing.
ImplementsProvisioning == Promise!Spec

\* Every handler returns: handlers never wait for each other in a circle.
CallsReturn == \A h \in Handlers : pc[h] # "idle" ~> pc[h] = "idle"

\* A volume that the CO asks for is eventually provisioned, whatever finite
\* number of faults hit the calls.
CreateSettles == \A n \in Names : co[n] = "creating" ~> co[n] = "bound"
=============================================================================
