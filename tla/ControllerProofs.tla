-------------------------- MODULE ControllerProofs --------------------------
(***************************************************************************)
(* Proofs about Controller for every number of handlers, names, volumes,   *)
(* snapshots and faults.                                                   *)
(***************************************************************************)
EXTENDS Controller, TLAPS

\* The lock discipline holds when the controller starts.
LEMMA LockInvInit == Init => LockInv
  BY ConstantsAssumption
  DEF ConstantsAssumption, RPCs, Init, LockInv, TypeOK, HandlerInv, HandlerOK, HeldKnown,
      CallInv, LockDiscipline, Steps, Keys, Objs, Things

\* The fault budget is never exceeded.
LEMMA FaultsBounded ==
  ASSUME TypeOK, NoFault \/ Fault
  PROVE  faults' \in 0..MaxFaults
  BY ConstantsAssumption DEF ConstantsAssumption, TypeOK, NoFault, Fault

\* A handler past Lock that moves on to another step past Lock keeps the lock
\* discipline and the CO's view, as long as it does not touch what they are
\* computed from.
LEMMA MovingOn ==
  ASSUME LockInv, NEW h \in Handlers, NEW x \in Steps \ {"idle", "lock"},
         pc[h] \notin {"idle", "lock"}, Goto(h, x),
         UNCHANGED <<lock, op, obj, co, held, await>>,
         op[h] # "CreateVolume" => src' = src,
         op[h] \notin {"CreateVolume", "CreateSnapshot"} => work' = work,
         \A g \in Handlers \ {h} : src'[g] = src[g] /\ work'[g] = work[g]
  PROVE  LockDiscipline' /\ CallInv'
<1>1. \A g \in Handlers : KeyOf(g)' = KeyOf(g)
  BY DEF KeyOf
<1>2. LockDiscipline'
  BY <1>1, ConstantsAssumption
  DEF ConstantsAssumption, LockInv, TypeOK, LockDiscipline, Goto
<1>3. CallInv'
  <2>1. \A g \in Handlers : op[g] \in {"DeleteVolume", "DeleteSnapshot"} => work'[g] = work[g]
    OBVIOUS
  <2>2. QED
    BY <2>1 DEF LockInv, TypeOK, CallInv, Goto
<1>4. QED
  BY <1>2, <1>3

\* A step of h leaves what holds of the other handlers alone.
LEMMA OthersOK ==
  ASSUME LockInv, NEW h \in Handlers, HandlerOK(h)',
         \A g \in Handlers \ {h} :
           /\ pc'[g] = pc[g] /\ op'[g] = op[g] /\ obj'[g] = obj[g]
           /\ src'[g] = src[g] /\ work'[g] = work[g]
  PROVE  HandlerInv'
<1>1. ASSUME NEW g \in Handlers, g # h PROVE HandlerOK(g)'
  BY <1>1 DEF LockInv, HandlerInv, HandlerOK
<1>2. QED
  BY <1>1 DEF HandlerInv

\* A request that only reads the cluster moves its handler on.
LEMMA Reading ==
  ASSUME LockInv, NEW h \in Handlers, NEW call, NEW t,
         NEW good \in Steps \ {"idle", "lock"}, NEW bad \in Steps \ {"idle", "lock"},
         pc[h] \notin {"idle", "lock"}, Read(h, call, t, good, bad)
  PROVE  /\ TypeOK' /\ HeldKnown' /\ LockDiscipline' /\ CallInv'
         /\ pc'[h] \in {good, bad}
         /\ \A g \in Handlers \ {h} : pc'[g] = pc[g]
         /\ UNCHANGED <<op, obj, src, work>>
<1>1. /\ NoFault \/ Fault
      /\ Goto(h, good) \/ Goto(h, bad)
      /\ UNCHANGED <<life, nameOf, late, lock, op, obj, src, work, co, held, await>>
  BY DEF Read, cluster, locals, orch
<1>2. TypeOK'
  <2>1. faults' \in 0..MaxFaults
    BY <1>1, FaultsBounded DEF LockInv
  <2>2. pc' \in [Handlers -> Steps]
    BY <1>1 DEF Goto, LockInv, TypeOK
  <2>3. QED
    BY <1>1, <2>1, <2>2 DEF LockInv, TypeOK
<1>3. HeldKnown'
  BY <1>1 DEF LockInv, HeldKnown
<1>4. LockDiscipline' /\ CallInv'
  BY <1>1, MovingOn
<1>5. QED
  BY <1>1, <1>2, <1>3, <1>4 DEF Goto, LockInv, TypeOK

\* PublishVolume, VolumeInfo, UnpublishVolume and GetVolumeSize.
LEMMA ReadSteps ==
  ASSUME LockInv, NEW h \in Handlers,
         Publish(h) \/ Info(h) \/ Unpublish(h) \/ Size(h)
  PROVE  LockInv'
<1>1. CASE Publish(h)
  <2>1. /\ TypeOK' /\ HeldKnown' /\ LockDiscipline' /\ CallInv'
        /\ pc'[h] \in {"info", "undo"} /\ \A g \in Handlers \ {h} : pc'[g] = pc[g]
        /\ UNCHANGED <<op, obj, src, work>>
    BY <1>1, Reading DEF Publish, Steps
  <2>2. HandlerOK(h)'
    BY <1>1, <2>1 DEF Publish, HandlerInv, HandlerOK, LockInv, TypeOK
  <2>3. QED
    BY <2>1, <2>2, OthersOK DEF LockInv, TypeOK
<1>2. CASE Info(h)
  <2>1. /\ TypeOK' /\ HeldKnown' /\ LockDiscipline' /\ CallInv'
        /\ pc'[h] \in {"ok", "unpublish"} /\ \A g \in Handlers \ {h} : pc'[g] = pc[g]
        /\ UNCHANGED <<op, obj, src, work>>
    BY <1>2, Reading DEF Info, Steps
  <2>2. HandlerOK(h)'
    BY <1>2, <2>1 DEF Info, HandlerInv, HandlerOK, LockInv, TypeOK
  <2>3. QED
    BY <2>1, <2>2, OthersOK DEF LockInv, TypeOK
<1>3. CASE Unpublish(h) /\ op[h] = "DeleteVolume"
  <2>1. /\ TypeOK' /\ HeldKnown' /\ LockDiscipline' /\ CallInv'
        /\ pc'[h] \in {"delete", "err"} /\ \A g \in Handlers \ {h} : pc'[g] = pc[g]
        /\ UNCHANGED <<op, obj, src, work>>
    BY <1>3, Reading DEF Unpublish, Steps
  <2>2. HandlerOK(h)'
    BY <1>3, <2>1 DEF Unpublish, HandlerInv, HandlerOK, LockInv, TypeOK
  <2>3. QED
    BY <2>1, <2>2, OthersOK DEF LockInv, TypeOK
<1>4. CASE Unpublish(h) /\ op[h] = "CreateVolume"
  <2>1. /\ TypeOK' /\ HeldKnown' /\ LockDiscipline' /\ CallInv'
        /\ pc'[h] \in {"undo", "undo"} /\ \A g \in Handlers \ {h} : pc'[g] = pc[g]
        /\ UNCHANGED <<op, obj, src, work>>
    BY <1>4, Reading DEF Unpublish, Steps
  <2>2. HandlerOK(h)'
    BY <1>4, <2>1 DEF Unpublish, HandlerInv, HandlerOK, LockInv, TypeOK
  <2>3. QED
    BY <2>1, <2>2, OthersOK DEF LockInv, TypeOK
<1>5. CASE Size(h)
  <2>1. /\ TypeOK' /\ HeldKnown' /\ LockDiscipline' /\ CallInv'
        /\ pc'[h] \in {"ok", "err"} /\ \A g \in Handlers \ {h} : pc'[g] = pc[g]
        /\ UNCHANGED <<op, obj, src, work>>
    BY <1>5, Reading DEF Size, Steps
  <2>2. HandlerOK(h)'
    BY <1>5, <2>1 DEF Size, HandlerInv, HandlerOK, LockInv, TypeOK
  <2>3. QED
    BY <2>1, <2>2, OthersOK DEF LockInv, TypeOK
<1>6. QED
  BY <1>1, <1>2, <1>3, <1>4, <1>5 DEF Unpublish

\* A request that changes the cluster moves its handler on.
LEMMA Writing ==
  ASSUME LockInv, NEW h \in Handlers, NEW x \in Steps \ {"idle", "lock"},
         pc[h] \notin {"idle", "lock"}, Goto(h, x), HandlerOK(h)',
         NoFault \/ Fault, UNCHANGED <<lock, op, obj, co, held, await>>,
         life' \in [Things -> {"unborn", "live", "gone"}],
         nameOf' \in [Things -> Objs \cup {None}], late' \subseteq Requests,
         NEW s \in Things \cup {None}, src' = [src EXCEPT ![h] = s],
         NEW w \in Things \cup {None}, work' = [work EXCEPT ![h] = w],
         op[h] # "CreateVolume" => s = src[h],
         op[h] \notin {"CreateVolume", "CreateSnapshot"} => w = work[h]
  PROVE  LockInv'
<1>1. TypeOK'
  <2>1. faults' \in 0..MaxFaults
    BY FaultsBounded DEF LockInv
  <2>2. pc' \in [Handlers -> Steps]
    BY DEF Goto, LockInv, TypeOK
  <2>3. QED
    BY <2>1, <2>2 DEF LockInv, TypeOK
<1>2. \A g \in Handlers \ {h} : src'[g] = src[g] /\ work'[g] = work[g]
  BY DEF LockInv, TypeOK
<1>3. HandlerInv'
  BY <1>2, OthersOK DEF Goto, LockInv, TypeOK
<1>4. HeldKnown'
  BY DEF LockInv, HeldKnown
<1>5. LockDiscipline' /\ CallInv'
  <2>1. op[h] # "CreateVolume" => src' = src
    BY DEF LockInv, TypeOK
  <2>2. op[h] \notin {"CreateVolume", "CreateSnapshot"} => work' = work
    BY DEF LockInv, TypeOK
  <2>3. QED
    BY <1>2, <2>1, <2>2, MovingOn
<1>6. QED
  BY <1>1, <1>3, <1>4, <1>5 DEF LockInv

\* What a carried out request leaves in the cluster is well typed.
LEMMA ClusterTyped ==
  ASSUME TypeOK, NEW t \in Things, NEW o \in Objs, Make(t, o) \/ Remove(t)
  PROVE  /\ life' \in [Things -> {"unborn", "live", "gone"}]
         /\ nameOf' \in [Things -> Objs \cup {None}]
  BY DEF TypeOK, Make, Remove

\* A request that the cluster has yet to carry out is well typed.
LEMMA DelayTyped ==
  ASSUME TypeOK, NEW h \in Handlers, obj[h] # None, NEW call \in Writes,
         NEW id \in Things \cup {None}, Delay(h, call, id)
  PROVE  late' \subseteq Requests /\ UNCHANGED <<life, nameOf>> /\ Fault
<1>1. obj[h] \in Objs
  BY DEF TypeOK
<1>2. [call |-> call, obj |-> obj[h], id |-> id] \in Requests
  BY <1>1 DEF Requests
<1>3. QED
  BY <1>2 DEF Delay, TypeOK

\* getExistingVolume.
LEMMA LookupStep ==
  ASSUME LockInv, NEW h \in Handlers, Lookup(h)
  PROVE  LockInv'
<1> USE ConstantsAssumption DEF ConstantsAssumption, LockInv
<1>1. pc[h] = "lookup" /\ op[h] = "CreateVolume" /\ obj[h] \in Names
  BY DEF Lookup, HandlerInv, HandlerOK
<1>2. /\ NoFault \/ Fault
      /\ UNCHANGED <<life, nameOf, late, lock, op, obj, src, co, held, await>>
  BY DEF Lookup, cluster, orch
<1>3. PICK x \in {"publish", "post", "snap", "clone"}, w \in Things \cup {None} :
        /\ Goto(h, x) /\ work' = [work EXCEPT ![h] = w]
        /\ x = "publish" => w # None
  <2>1. CASE \E l \in LvolsNamed(obj[h]) :
               work' = [work EXCEPT ![h] = l] /\ Goto(h, "publish")
    BY <2>1 DEF LvolsNamed, Things
  <2>2. CASE Goto(h, Produce(obj[h])) /\ UNCHANGED work
    <3>1. Produce(obj[h]) \in {"post", "snap", "clone"}
      BY DEF Produce
    <3>2. work' = [work EXCEPT ![h] = work[h]] /\ work[h] \in Things \cup {None}
      BY <2>2 DEF TypeOK
    <3>3. QED
      BY <2>2, <3>1, <3>2
  <2>3. QED
    BY <2>1, <2>2 DEF Lookup
<1>4. HandlerOK(h)'
  BY <1>1, <1>2, <1>3 DEF HandlerInv, HandlerOK, Goto, TypeOK
<1>5. src' = [src EXCEPT ![h] = src[h]] /\ src[h] \in Things \cup {None}
  BY <1>2 DEF TypeOK
<1>6. /\ life' \in [Things -> {"unborn", "live", "gone"}]
      /\ nameOf' \in [Things -> Objs \cup {None}] /\ late' \subseteq Requests
  BY <1>2 DEF TypeOK
<1>7. QED
  BY <1>1, <1>2, <1>3, <1>4, <1>5, <1>6, Writing DEF Steps

\* sbclient.CreateVolume.
LEMMA PostStep ==
  ASSUME LockInv, NEW h \in Handlers, Post(h)
  PROVE  LockInv'
<1> USE ConstantsAssumption DEF ConstantsAssumption, LockInv
<1>1. /\ pc[h] = "post" /\ op[h] = "CreateVolume" /\ obj[h] \in Objs
      /\ obj[h] # None
  BY DEF Post, HandlerInv, HandlerOK, Objs
<1>2. UNCHANGED <<lock, op, obj, src, co, held, await>>
  BY DEF Post, orch
<1>3. src' = [src EXCEPT ![h] = src[h]] /\ src[h] \in Things \cup {None}
  BY <1>2 DEF TypeOK
<1>4. work' = work => work' = [work EXCEPT ![h] = work[h]] /\ work[h] \in Things \cup {None}
  BY DEF TypeOK
<1>5. \E x \in {"publish", "err"}, w \in Things \cup {None} :
        /\ Goto(h, x) /\ work' = [work EXCEPT ![h] = w]
        /\ x = "publish" => w # None
        /\ NoFault \/ Fault
        /\ life' \in [Things -> {"unborn", "live", "gone"}]
        /\ nameOf' \in [Things -> Objs \cup {None}] /\ late' \subseteq Requests
  <2>1. CASE \E l \in Lvols :
               /\ Make(l, obj[h]) /\ UNCHANGED late
               /\ \/ NoFault /\ work' = [work EXCEPT ![h] = l] /\ Goto(h, "publish")
                  \/ Fault /\ Goto(h, "err") /\ UNCHANGED work
    <3>1. PICK l \in Lvols :
            /\ Make(l, obj[h]) /\ UNCHANGED late
            /\ \/ NoFault /\ work' = [work EXCEPT ![h] = l] /\ Goto(h, "publish")
               \/ Fault /\ Goto(h, "err") /\ UNCHANGED work
      BY <2>1
    <3>2. l \in Things
      BY DEF Things
    <3>3. /\ life' \in [Things -> {"unborn", "live", "gone"}]
          /\ nameOf' \in [Things -> Objs \cup {None}] /\ late' \subseteq Requests
      BY <1>1, <3>1, <3>2, ClusterTyped DEF TypeOK
    <3>4. QED
      BY <1>4, <3>1, <3>2, <3>3
  <2>2. CASE /\ NoFault \/ Fault
             /\ Goto(h, "err") /\ UNCHANGED <<life, nameOf, late, work>>
    BY <1>4, <2>2 DEF TypeOK
  <2>3. CASE Delay(h, "POST lvol", None) /\ Goto(h, "err") /\ UNCHANGED work
    BY <1>1, <1>3, <1>4, <2>3, DelayTyped DEF TypeOK, Writes
  <2>4. QED
    BY <2>1, <2>2, <2>3 DEF Post, cluster
<1>6. PICK x \in {"publish", "err"}, w \in Things \cup {None} :
        /\ Goto(h, x) /\ work' = [work EXCEPT ![h] = w]
        /\ x = "publish" => w # None
        /\ NoFault \/ Fault
        /\ life' \in [Things -> {"unborn", "live", "gone"}]
        /\ nameOf' \in [Things -> Objs \cup {None}] /\ late' \subseteq Requests
  BY <1>5
<1>7. HandlerOK(h)'
  BY <1>1, <1>2, <1>6 DEF HandlerInv, HandlerOK, Goto, TypeOK
<1>8. QED
  BY <1>1, <1>2, <1>3, <1>6, <1>7, Writing DEF Steps

\* sbclient.CloneSnapshot.
LEMMA CloneStep ==
  ASSUME LockInv, NEW h \in Handlers, Clone(h)
  PROVE  LockInv'
<1> USE ConstantsAssumption DEF ConstantsAssumption, LockInv
<1>1. /\ pc[h] = "clone" /\ op[h] = "CreateVolume" /\ obj[h] \in Objs
      /\ obj[h] # None
  BY DEF Clone, HandlerInv, HandlerOK, Objs
<1>2. UNCHANGED <<lock, op, obj, src, co, held, await>>
  BY DEF Clone, orch
<1>3. src' = [src EXCEPT ![h] = src[h]] /\ src[h] \in Things \cup {None}
  BY <1>2 DEF TypeOK
<1>4. work' = work => work' = [work EXCEPT ![h] = work[h]] /\ work[h] \in Things \cup {None}
  BY DEF TypeOK
<1>5. \E x \in {"publish", "err"}, w \in Things \cup {None} :
        /\ Goto(h, x) /\ work' = [work EXCEPT ![h] = w]
        /\ x = "publish" => w # None
        /\ NoFault \/ Fault
        /\ life' \in [Things -> {"unborn", "live", "gone"}]
        /\ nameOf' \in [Things -> Objs \cup {None}] /\ late' \subseteq Requests
  <2>1. CASE \E l \in Lvols :
               /\ Make(l, obj[h]) /\ UNCHANGED late
               /\ \/ NoFault /\ work' = [work EXCEPT ![h] = l] /\ Goto(h, "publish")
                  \/ Fault /\ Goto(h, "err") /\ UNCHANGED work
    <3>1. PICK l \in Lvols :
            /\ Make(l, obj[h]) /\ UNCHANGED late
            /\ \/ NoFault /\ work' = [work EXCEPT ![h] = l] /\ Goto(h, "publish")
               \/ Fault /\ Goto(h, "err") /\ UNCHANGED work
      BY <2>1
    <3>2. l \in Things
      BY DEF Things
    <3>3. /\ life' \in [Things -> {"unborn", "live", "gone"}]
          /\ nameOf' \in [Things -> Objs \cup {None}] /\ late' \subseteq Requests
      BY <1>1, <3>1, <3>2, ClusterTyped DEF TypeOK
    <3>4. QED
      BY <1>4, <3>1, <3>2, <3>3
  <2>2. CASE /\ NoFault \/ Fault
             /\ Goto(h, "err") /\ UNCHANGED <<life, nameOf, late, work>>
    BY <1>4, <2>2 DEF TypeOK
  <2>3. CASE Delay(h, "POST clone", src[h]) /\ Goto(h, "err") /\ UNCHANGED work
    BY <1>1, <1>3, <1>4, <2>3, DelayTyped DEF TypeOK, Writes
  <2>4. QED
    BY <2>1, <2>2, <2>3 DEF Clone, cluster
<1>6. PICK x \in {"publish", "err"}, w \in Things \cup {None} :
        /\ Goto(h, x) /\ work' = [work EXCEPT ![h] = w]
        /\ x = "publish" => w # None
        /\ NoFault \/ Fault
        /\ life' \in [Things -> {"unborn", "live", "gone"}]
        /\ nameOf' \in [Things -> Objs \cup {None}] /\ late' \subseteq Requests
  BY <1>5
<1>7. HandlerOK(h)'
  BY <1>1, <1>2, <1>6 DEF HandlerInv, HandlerOK, Goto, TypeOK
<1>8. QED
  BY <1>1, <1>2, <1>3, <1>6, <1>7, Writing DEF Steps

\* The clean-up of CreateVolume.
LEMMA UndoStep ==
  ASSUME LockInv, NEW h \in Handlers, Undo(h)
  PROVE  LockInv'
<1> USE ConstantsAssumption DEF ConstantsAssumption, LockInv
<1>1. /\ pc[h] = "undo" /\ op[h] = "CreateVolume" /\ obj[h] \in Objs /\ obj[h] # None
      /\ work[h] \in Things
  BY DEF Undo, HandlerInv, HandlerOK, Objs, TypeOK
<1>2. UNCHANGED <<lock, op, obj, src, work, co, held, await>>
  BY DEF Undo, orch, locals
<1>3. PICK x \in {"ok", "err"} :
        /\ Goto(h, x) /\ (NoFault \/ Fault)
        /\ \/ Remove(work[h]) /\ UNCHANGED late
           \/ UNCHANGED <<life, nameOf, late>>
           \/ Delay(h, "DELETE lvol", work[h])
  BY DEF Undo, cluster, Delay
<1>4. /\ life' \in [Things -> {"unborn", "live", "gone"}]
      /\ nameOf' \in [Things -> Objs \cup {None}] /\ late' \subseteq Requests
  <2>1. CASE Remove(work[h]) /\ UNCHANGED late
    BY <1>1, <2>1, ClusterTyped DEF TypeOK
  <2>2. CASE UNCHANGED <<life, nameOf, late>>
    BY <2>2 DEF TypeOK
  <2>3. CASE Delay(h, "DELETE lvol", work[h])
    BY <1>1, <2>3, DelayTyped DEF TypeOK, Writes
  <2>4. QED
    BY <1>3, <2>1, <2>2, <2>3
<1>5. /\ src' = [src EXCEPT ![h] = src[h]] /\ src[h] \in Things \cup {None}
      /\ work' = [work EXCEPT ![h] = work[h]]
  BY <1>2 DEF TypeOK
<1>6. HandlerOK(h)'
  BY <1>1, <1>2, <1>3 DEF HandlerInv, HandlerOK, Goto, TypeOK
<1>7. QED
  BY <1>1, <1>2, <1>3, <1>4, <1>5, <1>6, Writing DEF Steps

\* cs.deleteVolume in DeleteVolume.
LEMMA DeleteStep ==
  ASSUME LockInv, NEW h \in Handlers, Delete(h)
  PROVE  LockInv'
<1> USE ConstantsAssumption DEF ConstantsAssumption, LockInv
<1>1. /\ pc[h] = "delete" /\ op[h] = "DeleteVolume" /\ obj[h] \in Objs /\ obj[h] # None
      /\ work[h] \in Things
  BY DEF Delete, HandlerInv, HandlerOK, Objs, TypeOK
<1>2. UNCHANGED <<lock, op, obj, src, work, co, held, await>>
  BY DEF Delete, orch, locals
<1>3. PICK x \in {"ok", "err"} :
        /\ Goto(h, x) /\ (NoFault \/ Fault)
        /\ \/ Remove(work[h]) /\ UNCHANGED late
           \/ UNCHANGED <<life, nameOf, late>>
           \/ Delay(h, "DELETE lvol", work[h])
  BY DEF Delete, cluster, Delay
<1>4. /\ life' \in [Things -> {"unborn", "live", "gone"}]
      /\ nameOf' \in [Things -> Objs \cup {None}] /\ late' \subseteq Requests
  <2>1. CASE Remove(work[h]) /\ UNCHANGED late
    BY <1>1, <2>1, ClusterTyped DEF TypeOK
  <2>2. CASE UNCHANGED <<life, nameOf, late>>
    BY <2>2 DEF TypeOK
  <2>3. CASE Delay(h, "DELETE lvol", work[h])
    BY <1>1, <2>3, DelayTyped DEF TypeOK, Writes
  <2>4. QED
    BY <1>3, <2>1, <2>2, <2>3
<1>5. /\ src' = [src EXCEPT ![h] = src[h]] /\ src[h] \in Things \cup {None}
      /\ work' = [work EXCEPT ![h] = work[h]]
  BY <1>2 DEF TypeOK
<1>6. HandlerOK(h)'
  BY <1>1, <1>2, <1>3 DEF HandlerInv, HandlerOK, Goto, TypeOK
<1>7. QED
  BY <1>1, <1>2, <1>3, <1>4, <1>5, <1>6, Writing DEF Steps

\* sbclient.DeleteSnapshot.
LEMMA DeleteSnapStep ==
  ASSUME LockInv, NEW h \in Handlers, DeleteSnap(h)
  PROVE  LockInv'
<1> USE ConstantsAssumption DEF ConstantsAssumption, LockInv
<1>1. /\ pc[h] = "delsnap" /\ op[h] = "DeleteSnapshot" /\ obj[h] \in Objs /\ obj[h] # None
      /\ work[h] \in Things
  BY DEF DeleteSnap, HandlerInv, HandlerOK, Objs, TypeOK
<1>2. UNCHANGED <<lock, op, obj, src, work, co, held, await>>
  BY DEF DeleteSnap, orch, locals
<1>3. PICK x \in {"ok", "err"} :
        /\ Goto(h, x) /\ (NoFault \/ Fault)
        /\ \/ Remove(work[h]) /\ UNCHANGED late
           \/ UNCHANGED <<life, nameOf, late>>
           \/ Delay(h, "DELETE snapshot", work[h])
  BY DEF DeleteSnap, cluster, Delay
<1>4. /\ life' \in [Things -> {"unborn", "live", "gone"}]
      /\ nameOf' \in [Things -> Objs \cup {None}] /\ late' \subseteq Requests
  <2>1. CASE Remove(work[h]) /\ UNCHANGED late
    BY <1>1, <2>1, ClusterTyped DEF TypeOK
  <2>2. CASE UNCHANGED <<life, nameOf, late>>
    BY <2>2 DEF TypeOK
  <2>3. CASE Delay(h, "DELETE snapshot", work[h])
    BY <1>1, <2>3, DelayTyped DEF TypeOK, Writes
  <2>4. QED
    BY <1>3, <2>1, <2>2, <2>3
<1>5. /\ src' = [src EXCEPT ![h] = src[h]] /\ src[h] \in Things \cup {None}
      /\ work' = [work EXCEPT ![h] = work[h]]
  BY <1>2 DEF TypeOK
<1>6. HandlerOK(h)'
  BY <1>1, <1>2, <1>3 DEF HandlerInv, HandlerOK, Goto, TypeOK
<1>7. QED
  BY <1>1, <1>2, <1>3, <1>4, <1>5, <1>6, Writing DEF Steps

\* sbclient.CreateSnapshot, in CreateSnapshot and in handleVolumeSource.
LEMMA SnapStep ==
  ASSUME LockInv, NEW h \in Handlers, Snap(h)
  PROVE  LockInv'
<1> USE ConstantsAssumption DEF ConstantsAssumption, LockInv
<1> DEFINE Moves(x, s, w) ==
      /\ Goto(h, x) /\ src' = [src EXCEPT ![h] = s] /\ work' = [work EXCEPT ![h] = w]
      /\ x = "size" => op[h] = "CreateSnapshot" /\ w # None /\ s = src[h]
      /\ x = "clone" => op[h] = "CreateVolume"
      /\ x = "err" => s = src[h] /\ w = work[h]
      /\ NoFault \/ Fault
      /\ life' \in [Things -> {"unborn", "live", "gone"}]
      /\ nameOf' \in [Things -> Objs \cup {None}] /\ late' \subseteq Requests
<1>1. /\ pc[h] = "snap" /\ op[h] \in {"CreateVolume", "CreateSnapshot"}
      /\ obj[h] \in Objs /\ obj[h] # None
  BY DEF Snap, HandlerInv, HandlerOK, Objs, TypeOK
<1>2. UNCHANGED <<lock, op, obj, co, held, await>>
  BY DEF Snap, orch
<1>3. /\ src[h] \in Things \cup {None} /\ work[h] \in Things \cup {None}
      /\ src' = src => src' = [src EXCEPT ![h] = src[h]]
      /\ work' = work => work' = [work EXCEPT ![h] = work[h]]
  BY DEF TypeOK
<1>4. \E x \in {"size", "clone", "err"}, s, w \in Things \cup {None} : Moves(x, s, w)
  <2>1. ASSUME NEW s \in Snaps, Make(s, obj[h]), UNCHANGED late
        PROVE  /\ s \in Things /\ s # None
               /\ life' \in [Things -> {"unborn", "live", "gone"}]
               /\ nameOf' \in [Things -> Objs \cup {None}] /\ late' \subseteq Requests
    BY <1>1, <2>1, ClusterTyped DEF TypeOK, Things
  <2>2. ASSUME NEW s \in Snaps, Make(s, obj[h]), UNCHANGED late, NoFault,
               op[h] = "CreateSnapshot", work' = [work EXCEPT ![h] = s],
               Goto(h, "size"), UNCHANGED src
        PROVE  Moves("size", src[h], s)
    BY <1>3, <2>1, <2>2
  <2>3. ASSUME NEW s \in Snaps, Make(s, obj[h]), UNCHANGED late, NoFault,
               op[h] = "CreateVolume", src' = [src EXCEPT ![h] = s],
               Goto(h, "clone"), UNCHANGED work
        PROVE  Moves("clone", s, work[h])
    BY <1>3, <2>1, <2>3
  <2>4. ASSUME NEW s \in Snaps, Make(s, obj[h]), UNCHANGED late, Fault,
               Goto(h, "err"), UNCHANGED <<src, work>>
        PROVE  Moves("err", src[h], work[h])
    BY <1>3, <2>1, <2>4
  <2>5. ASSUME NoFault \/ Fault, Goto(h, "err"), UNCHANGED <<cluster, src, work>>
        PROVE  Moves("err", src[h], work[h])
    BY <1>3, <2>5 DEF cluster, TypeOK
  <2>6. ASSUME Delay(h, "POST snapshot", src[h]), Goto(h, "err"),
               UNCHANGED <<src, work>>
        PROVE  Moves("err", src[h], work[h])
    <3>1. late' \subseteq Requests /\ UNCHANGED <<life, nameOf>> /\ Fault
      BY <1>1, <1>3, <2>6, DelayTyped DEF Writes
    <3>2. QED
      BY <1>3, <2>6, <3>1 DEF TypeOK
  <2>7. \/ \E s \in Snaps :
             /\ Make(s, obj[h]) /\ UNCHANGED late
             /\ \/ /\ NoFault /\ op[h] = "CreateSnapshot" /\ Goto(h, "size")
                   /\ work' = [work EXCEPT ![h] = s] /\ UNCHANGED src
                \/ /\ NoFault /\ op[h] = "CreateVolume" /\ Goto(h, "clone")
                   /\ src' = [src EXCEPT ![h] = s] /\ UNCHANGED work
                \/ Fault /\ Goto(h, "err") /\ UNCHANGED <<src, work>>
        \/ (NoFault \/ Fault) /\ Goto(h, "err") /\ UNCHANGED <<cluster, src, work>>
        \/ Delay(h, "POST snapshot", src[h]) /\ Goto(h, "err") /\ UNCHANGED <<src, work>>
    BY DEF Snap
  <2> HIDE DEF Moves
  <2>8. QED
    BY <1>3, <2>1, <2>2, <2>3, <2>4, <2>5, <2>6, <2>7
<1>5. PICK x \in {"size", "clone", "err"}, s \in Things \cup {None},
           w \in Things \cup {None} : Moves(x, s, w)
  BY <1>4
<1>6. HandlerOK(h)'
  BY <1>1, <1>2, <1>3, <1>5 DEF HandlerInv, HandlerOK, Goto, TypeOK
<1>7. QED
  BY <1>1, <1>2, <1>5, <1>6, Writing DEF Steps

\* The key of a handler that serves a call is a name or an id.
LEMMA KeyKnown ==
  ASSUME LockInv, NEW h \in Handlers, pc[h] # "idle"
  PROVE  KeyOf(h) \in Keys
  BY ConstantsAssumption
  DEF ConstantsAssumption, LockInv, HandlerInv, HandlerOK, TypeOK, KeyOf, Keys, RPCs

\* volumeLocks.Lock returns.
LEMMA LockStep ==
  ASSUME LockInv, NEW h \in Handlers, Lock(h)
  PROVE  LockInv'
<1>1. KeyOf(h) \in Keys /\ pc[h] = "lock" /\ lock[KeyOf(h)] = None
  BY KeyKnown DEF Lock
<1>2. /\ Goto(h, FirstStep(h)) /\ lock' = [lock EXCEPT ![KeyOf(h)] = h]
      /\ UNCHANGED <<life, nameOf, late, op, obj, src, work, co, held, await, faults>>
  BY DEF Lock, cluster, locals, orch
<1>3. FirstStep(h) \in Steps \ {"idle", "lock"}
  BY DEF FirstStep, Steps
<1>4. TypeOK'
  BY <1>1, <1>2, <1>3 DEF LockInv, TypeOK, Goto
<1>5. HandlerOK(h)'
  BY <1>1, <1>2, ConstantsAssumption
  DEF ConstantsAssumption, LockInv, TypeOK, HandlerInv, HandlerOK, Goto, FirstStep, RPCs
<1>6. HandlerInv'
  BY <1>2, <1>5, OthersOK DEF Goto, LockInv, TypeOK
<1>7. HeldKnown'
  BY <1>2 DEF LockInv, HeldKnown
<1>8. LockDiscipline'
  <2>1. \A g \in Handlers : KeyOf(g)' = KeyOf(g)
    BY <1>2 DEF KeyOf
  <2>2. QED
    BY <1>1, <1>2, <1>3, <2>1, KeyKnown, ConstantsAssumption
    DEF ConstantsAssumption, LockInv, TypeOK, LockDiscipline, Goto
<1>9. CallInv'
  BY <1>1, <1>2, <1>3 DEF LockInv, TypeOK, CallInv, Goto
<1>10. QED
  BY <1>4, <1>6, <1>7, <1>8, <1>9 DEF LockInv

\* A handler returns.
LEMMA ReturnStep ==
  ASSUME LockInv, NEW h \in Handlers, Return(h)
  PROVE  LockInv'
<1> USE ConstantsAssumption DEF ConstantsAssumption
<1>1. KeyOf(h) \in Keys /\ pc[h] \in {"ok", "err"} /\ lock[KeyOf(h)] = h
  BY KeyKnown DEF Return, LockInv, LockDiscipline
<1>2. /\ Goto(h, "idle") /\ Forget(h) /\ lock' = [lock EXCEPT ![KeyOf(h)] = None]
      /\ UNCHANGED <<life, nameOf, late, faults>>
  BY DEF Return, cluster
<1>3. obj[h] \in Objs
  BY <1>1 DEF LockInv, HandlerInv, HandlerOK, TypeOK
<1>4. /\ co' \in [Objs -> {"absent", "creating", "bound", "deleting", "deleted"}]
      /\ held' \in [Objs -> Things \cup {None}]
      /\ await' \in [Objs -> Handlers \cup {None}]
  BY <1>3 DEF Return, Answer, orch, LockInv, TypeOK
<1>5. TypeOK'
  BY <1>1, <1>2, <1>4 DEF LockInv, TypeOK, Goto, Forget, Steps
<1>6. HandlerOK(h)'
  BY <1>2 DEF Goto, Forget, LockInv, TypeOK, HandlerOK, RPCs
<1>7. HandlerInv'
  BY <1>2, <1>6, OthersOK DEF Goto, Forget, LockInv, TypeOK
<1>8. HeldKnown'
  <2>1. pc[h] = "ok" => work[h] # None
    BY DEF LockInv, HandlerInv, HandlerOK
  <2>2. op[h] \in {"DeleteVolume", "DeleteSnapshot"} /\ await[obj[h]] = h
          => held[obj[h]] # None
    BY <1>3 DEF LockInv, HandlerInv, HandlerOK, CallInv
  <2>3. QED
    BY <1>3, <2>1, <2>2 DEF Return, Answer, orch, LockInv, TypeOK, HeldKnown
<1>9. LockDiscipline'
  <2>1. \A g \in Handlers \ {h} : KeyOf(g)' = KeyOf(g) /\ pc'[g] = pc[g]
    BY <1>2 DEF KeyOf, Forget, Goto, LockInv, TypeOK
  <2>2. pc'[h] = "idle"
    BY <1>2 DEF Goto, LockInv, TypeOK
  <2>3. QED
    BY <1>1, <1>2, <2>1, <2>2, KeyKnown
    DEF LockInv, TypeOK, LockDiscipline
<1>10. CallInv'
  <2>1. SUFFICES ASSUME NEW g \in Handlers, NEW o \in Objs, await'[o] = g
                 PROVE  /\ g # h /\ await[o] = g
                        /\ co'[o] = co[o] /\ held'[o] = held[o]
    BY <1>2 DEF LockInv, TypeOK, CallInv, Goto, Forget
  <2>2. g # h /\ await[o] = g
    BY <1>3, <2>1 DEF Return, Answer, orch, LockInv, TypeOK, CallInv
  <2>3. await[o] = g /\ g # h => obj[h] # o \/ await[obj[h]] # h
    BY DEF LockInv, CallInv
  <2>4. QED
    BY <1>3, <2>1, <2>2, <2>3 DEF Return, Answer, orch, LockInv, TypeOK
<1>11. QED
  BY <1>5, <1>7, <1>8, <1>9, <1>10 DEF LockInv

\* The CO calls an RPC about o on an idle handler.
LEMMA Beginning ==
  ASSUME LockInv, NEW h \in Handlers, NEW o \in Objs, NEW rpc \in RPCs,
         NEW s \in Things \cup {None}, NEW w \in Things \cup {None},
         NEW c \in {"creating", "deleting"},
         Begin(h, rpc, o, s, w), co' = [co EXCEPT ![o] = c],
         UNCHANGED <<life, nameOf, late, lock, held, faults>>,
         rpc = "CreateVolume" => o \in Names,
         rpc = "CreateSnapshot" => s # None,
         rpc \in {"CreateVolume", "CreateSnapshot"} => c = "creating",
         rpc \in {"DeleteVolume", "DeleteSnapshot"} => c = "deleting" /\ w = held[o],
         c = "deleting" => held[o] # None
  PROVE  LockInv'
<1> USE ConstantsAssumption DEF ConstantsAssumption
<1>1. TypeOK'
  BY DEF Begin, Goto, LockInv, TypeOK, Steps
<1>2. HandlerOK(h)'
  BY DEF Begin, Goto, LockInv, TypeOK, HandlerOK
<1>3. HandlerInv'
  BY <1>2, OthersOK DEF Begin, Goto, LockInv, TypeOK
<1>4. HeldKnown'
  BY DEF LockInv, TypeOK, HeldKnown
<1>5. LockDiscipline'
  <2>1. \A g \in Handlers \ {h} : KeyOf(g)' = KeyOf(g) /\ pc'[g] = pc[g]
    BY DEF KeyOf, Begin, Goto, LockInv, TypeOK
  <2>2. pc[h] = "idle" /\ pc'[h] = "lock"
    BY DEF Begin, Goto, LockInv, TypeOK
  <2>3. QED
    BY <2>1, <2>2 DEF LockInv, TypeOK, LockDiscipline
<1>6. CallInv'
  <2>1. pc[h] = "idle" /\ await[o] = None /\ await' = [await EXCEPT ![o] = h]
    BY DEF Begin
  <2>2. ASSUME NEW g \in Handlers \ {h}, NEW x \in Objs, await'[x] = g
        PROVE  x # o /\ await[x] = g /\ co'[x] = co[x]
    BY <2>1, <2>2 DEF LockInv, TypeOK
  <2>3. ASSUME NEW x \in Objs, await'[x] = h PROVE x = o
    BY <2>1, <2>3 DEF LockInv, TypeOK, CallInv
  <2>4. \A g \in Handlers \ {h} :
          pc'[g] = pc[g] /\ op'[g] = op[g] /\ obj'[g] = obj[g] /\ work'[g] = work[g]
    BY DEF Begin, Goto, LockInv, TypeOK
  <2>5. /\ pc'[h] = "lock" /\ op'[h] = rpc /\ obj'[h] = o /\ work'[h] = w
        /\ co'[o] = c
    BY DEF Begin, Goto, LockInv, TypeOK
  <2>6. QED
    BY <2>2, <2>3, <2>4, <2>5 DEF LockInv, CallInv
<1>7. QED
  BY <1>1, <1>3, <1>4, <1>5, <1>6 DEF LockInv

\* The CO calls CreateVolume or CreateSnapshot.
LEMMA CallCreateStep ==
  ASSUME LockInv, NEW h \in Handlers, NEW o \in Objs, CallCreate(h, o)
  PROVE  LockInv'
<1> USE ConstantsAssumption DEF ConstantsAssumption
<1> DEFINE rpc == IF o \in Names THEN "CreateVolume" ELSE "CreateSnapshot"
           s   == IF Source[o] = None THEN None ELSE held[Source[o]]
<1>1. /\ Begin(h, rpc, o, s, None) /\ co' = [co EXCEPT ![o] = "creating"]
      /\ UNCHANGED <<life, nameOf, late, lock, held, faults>>
  BY DEF CallCreate, cluster
<1>2. Source[o] = None \/ (Source[o] \in Objs /\ co[Source[o]] = "bound")
  BY DEF CallCreate
<1>3. s \in Things \cup {None}
  BY <1>2 DEF LockInv, TypeOK
<1>4. rpc = "CreateSnapshot" => s # None
  <2>1. o \notin Names => o \in SnapNames
    BY DEF Objs
  <2>2. o \notin Names => Source[o] # None
    BY <2>1 DEF Objs
  <2>3. QED
    BY <1>2, <2>2 DEF LockInv, HeldKnown
<1>5. /\ rpc \in RPCs /\ (rpc = "CreateVolume" => o \in Names)
      /\ rpc \notin {"DeleteVolume", "DeleteSnapshot"}
  BY DEF RPCs
<1> HIDE DEF rpc, s
<1>6. QED
  BY <1>1, <1>3, <1>4, <1>5, Beginning

\* The CO calls DeleteVolume or DeleteSnapshot.
LEMMA CallDeleteStep ==
  ASSUME LockInv, NEW h \in Handlers, NEW o \in Objs, CallDelete(h, o)
  PROVE  LockInv'
<1> USE ConstantsAssumption DEF ConstantsAssumption
<1> DEFINE rpc == IF o \in Names THEN "DeleteVolume" ELSE "DeleteSnapshot"
<1>1. /\ Begin(h, rpc, o, None, held[o]) /\ co' = [co EXCEPT ![o] = "deleting"]
      /\ UNCHANGED <<life, nameOf, late, lock, held, faults>>
  BY DEF CallDelete, cluster
<1>2. held[o] # None /\ held[o] \in Things \cup {None}
  BY DEF CallDelete, LockInv, HeldKnown, TypeOK
<1>3. rpc \in RPCs /\ rpc \notin {"CreateVolume", "CreateSnapshot"}
  BY DEF RPCs
<1> HIDE DEF rpc
<1>4. QED
  BY <1>1, <1>2, <1>3, Beginning

\* The steps of the CO, the network and the operating system.
LEMMA EnvironmentSteps ==
  ASSUME LockInv, LateArrival \/ Crash \/ \E o \in Objs : GiveUp(o)
  PROVE  LockInv'
<1> USE ConstantsAssumption DEF ConstantsAssumption
<1>1. CASE LateArrival
  <2>1. PICK r \in late :
          /\ late' = late \ {r}
          /\ \/ \E t \in MadeBy(r.call) : Make(t, r.obj)
             \/ UNCHANGED <<life, nameOf>>
             \/ r.call \notin Posts /\ Remove(r.id)
    BY <1>1 DEF LateArrival
  <2>2. UNCHANGED <<lock, pc, op, obj, src, work, co, held, await, faults>>
    BY <1>1 DEF LateArrival, locals, orch
  <2>3. r.obj \in Objs /\ r.id \in Things \cup {None}
    BY DEF LockInv, TypeOK, Requests
  <2>4. /\ life' \in [Things -> {"unborn", "live", "gone"}]
        /\ nameOf' \in [Things -> Objs \cup {None}]
    <3>1. CASE \E t \in MadeBy(r.call) : Make(t, r.obj)
      BY <2>3, <3>1, ClusterTyped DEF LockInv, MadeBy, Things
    <3>2. CASE UNCHANGED <<life, nameOf>>
      BY <3>2 DEF LockInv, TypeOK
    <3>3. CASE Remove(r.id)
      BY <2>3, <3>3 DEF LockInv, TypeOK, Remove, Live
    <3>4. QED
      BY <2>1, <3>1, <3>2, <3>3
  <2>5. TypeOK'
    BY <2>1, <2>2, <2>4 DEF LockInv, TypeOK
  <2>6. QED
    BY <2>2, <2>5
    DEF LockInv, HandlerInv, HandlerOK, HeldKnown, CallInv, LockDiscipline, KeyOf
<1>2. CASE Crash
  <2>1. TypeOK'
    <3>1. faults' \in 0..MaxFaults
      BY <1>2, FaultsBounded DEF Crash, LockInv
    <3>2. QED
      BY <1>2, <3>1 DEF Crash, cluster, LockInv, TypeOK, Steps
  <2>2. HandlerInv' /\ HeldKnown' /\ CallInv' /\ LockDiscipline'
    BY <1>2 DEF Crash, HandlerInv, HandlerOK, HeldKnown, CallInv, LockDiscipline,
                LockInv, RPCs
  <2>3. QED
    BY <2>1, <2>2 DEF LockInv
<1>3. ASSUME NEW o \in Objs, GiveUp(o) PROVE LockInv'
  <2>1. /\ await' = [await EXCEPT ![o] = None] /\ Fault
        /\ UNCHANGED <<life, nameOf, late, lock, pc, op, obj, src, work, co, held>>
    BY <1>3 DEF GiveUp, cluster, locals
  <2>2. TypeOK'
    <3>1. faults' \in 0..MaxFaults
      BY <2>1, FaultsBounded DEF LockInv
    <3>2. QED
      BY <2>1, <3>1 DEF LockInv, TypeOK
  <2>3. CallInv'
    BY <2>1 DEF LockInv, TypeOK, CallInv
  <2>4. QED
    BY <2>1, <2>2, <2>3
    DEF LockInv, HandlerInv, HandlerOK, HeldKnown, LockDiscipline, KeyOf
<1>4. QED
  BY <1>1, <1>2, <1>3

\* Every step of the controller, the CO and the network preserves LockInv.
LEMMA LockInvNext == LockInv /\ [Next]_vars => LockInv'
<1> SUFFICES ASSUME LockInv, [Next]_vars PROVE LockInv'
  OBVIOUS
<1>1. ASSUME NEW h \in Handlers, Step(h) PROVE LockInv'
  BY <1>1, LookupStep, PostStep, SnapStep, CloneStep, ReadSteps, UndoStep,
     DeleteStep, DeleteSnapStep, ReturnStep
  DEF Step
<1>2. CASE UNCHANGED vars
  BY <1>2 DEF vars, LockInv, TypeOK, HandlerInv, HandlerOK, HeldKnown, CallInv,
              LockDiscipline, KeyOf
<1>3. QED
  BY <1>1, <1>2, LockStep, CallCreateStep, CallDeleteStep, EnvironmentSteps DEF Next

\* The lock discipline of volumeLocks, for any number of handlers, retries,
\* faults and crashes.
THEOREM LockInvariance == Spec => []LockInv
<1>1. QED
  BY LockInvInit, LockInvNext, PTL DEF Spec

-----------------------------------------------------------------------------
(***************************************************************************)
(* One lvol per name.  The lock of the name and the lookup that precedes   *)
(* every POST make NameInv inductive, provided that a failed lookup means  *)
(* "not found" and that no POST of an lvol is carried out after its        *)
(* timeout; deletions and snapshots may be.                                *)
(***************************************************************************)

\* A step that makes no lvol preserves NameInv when every handler that it
\* leaves about to make one has found none.
LEMMA NoNewLvol ==
  ASSUME NameInv, LockInv', NoLateLvol',
         \A n \in Names : LvolsNamed(n)' \subseteq LvolsNamed(n),
         \A g \in Handlers :
           pc'[g] \in {"post", "snap", "clone"} /\ op'[g] = "CreateVolume"
             => LvolsNamed(obj'[g]) = {}
  PROVE  NameInv'
<1>1. \A g \in Handlers : op'[g] = "CreateVolume" => obj'[g] \in Names
  BY DEF LockInv, HandlerInv, HandlerOK
<1>2. \A g \in Handlers :
        pc'[g] \in {"post", "snap", "clone"} /\ op'[g] = "CreateVolume"
          => LvolsNamed(obj[g])' = {}
  BY <1>1
<1>3. OneLvolPerName'
  BY DEF NameInv, OneLvolPerName
<1>4. QED
  BY <1>2, <1>3 DEF NameInv

\* A handler that makes an lvol holds the lock of its name, so that nobody
\* else is about to make one, and it found none.
LEMMA NewLvol ==
  ASSUME NameInv, LockInv', NoLateLvol', NEW h \in Handlers, NEW l \in Lvols,
         pc[h] \in {"post", "clone"}, op[h] = "CreateVolume",
         Make(l, obj[h]), NEW x \in {"publish", "err"}, Goto(h, x),
         UNCHANGED <<op, obj>>
  PROVE  NameInv'
<1> USE ConstantsAssumption DEF ConstantsAssumption
<1>1. obj[h] \in Names /\ LvolsNamed(obj[h]) = {}
  BY DEF NameInv, LockInv, HandlerInv, HandlerOK
<1>2. l \in Things
  BY DEF Things
<1>3. /\ LvolsNamed(obj[h])' = {l}
      /\ \A n \in Names \ {obj[h]} : LvolsNamed(n)' = LvolsNamed(n)
  BY <1>1, <1>2 DEF LvolsNamed, Make, NameInv, LockInv, TypeOK, Things
<1>4. OneLvolPerName'
  BY <1>3 DEF NameInv, OneLvolPerName
<1>5. ASSUME NEW g \in Handlers, pc'[g] \in {"post", "snap", "clone"},
             op'[g] = "CreateVolume"
      PROVE  LvolsNamed(obj[g])' = {}
  <2>1. g # h /\ pc[g] = pc'[g] /\ op[g] = "CreateVolume" /\ obj'[g] = obj[g]
    BY <1>5 DEF Goto, NameInv, LockInv, TypeOK
  <2>2. KeyOf(g) = obj[g] /\ KeyOf(h) = obj[h]
    BY <2>1 DEF KeyOf
  <2>3. obj[g] # obj[h]
    BY <1>5, <2>1, <2>2 DEF NameInv, LockInv, LockDiscipline
  <2>4. LvolsNamed(obj[g]) = {} /\ obj[g] \in Names
    BY <1>5, <2>1 DEF NameInv, LockInv, HandlerInv, HandlerOK
  <2>5. LvolsNamed(obj[g])' = LvolsNamed(obj[g])
    BY <1>3, <2>1, <2>3, <2>4
  <2>6. QED
    BY <2>4, <2>5
<1>6. QED
  BY <1>4, <1>5 DEF NameInv

\* Removing a volume or making a snapshot adds no lvol to a name.
LEMMA FewerLvols ==
  ASSUME TypeOK, NEW t, NEW o,
         \/ Remove(t)
         \/ UNCHANGED <<life, nameOf>>
         \/ t \in Snaps /\ Make(t, o)
  PROVE  \A n \in Names : LvolsNamed(n)' \subseteq LvolsNamed(n)
<1> USE ConstantsAssumption DEF ConstantsAssumption
<1>1. CASE Remove(t)
  BY <1>1 DEF TypeOK, Remove, Live, LvolsNamed, Things
<1>2. CASE UNCHANGED <<life, nameOf>>
  BY <1>2 DEF LvolsNamed
<1>3. CASE t \in Snaps /\ Make(t, o)
  BY <1>3 DEF TypeOK, Make, LvolsNamed, Things
<1>4. QED
  BY <1>1, <1>2, <1>3

\* What a request record says of its call.
LEMMA CallOf ==
  ASSUME NEW c, NEW o, NEW i PROVE [call |-> c, obj |-> o, id |-> i].call = c
  OBVIOUS

\* Every step preserves NameInv.
LEMMA NameInvNext ==
  ASSUME "GET name" \notin MayFail, "POST lvol" \notin MayDelay,
         "POST clone" \notin MayDelay, NameInv, [Next]_vars
  PROVE  NameInv'
<1> USE ConstantsAssumption DEF ConstantsAssumption
<1>1. LockInv' /\ LockInv /\ TypeOK /\ NoLateLvol
  BY LockInvNext DEF NameInv, LockInv
<1>2. \A h \in Handlers :
        pc[h] \in {"post", "snap", "clone"} /\ op[h] = "CreateVolume"
          => LvolsNamed(obj[h]) = {}
  BY DEF NameInv
<1>3. /\ \A h, id : ~Delay(h, "POST lvol", id) /\ ~Delay(h, "POST clone", id)
      /\ \A h, id : \A call \in {"POST snapshot", "DELETE lvol", "DELETE snapshot"} :
           Delay(h, call, id) => NoLateLvol' /\ UNCHANGED <<life, nameOf>>
      /\ UNCHANGED late => NoLateLvol'
  <2>1. \A h, id : \A call \in {"POST snapshot", "DELETE lvol", "DELETE snapshot"} :
          Delay(h, call, id) => NoLateLvol' /\ UNCHANGED <<life, nameOf>>
    <3> SUFFICES ASSUME NEW h, NEW id,
                        NEW call \in {"POST snapshot", "DELETE lvol", "DELETE snapshot"},
                        Delay(h, call, id)
                 PROVE  NoLateLvol' /\ UNCHANGED <<life, nameOf>>
      OBVIOUS
    <3>1. call \notin {"POST lvol", "POST clone"}
      OBVIOUS
    <3>2. \A r \in late' : r \in late \/ r.call = call
      BY CallOf DEF Delay
    <3>3. QED
      BY <1>1, <3>1, <3>2 DEF Delay, NoLateLvol
  <2>2. QED
    BY <1>1, <2>1 DEF Delay, NoLateLvol
<1>4. ASSUME NEW h \in Handlers, Lock(h) PROVE NameInv'
  <2>1. /\ Goto(h, FirstStep(h)) /\ pc[h] # "idle"
        /\ UNCHANGED <<life, nameOf, late, op, obj>>
    BY <1>4 DEF Lock, cluster, locals
  <2>2. op[h] = "CreateVolume" => FirstStep(h) = "lookup"
    BY DEF FirstStep
  <2>3. QED
    BY <1>1, <1>2, <1>3, <2>1, <2>2, FewerLvols, NoNewLvol DEF Goto, TypeOK
<1>5. ASSUME NEW h \in Handlers, Lookup(h) PROVE NameInv'
  <2>1. UNCHANGED <<life, nameOf, late, op, obj>>
    BY <1>5 DEF Lookup, cluster
  <2>2. \/ Goto(h, "publish")
        \/ LvolsNamed(obj[h]) = {} /\ Goto(h, Produce(obj[h]))
    BY <1>5 DEF Lookup
  <2>3. QED
    BY <1>1, <1>2, <1>3, <2>1, <2>2, FewerLvols, NoNewLvol DEF Goto, TypeOK
<1>6. ASSUME NEW h \in Handlers, Post(h) \/ Clone(h) PROVE NameInv'
  <2>1. /\ pc[h] \in {"post", "clone"} /\ op[h] = "CreateVolume"
        /\ UNCHANGED <<op, obj>>
    BY <1>1, <1>6 DEF Post, Clone, LockInv, HandlerInv, HandlerOK
  <2>2. \/ \E l \in Lvols, x \in {"publish", "err"} :
             Make(l, obj[h]) /\ Goto(h, x) /\ UNCHANGED late
        \/ UNCHANGED <<life, nameOf, late>> /\ Goto(h, "err")
    BY <1>3, <1>6 DEF Post, Clone, cluster
  <2>3. CASE UNCHANGED <<life, nameOf, late>> /\ Goto(h, "err")
    BY <1>1, <1>2, <1>3, <2>1, <2>3, FewerLvols, NoNewLvol DEF Goto, TypeOK
  <2>4. QED
    BY <1>1, <1>3, <2>1, <2>2, <2>3, NewLvol
<1>7. ASSUME NEW h \in Handlers, Snap(h) PROVE NameInv'
  <2>1. pc[h] = "snap" /\ UNCHANGED <<op, obj>>
    BY <1>7 DEF Snap
  <2>2. /\ NoLateLvol'
        /\ Goto(h, "err") \/ Goto(h, "size") \/ Goto(h, "clone")
        /\ (\E s \in Snaps : Make(s, obj[h])) \/ UNCHANGED <<life, nameOf>>
    BY <1>3, <1>7 DEF Snap, cluster
  <2>3. \A n \in Names : LvolsNamed(n)' \subseteq LvolsNamed(n)
    BY <1>1, <2>2, FewerLvols
  <2>4. QED
    BY <1>1, <1>2, <1>3, <2>1, <2>2, <2>3, NoNewLvol DEF Goto, TypeOK
<1>8. ASSUME NEW h \in Handlers,
             Publish(h) \/ Info(h) \/ Unpublish(h) \/ Size(h)
      PROVE  NameInv'
  <2>1. /\ UNCHANGED <<life, nameOf, late, op, obj>>
        /\ \E x \in Steps \ {"post", "snap", "clone"} : Goto(h, x)
    BY <1>8 DEF Publish, Info, Unpublish, Size, Read, cluster, locals, Steps
  <2>2. QED
    BY <1>1, <1>2, <1>3, <2>1, FewerLvols, NoNewLvol DEF Goto, TypeOK
<1>9. ASSUME NEW h \in Handlers, Undo(h) \/ Delete(h) \/ DeleteSnap(h)
      PROVE  NameInv'
  <2>1. /\ NoLateLvol' /\ UNCHANGED <<op, obj>>
        /\ Remove(work[h]) \/ UNCHANGED <<life, nameOf>>
        /\ \E x \in Steps \ {"post", "snap", "clone"} : Goto(h, x)
    BY <1>3, <1>9 DEF Undo, Delete, DeleteSnap, cluster, locals, Steps
  <2>2. \A n \in Names : LvolsNamed(n)' \subseteq LvolsNamed(n)
    BY <1>1, <2>1, FewerLvols
  <2>3. QED
    BY <1>1, <1>2, <1>3, <2>1, <2>2, NoNewLvol DEF Goto, TypeOK
<1>10. ASSUME NEW h \in Handlers, Return(h) PROVE NameInv'
  <2>1. /\ UNCHANGED <<life, nameOf, late>> /\ Goto(h, "idle") /\ Forget(h)
    BY <1>10 DEF Return, cluster
  <2>2. QED
    BY <1>1, <1>2, <1>3, <2>1, FewerLvols, NoNewLvol DEF Goto, Forget, TypeOK
<1>11. ASSUME NEW h \in Handlers, NEW o \in Objs, CallCreate(h, o) \/ CallDelete(h, o)
       PROVE  NameInv'
  <2>1. /\ UNCHANGED <<life, nameOf, late>> /\ Goto(h, "lock")
        /\ \A g \in Handlers \ {h} : op'[g] = op[g] /\ obj'[g] = obj[g]
    BY <1>1, <1>11 DEF CallCreate, CallDelete, Begin, cluster, TypeOK
  <2>2. QED
    BY <1>1, <1>2, <1>3, <2>1, FewerLvols, NoNewLvol DEF Goto, TypeOK
<1>12. CASE Crash
  <2>1. UNCHANGED <<life, nameOf, late>> /\ \A g \in Handlers : pc'[g] = "idle"
    BY <1>12 DEF Crash, cluster
  <2>2. QED
    BY <1>1, <1>3, <2>1, FewerLvols, NoNewLvol
<1>13. CASE UNCHANGED vars \/ \E o \in Objs : GiveUp(o)
  <2>1. UNCHANGED <<life, nameOf, late, pc, op, obj>>
    BY <1>13 DEF GiveUp, vars, cluster, locals
  <2>2. QED
    BY <1>1, <1>2, <1>3, <2>1, FewerLvols, NoNewLvol
<1>14. CASE LateArrival
  <2>1. PICK r \in late :
          /\ late' = late \ {r}
          /\ \/ r.call \in Posts /\ \E t \in MadeBy(r.call) : Make(t, r.obj)
             \/ UNCHANGED <<life, nameOf>>
             \/ Remove(r.id)
    BY <1>14 DEF LateArrival
  <2>2. MadeBy(r.call) = Snaps \/ r.call \notin Posts
    BY <1>1 DEF NoLateLvol, MadeBy, Posts
  <2>3. \A n \in Names : LvolsNamed(n)' \subseteq LvolsNamed(n)
    BY <1>1, <2>1, <2>2, FewerLvols
  <2>4. NoLateLvol'
    BY <1>1, <2>1 DEF NoLateLvol
  <2>5. UNCHANGED <<pc, op, obj>>
    BY <1>14 DEF LateArrival, locals
  <2>6. QED
    BY <1>1, <1>2, <2>3, <2>4, <2>5, NoNewLvol
<1>15. QED
  BY <1>4, <1>5, <1>6, <1>7, <1>8, <1>9, <1>10, <1>11, <1>12, <1>13, <1>14
  DEF Next, Step

\* No name has an lvol before the first call.
LEMMA NameInvInit == Init => NameInv
<1>1. Init => LockInv
  BY LockInvInit
<1>2. Init => \A n \in Names : LvolsNamed(n) = {}
  BY DEF Init, LvolsNamed, Things
<1>3. QED
  BY <1>1, <1>2 DEF NameInv, NoLateLvol, OneLvolPerName, Init

\* A CreateVolume handler that is about to make an lvol holds the lock of its name
\* and there is none: provided that lookups by name only fail for names that are
\* not there, and that the cluster makes no lvol after the request timed out.
THEOREM NameInvariance ==
  ASSUME "GET name" \notin MayFail, "POST lvol" \notin MayDelay,
         "POST clone" \notin MayDelay
  PROVE  Spec => []NameInv
<1>1. NameInv /\ [Next]_vars => NameInv'
  BY NameInvNext
<1>2. QED
  BY <1>1, NameInvInit, PTL DEF Spec

\* However CreateVolume is repeated, interleaved with itself, cut by a crash
\* or deprived of its answers, no request name ever has two live lvols, under
\* the same two provisos.
THEOREM AtMostOneLvol ==
  ASSUME "GET name" \notin MayFail, "POST lvol" \notin MayDelay,
         "POST clone" \notin MayDelay
  PROVE  Spec => []OneLvolPerName
<1>1. NameInv => OneLvolPerName
  BY DEF NameInv
<1>2. QED
  BY <1>1, NameInvariance, PTL

-----------------------------------------------------------------------------
(***************************************************************************)
(* What is reported as deleted is gone, under every fault.  Uuids are used *)
(* once, so that "gone" is for ever; DeletedInv carries the id from the    *)
(* call through the handler to the CO.                                     *)
(***************************************************************************)

\* A uuid is born once and never comes back.
Ageing ==
  \A t \in Things :
    /\ life[t] # "unborn" => life'[t] # "unborn"
    /\ life[t] = "gone" => life'[t] = "gone"

\* What the cluster carries out only ages volumes and snapshots.
LEMMA Ages ==
  ASSUME TypeOK, NEW t \in Things \cup {None}, NEW o,
         UNCHANGED life \/ Remove(t) \/ (t \in Things /\ Make(t, o))
  PROVE  Ageing
  BY ConstantsAssumption DEF ConstantsAssumption, TypeOK, Remove, Live, Make, Ageing

\* A step that only ages preserves DeletedInv when the ids it hands to a
\* handler or to the CO were born, and OK is said only of what is gone.
LEMMA Aged ==
  ASSUME DeletedInv, LockInv', Ageing,
         \A g \in Handlers : work'[g] # None =>
           work'[g] = work[g] \/ life'[work'[g]] # "unborn",
         \A o \in Objs : held'[o] # None =>
           held'[o] = held[o] \/ life'[held'[o]] # "unborn",
         \A g \in Handlers :
           pc'[g] = "ok" /\ op'[g] \in {"DeleteVolume", "DeleteSnapshot"}
             => \/ pc[g] = "ok" /\ op[g] = op'[g] /\ work[g] = work'[g]
                \/ life'[work'[g]] = "gone",
         \A o \in Objs : co'[o] = "deleted" =>
           (co[o] = "deleted" /\ held'[o] = held[o]) \/ life'[held'[o]] = "gone"
  PROVE  DeletedInv'
<1> USE ConstantsAssumption DEF ConstantsAssumption
<1>1. /\ \A g \in Handlers : work[g] \in Things \cup {None}
      /\ \A o \in Objs : held[o] \in Things \cup {None}
      /\ \A o \in Objs : co[o] = "deleted" => held[o] \in Things
      /\ \A g \in Handlers : op[g] \in {"DeleteVolume", "DeleteSnapshot"}
                               => work[g] \in Things
  BY DEF DeletedInv, LockInv, TypeOK, HeldKnown, HandlerInv, HandlerOK
<1>2. \A g \in Handlers : work'[g] # None => life'[work'[g]] # "unborn"
  BY <1>1 DEF DeletedInv, Ageing
<1>3. \A o \in Objs : held'[o] # None => life'[held'[o]] # "unborn"
  BY <1>1 DEF DeletedInv, Ageing
<1>4. \A g \in Handlers :
        pc'[g] = "ok" /\ op'[g] \in {"DeleteVolume", "DeleteSnapshot"}
          => life'[work'[g]] = "gone"
  BY <1>1 DEF DeletedInv, Ageing
<1>5. DeletedGone'
  BY <1>1 DEF DeletedInv, DeletedGone, Ageing
<1>6. QED
  BY <1>2, <1>3, <1>4, <1>5 DEF DeletedInv

\* Every step preserves DeletedInv.
LEMMA DeletedInvNext == DeletedInv /\ [Next]_vars => DeletedInv'
<1> SUFFICES ASSUME DeletedInv, [Next]_vars PROVE DeletedInv'
  OBVIOUS
<1> USE ConstantsAssumption DEF ConstantsAssumption
<1>1. LockInv' /\ LockInv /\ TypeOK /\ HandlerInv
  BY LockInvNext DEF DeletedInv, LockInv
<1>2. /\ \A g \in Handlers : work[g] # None => life[work[g]] # "unborn"
      /\ \A o \in Objs : held[o] # None => life[held[o]] # "unborn"
  BY DEF DeletedInv
<1>3. ASSUME NEW h \in Handlers, Lock(h) PROVE DeletedInv'
  <2>1. /\ Goto(h, FirstStep(h)) /\ FirstStep(h) # "ok"
        /\ UNCHANGED <<life, op, work, co, held>>
    BY <1>3 DEF Lock, cluster, locals, orch, FirstStep
  <2>2. QED
    BY <1>1, <2>1, Ages, Aged DEF Goto, TypeOK
<1>4. ASSUME NEW h \in Handlers, Lookup(h) PROVE DeletedInv'
  <2>1. /\ UNCHANGED <<life, op, co, held>> /\ pc[h] = "lookup"
        /\ \/ \E l \in LvolsNamed(obj[h]) :
                work' = [work EXCEPT ![h] = l] /\ Goto(h, "publish")
           \/ Goto(h, Produce(obj[h])) /\ UNCHANGED work
    BY <1>4 DEF Lookup, cluster, orch
  <2>2. Produce(obj[h]) # "ok"
    BY DEF Produce
  <2>3. \A g \in Handlers : work'[g] # None =>
          work'[g] = work[g] \/ life'[work'[g]] # "unborn"
    BY <1>1, <2>1 DEF LvolsNamed, TypeOK
  <2>4. QED
    BY <1>1, <2>1, <2>2, <2>3, Ages, Aged DEF Goto, TypeOK
<1>5. ASSUME NEW h \in Handlers, Post(h) \/ Clone(h) PROVE DeletedInv'
  <2>1. UNCHANGED <<op, co, held>>
    BY <1>5 DEF Post, Clone, orch
  <2>2. \/ /\ UNCHANGED <<life, work>> /\ Goto(h, "err")
        \/ \E l \in Lvols :
             /\ Make(l, obj[h])
             /\ \/ UNCHANGED work /\ Goto(h, "err")
                \/ work' = [work EXCEPT ![h] = l] /\ Goto(h, "publish")
    BY <1>5 DEF Post, Clone, cluster, Delay
  <2>3. CASE UNCHANGED <<life, work>> /\ Goto(h, "err")
    BY <1>1, <2>1, <2>3, Ages, Aged DEF Goto, TypeOK
  <2>4. ASSUME NEW l \in Lvols, Make(l, obj[h]),
               \/ UNCHANGED work /\ Goto(h, "err")
               \/ work' = [work EXCEPT ![h] = l] /\ Goto(h, "publish")
        PROVE  DeletedInv'
    <3>1. l \in Things /\ life'[l] = "live"
      BY <1>1, <2>4 DEF Things, Make, TypeOK
    <3>2. Ageing
      BY <1>1, <2>4, <3>1, Ages
    <3>3. QED
      BY <1>1, <2>1, <2>4, <3>1, <3>2, Aged DEF Goto, TypeOK
  <2>5. QED
    BY <2>2, <2>3, <2>4
<1>6. ASSUME NEW h \in Handlers, Snap(h) PROVE DeletedInv'
  <2>1. UNCHANGED <<op, co, held>>
    BY <1>6 DEF Snap, orch
  <2>2. \/ /\ UNCHANGED <<life, work>> /\ Goto(h, "err")
        \/ \E s \in Snaps :
             /\ Make(s, obj[h])
             /\ \/ UNCHANGED work /\ (Goto(h, "err") \/ Goto(h, "clone"))
                \/ work' = [work EXCEPT ![h] = s] /\ Goto(h, "size")
    BY <1>6 DEF Snap, cluster, Delay
  <2>3. CASE UNCHANGED <<life, work>> /\ Goto(h, "err")
    BY <1>1, <2>1, <2>3, Ages, Aged DEF Goto, TypeOK
  <2>4. ASSUME NEW s \in Snaps, Make(s, obj[h]),
               \/ UNCHANGED work /\ (Goto(h, "err") \/ Goto(h, "clone"))
               \/ work' = [work EXCEPT ![h] = s] /\ Goto(h, "size")
        PROVE  DeletedInv'
    <3>1. s \in Things /\ life'[s] = "live"
      BY <1>1, <2>4 DEF Things, Make, TypeOK
    <3>2. Ageing
      BY <1>1, <2>4, <3>1, Ages
    <3>3. QED
      BY <1>1, <2>1, <2>4, <3>1, <3>2, Aged DEF Goto, TypeOK
  <2>5. QED
    BY <2>2, <2>3, <2>4
<1>7. ASSUME NEW h \in Handlers,
             Publish(h) \/ Info(h) \/ Unpublish(h) \/ Size(h)
      PROVE  DeletedInv'
  <2>1. UNCHANGED <<life, op, work, co, held>>
    BY <1>7 DEF Publish, Info, Unpublish, Size, Read, cluster, locals, orch
  <2>2. /\ \E x \in Steps : Goto(h, x)
        /\ Goto(h, "ok") => op[h] \in {"CreateVolume", "CreateSnapshot"}
    <3>1. CASE Publish(h) \/ Info(h)
      BY <1>1, <3>1 DEF Publish, Info, Read, Steps, HandlerInv, HandlerOK
    <3>2. CASE Size(h)
      BY <1>1, <3>2 DEF Size, Read, Steps, HandlerInv, HandlerOK
    <3>3. CASE Unpublish(h)
      BY <1>1, <3>3 DEF Unpublish, Read, Steps, Goto, TypeOK
    <3>4. QED
      BY <1>7, <3>1, <3>2, <3>3
  <2>3. QED
    BY <1>1, <2>1, <2>2, Ages, Aged DEF Goto, TypeOK
<1>8. ASSUME NEW h \in Handlers, Undo(h) \/ Delete(h) \/ DeleteSnap(h)
      PROVE  DeletedInv'
  <2>1. /\ UNCHANGED <<op, work, co, held>>
        /\ Remove(work[h]) \/ (UNCHANGED life /\ Goto(h, "err"))
        /\ Goto(h, "ok") \/ Goto(h, "err")
    BY <1>8 DEF Undo, Delete, DeleteSnap, Delay, cluster, locals, orch
  <2>2. work[h] \in Things /\ life[work[h]] # "unborn"
    BY <1>1, <1>2, <1>8 DEF Undo, Delete, DeleteSnap, HandlerInv, HandlerOK, TypeOK
  <2>3. Remove(work[h]) => life'[work[h]] = "gone"
    BY <1>1, <2>2 DEF Remove, Live, TypeOK
  <2>4. Ageing
    BY <1>1, <2>1, <2>2, Ages
  <2>5. QED
    BY <1>1, <2>1, <2>3, <2>4, Aged DEF Goto, TypeOK
<1>9. ASSUME NEW h \in Handlers, Return(h) PROVE DeletedInv'
  <2>1. /\ UNCHANGED life /\ Goto(h, "idle") /\ Forget(h) /\ Answer(h)
        /\ pc[h] \in {"ok", "err"}
    BY <1>9 DEF Return, cluster
  <2>2. obj[h] \in Objs /\ (pc[h] = "ok" => work[h] # None)
    BY <1>1, <2>1 DEF HandlerInv, HandlerOK, TypeOK
  <2>3. /\ pc[h] = "ok" /\ op[h] \in {"DeleteVolume", "DeleteSnapshot"}
        /\ await[obj[h]] = h
        => life[held[obj[h]]] = "gone"
    BY <1>1, <2>2 DEF DeletedInv, LockInv, CallInv
  <2>4. \A o \in Objs : held'[o] # None =>
          held'[o] = held[o] \/ life'[held'[o]] # "unborn"
    BY <1>1, <1>2, <2>1, <2>2 DEF Answer, orch, TypeOK
  <2>5. \A o \in Objs : co'[o] = "deleted" =>
          (co[o] = "deleted" /\ held'[o] = held[o]) \/ life'[held'[o]] = "gone"
    BY <1>1, <2>1, <2>2, <2>3 DEF Answer, orch, TypeOK
  <2>6. QED
    BY <1>1, <2>1, <2>4, <2>5, Ages, Aged DEF Goto, Forget, TypeOK
<1>10. ASSUME NEW h \in Handlers, NEW o \in Objs, CallCreate(h, o) \/ CallDelete(h, o)
       PROVE  DeletedInv'
  <2>1. /\ UNCHANGED <<life, held>> /\ Goto(h, "lock")
        /\ op' = [op EXCEPT ![h] = op'[h]]
        /\ work' = [work EXCEPT ![h] = None] \/ work' = [work EXCEPT ![h] = held[o]]
        /\ \E c \in {"creating", "deleting"} : co' = [co EXCEPT ![o] = c]
    BY <1>1, <1>10 DEF CallCreate, CallDelete, Begin, cluster, TypeOK
  <2>2. QED
    BY <1>1, <1>2, <2>1, Ages, Aged DEF Goto, TypeOK
<1>11. CASE Crash
  <2>1. /\ UNCHANGED <<life, co, held>>
        /\ \A g \in Handlers : pc'[g] = "idle" /\ work'[g] = None
    BY <1>11 DEF Crash, cluster
  <2>2. QED
    BY <1>1, <2>1, Ages, Aged
<1>12. CASE LateArrival
  <2>1. UNCHANGED <<pc, op, work, co, held>>
    BY <1>12 DEF LateArrival, locals, orch
  <2>2. Ageing
    <3>1. PICK r \in late :
            \/ \E t \in MadeBy(r.call) : Make(t, r.obj)
            \/ UNCHANGED life
            \/ Remove(r.id)
      BY <1>12 DEF LateArrival
    <3>2. r.id \in Things \cup {None} /\ MadeBy(r.call) \subseteq Things
      BY <1>1 DEF TypeOK, Requests, MadeBy, Things
    <3>3. QED
      BY <1>1, <3>1, <3>2, Ages
  <2>3. QED
    BY <1>1, <2>1, <2>2, Aged
<1>13. CASE UNCHANGED vars \/ \E o \in Objs : GiveUp(o)
  <2>1. UNCHANGED <<life, pc, op, work, co, held>>
    BY <1>13 DEF GiveUp, vars, cluster, locals
  <2>2. QED
    BY <1>1, <2>1, Ages, Aged
<1>14. QED
  BY <1>3, <1>4, <1>5, <1>6, <1>7, <1>8, <1>9, <1>10, <1>11, <1>12, <1>13
  DEF Next, Step

\* No id is in use before the first call.
LEMMA DeletedInvInit == Init => DeletedInv
<1>1. Init => LockInv
  BY LockInvInit
<1>2. QED
  BY <1>1, ConstantsAssumption DEF ConstantsAssumption, DeletedInv, DeletedGone, Init

\* Ids in use have been born, and a delete handler about to answer OK has seen
\* its volume or snapshot go, under every fault.
THEOREM DeletedInvariance == Spec => []DeletedInv
  BY DeletedInvInit, DeletedInvNext, PTL DEF Spec

\* Whatever is lost, delayed, repeated, given up or cut by a crash: once the
\* CO is told that a volume or a snapshot is deleted, it is gone for good.
THEOREM DeletedMeansGone == Spec => []DeletedGone
<1>1. DeletedInv => DeletedGone
  BY DEF DeletedInv
<1>2. QED
  BY <1>1, DeletedInvariance, PTL
=============================================================================
