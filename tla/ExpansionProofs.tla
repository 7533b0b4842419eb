--------------------------- MODULE ExpansionProofs ---------------------------
(***************************************************************************)
(* Proof that SizeInv is an inductive invariant of Expansion, and with it  *)
(* that the sizes which creations, expansions and snapshots answered with  *)
(* are sizes that exist: for every number of handlers and volumes, every   *)
(* size of a MiB, whatever requests fail, lose their answers or are given  *)
(* up, and for every number of these faults.                               *)
(***************************************************************************)
EXTENDS Expansion, TLAPS

\* util.ToMiB never rounds down: its MiB are at least the bytes it was given.
LEMMA RoundUp ==
  ASSUME NEW b \in Nat
  PROVE  ToMiB(b) * Mi \in Nat /\ ToMiB(b) * Mi >= b
<1>1. Mi \in Nat \ {0}
  BY ConstantsAssumption DEF ConstantsAssumption
<1>2. (b + Mi - 1) \in Nat
  BY <1>1
<1>3. ASSUME NEW a \in Nat PROVE a \div Mi \in Nat /\ (a \div Mi) * Mi + Mi > a
  BY <1>1
<1>4. QED
  BY <1>1, <1>2, <1>3 DEF ToMiB

\* The lvol made for a request has at least the bytes that were asked for, and
\* some when no size was given.
LEMMA AllocatedEnough ==
  \A b \in Nat : Allocated(b) \in Nat \ {0} /\ b <= Allocated(b)
<1>1. GiB \in Nat \ {0}
  BY ConstantsAssumption DEF ConstantsAssumption
<1>2. SUFFICES ASSUME NEW b \in Nat
               PROVE  Allocated(b) \in Nat \ {0} /\ b <= Allocated(b)
  OBVIOUS
<1>3. CASE b = 0
  <2>1. ToMiB(GiB) * Mi \in Nat /\ ToMiB(GiB) * Mi >= GiB
    BY <1>1, RoundUp
  <2>2. Allocated(b) = ToMiB(GiB) * Mi
    BY <1>3 DEF Allocated, SizeMiB
  <2>3. QED
    BY <1>1, <1>3, <2>1, <2>2
<1>4. CASE b # 0
  <2>1. Allocated(b) = ToMiB(b) * Mi
    BY <1>4 DEF Allocated, SizeMiB
  <2>2. QED
    BY <1>4, <2>1, RoundUp
<1>5. QED
  BY <1>3, <1>4

\* The fault budget is never exceeded.
LEMMA FaultsBounded ==
  ASSUME TypeOK, NoFault \/ Fault
  PROVE  faults' \in 0..MaxFaults
  BY ConstantsAssumption DEF ConstantsAssumption, TypeOK, NoFault, Fault

\* A handler at work serves a volume, with a size in its request.
LEMMA Serving ==
  ASSUME SizeInv, NEW h \in Handlers, pc[h] # "idle"
  PROVE  /\ vol[h] \in Vols /\ op[h] \in RPCs /\ arg[h] \in Nat /\ told[h] \in Nat
         /\ size[vol[h]] \in Nat /\ fs[vol[h]] \in Nat
         /\ fs[vol[h]] <= size[vol[h]]
  BY DEF SizeInv, TypeOK, HandlerInv, SnapshotInv, SnapshotFits

\* A step at which the call has failed.
LEMMA Failed ==
  ASSUME SizeInv, NEW h \in Handlers, pc[h] # "idle", Goto(h, "err"),
         NoFault \/ Fault, UNCHANGED <<storage, locals, awaited, claims>>
  PROVE  SizeInv'
<1> USE DEF SizeInv, storage, locals, claims, Goto
<1>1. TypeOK'
  BY FaultsBounded DEF TypeOK, Steps
<1>2. HandlerInv'
  BY DEF TypeOK, HandlerInv
<1>3. CapacityInv'
  BY DEF TypeOK, CapacityInv, CapacityTrue, Fresh
<1>4. SnapshotInv'
  BY DEF TypeOK, SnapshotInv, SnapshotFits
<1>5. StatusInv'
  BY DEF TypeOK, StatusInv, StatusBacked, Fresh
<1>6. QED
  BY <1>1, <1>2, <1>3, <1>4, <1>5

\* A handler makes or enlarges the lvol of its volume to z bytes with y bytes of
\* file system, and has t bytes to answer with.
Grows(h, z, y, t) ==
  LET v == vol[h] IN
  /\ pc[h] # "idle" /\ op[h] \in {"CreateVolume", "ControllerExpand"}
  /\ Goto(h, "ok") \/ Goto(h, "err")
  /\ NoFault \/ Fault
  /\ size' = [size EXCEPT ![v] = z]
  /\ fs' = [fs EXCEPT ![v] = y]
  /\ told' = [told EXCEPT ![h] = t]
  /\ UNCHANGED <<staged, op, vol, arg, taken, awaited, claims>>
  /\ size[v] <= z /\ z # 0 /\ y <= z /\ fs[v] <= y /\ arg[h] <= t /\ t # 0
  /\ Fresh(v) => y = fs[v] /\ (size[v] = 0 => z = Allocated(want[v]))
  /\ Fresh(v) /\ ~MayRefuse => t <= z

\* Such a step keeps the invariant: the lvol gets no smaller, and has what is
\* answered.
LEMMA Grown ==
  ASSUME SizeInv, NEW h \in Handlers, NEW z \in Nat, NEW y \in Nat, NEW t \in Nat,
         Grows(h, z, y, t)
  PROVE  SizeInv'
<1> DEFINE v == vol[h]
<1> USE DEF SizeInv, claims, Goto
<1>0. v \in Vols
  BY Serving DEF Grows
<1>1. TypeOK'
  BY <1>0, FaultsBounded DEF TypeOK, Steps, Grows
<1>2. HandlerInv'
  BY DEF TypeOK, HandlerInv, Grows
<1>3. /\ \A u \in Vols : size'[u] \in Nat /\ size[u] \in Nat /\ size[u] <= size'[u]
      /\ \A u \in Vols : fs'[u] \in Nat /\ fs[u] \in Nat /\ fs[u] <= fs'[u]
      /\ \A u \in Vols : fs'[u] <= size'[u]
      /\ \A u \in Vols \ {v} : size'[u] = size[u] /\ fs'[u] = fs[u]
      /\ size'[v] = z /\ fs'[v] = y
  BY <1>0 DEF TypeOK, SnapshotInv, SnapshotFits, Grows
<1>4. CapacityInv'
  <2>1. \A u \in Vols : cap'[u] # 0 => size'[u] # 0
    BY <1>3 DEF CapacityInv, Grows
  <2>2. \A u \in Vols : want[u] \in Nat /\ Allocated(want[u]) \in Nat
    BY ConstantsAssumption, AllocatedEnough DEF ConstantsAssumption, TypeOK
  <2>3. \A u \in Vols : Fresh(u) /\ cap[u] = 0 /\ size'[u] # 0 => Allocated(want[u]) <= size'[u]
    BY <1>0, <1>3, <2>2 DEF CapacityInv, Grows
  <2>4. ASSUME NEW g \in Handlers, op[g] = "CreateVolume", Fresh(vol[g])
        PROVE  IF size'[vol[g]] = 0 THEN arg[g] = want[vol[g]]
               ELSE Allocated(arg[g]) <= size'[vol[g]]
    <3>1. vol[g] \in Vols /\ arg[g] \in Nat /\ Allocated(arg[g]) \in Nat
      BY <2>4, ConstantsAssumption, AllocatedEnough
      DEF ConstantsAssumption, RPCs, TypeOK, HandlerInv
    <3>2. QED
      BY <1>0, <1>3, <2>2, <2>4, <3>1 DEF CapacityInv, Grows
  <2>5. QED
    BY <1>0, <1>3, <2>1, <2>3, <2>4 DEF TypeOK, CapacityInv, CapacityTrue, Fresh, Grows
<1>5. SnapshotInv'
  BY <1>0, <1>3 DEF TypeOK, HandlerInv, SnapshotInv, SnapshotFits, Grows
<1>6. StatusInv'
  BY <1>0, <1>3 DEF TypeOK, StatusInv, StatusBacked, Fresh, Grows
<1>7. QED
  BY <1>1, <1>2, <1>4, <1>5, <1>6

\* createVolume's POST.
LEMMA PostStep ==
  ASSUME SizeInv, NEW h \in Handlers, Post(h)
  PROVE  SizeInv'
<1> DEFINE v == vol[h]
<1>1. pc[h] # "idle" /\ op[h] = "CreateVolume"
  BY DEF SizeInv, HandlerInv, Post
<1>2. CASE Fails(h, "POST")
  BY <1>1, <1>2, Failed DEF Fails
<1>3. CASE ~Fails(h, "POST")
  <2>1. /\ told' = [told EXCEPT ![h] = Allocated(arg[h])]
        /\ UNCHANGED <<staged, op, vol, arg, taken, awaited, claims>>
    BY <1>3 DEF Post
  <2>2. v \in Vols /\ arg[h] \in Nat /\ size[v] \in Nat /\ fs[v] \in Nat /\ fs[v] <= size[v]
    BY <1>1, Serving
  <2>3. Allocated(arg[h]) \in Nat \ {0} /\ arg[h] <= Allocated(arg[h])
    BY <2>2, AllocatedEnough
  <2>4. (Goto(h, "ok") \/ Goto(h, "err")) /\ (NoFault \/ Fault)
    BY <1>3 DEF Post, Done
  <2>5. CASE size[v] = 0 /\ Fresh(v)
    <3>1. Allocated(arg[h]) = Allocated(want[v])
      BY <1>1, <2>5 DEF SizeInv, CapacityInv
    <3>2. size' = [size EXCEPT ![v] = Allocated(arg[h])] /\ fs' = [fs EXCEPT ![v] = fs[v]]
      BY <1>3, <2>5 DEF Post, Fresh, SizeInv, TypeOK
    <3>3. Grows(h, Allocated(arg[h]), fs[v], Allocated(arg[h]))
      BY <1>1, <2>1, <2>2, <2>3, <2>4, <2>5, <3>1, <3>2 DEF Grows
    <3>4. QED
      BY <2>2, <2>3, <3>3, Grown
  <2>6. CASE size[v] = 0 /\ ~Fresh(v)
    <3> DEFINE s == snap[Source[v]]
    <3>1. Source[v] \in Vols /\ s # None
      BY <1>1, <2>2, <2>6, ConstantsAssumption
      DEF ConstantsAssumption, SizeInv, TypeOK, HandlerInv, CapacityInv, Fresh
    <3>2. s.size \in Nat /\ s.fs \in Nat /\ s.size # 0 /\ s.fs <= s.size
      BY <3>1 DEF SizeInv, TypeOK, SnapshotInv, SnapshotFits
    <3>3. size' = [size EXCEPT ![v] = s.size] /\ fs' = [fs EXCEPT ![v] = s.fs]
      BY <1>3, <2>6 DEF Post, Fresh
    <3>4. Grows(h, s.size, s.fs, Allocated(arg[h]))
      BY <1>1, <2>1, <2>2, <2>3, <2>4, <2>6, <3>2, <3>3 DEF Grows
    <3>5. QED
      BY <2>3, <3>2, <3>4, Grown
  <2>7. CASE size[v] # 0
    <3>1. Fresh(v) => Allocated(arg[h]) <= size[v]
      BY <1>1, <2>7 DEF SizeInv, CapacityInv
    <3>2. size' = [size EXCEPT ![v] = size[v]] /\ fs' = [fs EXCEPT ![v] = fs[v]]
      BY <1>3, <2>7 DEF Post, SizeInv, TypeOK
    <3>3. Grows(h, size[v], fs[v], Allocated(arg[h]))
      BY <1>1, <2>1, <2>2, <2>3, <2>4, <2>7, <3>1, <3>2 DEF Grows
    <3>4. QED
      BY <2>2, <2>3, <3>3, Grown
  <2>8. QED
    BY <2>5, <2>6, <2>7
<1>4. QED
  BY <1>2, <1>3

\* ControllerExpandVolume's PUT.
LEMMA PutStep ==
  ASSUME SizeInv, NEW h \in Handlers, Put(h)
  PROVE  SizeInv'
<1> DEFINE v == vol[h]
<1>1. pc[h] # "idle" /\ op[h] = "ControllerExpand"
  BY DEF SizeInv, HandlerInv, Put
<1>2. CASE Fails(h, "PUT")
  BY <1>1, <1>2, Failed DEF Fails
<1>3. CASE ~Fails(h, "PUT")
  <2>0. PICK z \in Resized(size[v], arg[h]) : size' = [size EXCEPT ![v] = z]
    BY <1>3 DEF Put
  <2>1. /\ told' = [told EXCEPT ![h] = arg[h]]
        /\ UNCHANGED <<staged, op, vol, arg, taken, awaited, claims>>
    BY <1>3 DEF Put
  <2>2. v \in Vols /\ arg[h] \in Nat /\ size[v] \in Nat /\ fs[v] \in Nat /\ fs[v] <= size[v]
    BY <1>1, Serving
  <2>3. arg[h] # 0 /\ size[v] # 0
    BY <1>1, ConstantsAssumption DEF ConstantsAssumption, RPCs, SizeInv, CapacityInv
  <2>4. (Goto(h, "ok") \/ Goto(h, "err")) /\ (NoFault \/ Fault)
    BY <1>3 DEF Put, Done
  <2>5. /\ z \in Nat /\ size[v] <= z /\ z # 0 /\ fs[v] <= z
        /\ ~MayRefuse => arg[h] <= z
    BY <2>0, <2>2, <2>3 DEF Resized
  <2>6. fs' = [fs EXCEPT ![v] = fs[v]]
    BY <1>3 DEF Put, SizeInv, TypeOK
  <2>7. Grows(h, z, fs[v], arg[h])
    BY <1>1, <2>0, <2>1, <2>2, <2>3, <2>4, <2>5, <2>6 DEF Grows
  <2>8. QED
    BY <2>2, <2>5, <2>7, Grown
<1>4. QED
  BY <1>2, <1>3

\* CreateSnapshot's POST.
LEMMA SnapStep ==
  ASSUME SizeInv, NEW h \in Handlers, Snap(h)
  PROVE  SizeInv'
<1> DEFINE v == vol[h]
<1>1. pc[h] # "idle" /\ op[h] = "CreateSnapshot"
  BY DEF SizeInv, HandlerInv, Snap
<1>2. CASE Fails(h, "POST")
  BY <1>1, <1>2, Failed DEF Fails
<1>3. CASE ~Fails(h, "POST")
  <2> USE DEF SizeInv, storage, claims, Goto
  <2>1. /\ taken' = [taken EXCEPT ![h] = [size |-> size[v], fs |-> fs[v]]]
        /\ UNCHANGED <<storage, op, vol, arg, told, awaited, claims>>
    BY <1>3 DEF Snap
  <2>2. /\ v \in Vols /\ size[v] \in Nat /\ fs[v] \in Nat /\ fs[v] <= size[v]
        /\ size[v] # 0
    BY <1>1, Serving, ConstantsAssumption DEF ConstantsAssumption, RPCs, CapacityInv
  <2>3. PICK x \in {"measure", "err"} : Goto(h, x) /\ (NoFault \/ Fault)
    BY <1>3 DEF Snap, Done
  <2>4. TypeOK'
    BY <2>1, <2>2, <2>3, FaultsBounded DEF TypeOK, Steps
  <2>5. HandlerInv'
    BY <1>1, <2>1, <2>3 DEF TypeOK, HandlerInv
  <2>6. CapacityInv'
    BY <2>1, <2>3 DEF TypeOK, CapacityInv, CapacityTrue, Fresh
  <2>7. SnapshotInv'
    <3>1. [size |-> size[v], fs |-> fs[v]] # None
      BY <2>2, ConstantsAssumption DEF ConstantsAssumption
    <3>2. QED
      BY <1>1, <2>1, <2>2, <2>3, <3>1 DEF TypeOK, SnapshotInv, SnapshotFits
  <2>8. StatusInv'
    BY <2>1, <2>3 DEF TypeOK, StatusInv, StatusBacked, Fresh
  <2>9. QED
    BY <2>4, <2>5, <2>6, <2>7, <2>8
<1>4. QED
  BY <1>2, <1>3

\* CreateSnapshot reads the size of the source.
LEMMA MeasureStep ==
  ASSUME SizeInv, NEW h \in Handlers, Measure(h)
  PROVE  SizeInv'
<1>1. pc[h] # "idle" /\ op[h] = "CreateSnapshot"
  BY DEF SizeInv, HandlerInv, Measure
<1>2. CASE Fails(h, "GET")
  BY <1>1, <1>2, Failed DEF Fails
<1>3. CASE ~Fails(h, "GET")
  <2> USE DEF SizeInv, storage, claims, Goto
  <2>1. /\ told' = [told EXCEPT ![h] = size[vol[h]]]
        /\ Goto(h, "ok") /\ NoFault
        /\ UNCHANGED <<storage, op, vol, arg, taken, awaited, claims>>
    BY <1>3 DEF Measure
  <2>2. TypeOK'
    BY <1>1, <2>1, Serving, FaultsBounded DEF TypeOK, Steps
  <2>3. HandlerInv'
    BY <1>1, <2>1 DEF TypeOK, HandlerInv
  <2>4. CapacityInv'
    BY <1>1, <2>1 DEF TypeOK, CapacityInv, CapacityTrue, Fresh
  <2>5. SnapshotInv'
    BY <1>1, <2>1 DEF TypeOK, SnapshotInv, SnapshotFits, Measure
  <2>6. StatusInv'
    BY <1>1, <2>1 DEF TypeOK, StatusInv, StatusBacked, Fresh
  <2>7. QED
    BY <2>2, <2>3, <2>4, <2>5, <2>6
<1>4. QED
  BY <1>2, <1>3

\* What the host shows is between the file system's size and the lvol's.
LEMMA ShownSizes ==
  ASSUME SizeInv, NEW v \in Vols, NEW d \in Shown(v)
  PROVE  /\ d \in Nat /\ fs[v] \in Nat /\ fs[v] <= d /\ d <= size[v]
         /\ ~MayLag => d = size[v]
  BY DEF SizeInv, TypeOK, SnapshotInv, SnapshotFits, Shown

\* NodeExpandVolume looks whether the file system has to grow; it answers OK
\* without a resize only when the file system already has the device's size.
LEMMA NeedStep ==
  ASSUME SizeInv, NEW h \in Handlers, Need(h)
  PROVE  SizeInv'
<1> USE ConstantsAssumption DEF ConstantsAssumption, SizeInv
<1> USE DEF storage, claims, locals, Goto
<1>1. TypeOK'
  BY FaultsBounded DEF TypeOK, Steps, RPCs, NoFault, Need
<1>2. HandlerInv'
  BY DEF TypeOK, HandlerInv, RPCs, NoFault, Need
<1>3. CapacityInv'
  BY DEF TypeOK, HandlerInv, CapacityInv, CapacityTrue, Fresh, RPCs, NoFault, Need
<1>4. SnapshotInv'
  BY DEF TypeOK, HandlerInv, CapacityInv, SnapshotInv, SnapshotFits, NoFault, Need
<1>5. StatusInv'
  <2> DEFINE v == vol[h]
  <2>1. /\ v \in Vols /\ op[h] = "NodeExpand" /\ pc[h] = "need"
        /\ UNCHANGED <<size, fs, staged, op, vol, arg, awaited, cap, status>>
    BY Serving DEF HandlerInv, Need
  <2>2. PICK d \in Shown(v) :
          Goto(h, CASE v \notin staged -> "err" [] fs[v] < d -> "resize" [] OTHER -> "ok")
    BY DEF Need
  <2>3. /\ \A g \in Handlers \ {h} : pc'[g] = pc[g]
        /\ pc'[h] = "ok" => v \in staged /\ ~(fs[v] < d)
    BY <2>2 DEF TypeOK
  <2>4. ASSUME ~MayLag, pc'[h] = "ok" PROVE fs[v] = size[v] /\ fs[v] # 0
    <3>1. d \in Nat /\ fs[v] \in Nat /\ fs[v] <= d /\ d = size[v]
      BY <2>1, <2>4, ShownSizes
    <3>2. v \in staged /\ ~(fs[v] < d)
      BY <2>3, <2>4
    <3>3. fs[v] # 0
      BY <2>1, <3>2 DEF StatusInv
    <3>4. QED
      BY <3>1, <3>2, <3>3
  <2>5. ASSUME StatusBacked, ~MayLag PROVE StatusBacked'
    BY <2>1, <2>3, <2>4, <2>5 DEF StatusBacked, Fresh
  <2>6. QED
    BY <2>1, <2>5 DEF StatusInv, Fresh
<1>6. QED
  BY <1>1, <1>2, <1>3, <1>4, <1>5

\* A call that begins has taken no snapshot.
LEMMA BeginSnapshots ==
  ASSUME SizeInv, NEW h \in Handlers, NEW v \in Vols, NEW rpc, NEW bytes,
         NEW step \in {"post", "snap", "put", "need"}, Begin(h, rpc, v, bytes, step)
  PROVE  SnapshotInv'
<1>1. pc[h] = "idle" /\ taken[h] = None
  BY ConstantsAssumption DEF ConstantsAssumption, RPCs, SizeInv, HandlerInv, SnapshotInv, Begin
<1>2. /\ pc'[h] = step
      /\ \A g \in Handlers \ {h} : pc'[g] = pc[g] /\ op'[g] = op[g] /\ vol'[g] = vol[g]
      /\ UNCHANGED <<size, fs, taken, told, snap>>
  BY DEF SizeInv, TypeOK, Begin, Goto, storage, claims
<1>3. QED
  BY <1>1, <1>2 DEF SizeInv, SnapshotInv, SnapshotFits

\* The orchestrator asks for a volume, with the size in the claim.
LEMMA CallCreateStep ==
  ASSUME SizeInv, NEW h \in Handlers, NEW v \in Vols, CallCreate(h, v)
  PROVE  SizeInv'
<1> USE ConstantsAssumption DEF ConstantsAssumption, SizeInv
<1> USE DEF storage, claims, locals, Goto
<1>1. TypeOK'
  BY FaultsBounded DEF TypeOK, Steps, RPCs, NoFault, CallCreate, Begin
<1>2. HandlerInv'
  BY DEF TypeOK, HandlerInv, RPCs, NoFault, CallCreate, Begin
<1>3. CapacityInv'
  BY DEF TypeOK, HandlerInv, CapacityInv, CapacityTrue, Fresh, RPCs, CallCreate, Begin
<1>4. SnapshotInv'
  BY BeginSnapshots DEF CallCreate
<1>5. StatusInv'
  BY DEF TypeOK, CapacityInv, CapacityTrue, StatusInv, StatusBacked, SnapshotInv,
         SnapshotFits, Fresh, NoFault, CallCreate, Begin
<1>6. QED
  BY <1>1, <1>2, <1>3, <1>4, <1>5

\* The orchestrator asks for a snapshot of a bound volume.
LEMMA CallSnapshotStep ==
  ASSUME SizeInv, NEW h \in Handlers, NEW v \in Vols, CallSnapshot(h, v)
  PROVE  SizeInv'
<1> USE ConstantsAssumption DEF ConstantsAssumption, SizeInv
<1> USE DEF storage, claims, locals, Goto
<1>1. TypeOK'
  BY FaultsBounded DEF TypeOK, Steps, RPCs, NoFault, CallSnapshot, Begin
<1>2. HandlerInv'
  BY DEF TypeOK, HandlerInv, RPCs, NoFault, CallSnapshot, Begin
<1>3. CapacityInv'
  BY DEF TypeOK, HandlerInv, CapacityInv, CapacityTrue, Fresh, RPCs, CallSnapshot, Begin
<1>4. SnapshotInv'
  BY BeginSnapshots DEF CallSnapshot
<1>5. StatusInv'
  BY DEF TypeOK, CapacityInv, CapacityTrue, StatusInv, StatusBacked, SnapshotInv,
         SnapshotFits, Fresh, NoFault, CallSnapshot, Begin
<1>6. QED
  BY <1>1, <1>2, <1>3, <1>4, <1>5

\* The orchestrator asks for an expansion of a bound volume to its claim.
LEMMA CallExpandStep ==
  ASSUME SizeInv, NEW h \in Handlers, NEW v \in Vols, CallExpand(h, v)
  PROVE  SizeInv'
<1> USE ConstantsAssumption DEF ConstantsAssumption, SizeInv
<1> USE DEF storage, claims, locals, Goto
<1>1. TypeOK'
  BY FaultsBounded DEF TypeOK, Steps, RPCs, NoFault, CallExpand, Begin
<1>2. HandlerInv'
  BY DEF TypeOK, HandlerInv, RPCs, NoFault, CallExpand, Begin
<1>3. CapacityInv'
  BY DEF TypeOK, HandlerInv, CapacityInv, CapacityTrue, Fresh, RPCs, CallExpand, Begin
<1>4. SnapshotInv'
  BY BeginSnapshots DEF CallExpand
<1>5. StatusInv'
  BY DEF TypeOK, CapacityInv, CapacityTrue, StatusInv, StatusBacked, SnapshotInv,
         SnapshotFits, Fresh, NoFault, CallExpand, Begin
<1>6. QED
  BY <1>1, <1>2, <1>3, <1>4, <1>5

\* The kubelet asks the node for an expansion to the capacity, which the lvol has.
LEMMA CallNodeExpandStep ==
  ASSUME SizeInv, NEW h \in Handlers, NEW v \in Vols, CallNodeExpand(h, v)
  PROVE  SizeInv'
<1> USE ConstantsAssumption DEF ConstantsAssumption, SizeInv
<1> USE DEF storage, claims, locals, Goto
<1>1. TypeOK'
  BY FaultsBounded DEF TypeOK, Steps, RPCs, NoFault, CallNodeExpand, Begin
<1>2. HandlerInv'
  BY DEF TypeOK, HandlerInv, RPCs, NoFault, CallNodeExpand, Begin
<1>3. CapacityInv'
  BY DEF TypeOK, HandlerInv, CapacityInv, CapacityTrue, Fresh, RPCs, CallNodeExpand, Begin
<1>4. SnapshotInv'
  BY BeginSnapshots DEF CallNodeExpand
<1>5. StatusInv'
  BY DEF TypeOK, CapacityInv, CapacityTrue, StatusInv, StatusBacked, SnapshotInv,
         SnapshotFits, Fresh, NoFault, CallNodeExpand, Begin
<1>6. QED
  BY <1>1, <1>2, <1>3, <1>4, <1>5

\* The user raises the claim of a bound volume; one that is not bound has the
\* claim that all its CreateVolume handlers were called with.
LEMMA RaiseStep ==
  ASSUME SizeInv, NEW v \in Vols, Raise(v)
  PROVE  SizeInv'
<1> USE ConstantsAssumption DEF ConstantsAssumption, SizeInv
<1> USE DEF storage, claims, locals, Goto
<1>1. TypeOK'
  BY FaultsBounded DEF TypeOK, Steps, RPCs, NoFault, Raise
<1>2. HandlerInv'
  BY DEF TypeOK, HandlerInv, RPCs, NoFault, Raise
<1>3. CapacityInv'
  BY DEF TypeOK, HandlerInv, CapacityInv, CapacityTrue, Fresh, RPCs, NoFault, Raise
<1>4. SnapshotInv'
  BY DEF TypeOK, HandlerInv, CapacityInv, SnapshotInv, SnapshotFits, NoFault, Raise
<1>5. StatusInv'
  BY DEF TypeOK, CapacityInv, CapacityTrue, StatusInv, StatusBacked, SnapshotInv,
         SnapshotFits, Fresh, NoFault, Raise
<1>6. QED
  BY <1>1, <1>2, <1>3, <1>4, <1>5

\* A volume is staged: a new file system has the size of the lvol.
LEMMA StageStep ==
  ASSUME SizeInv, NEW v \in Vols, Stage(v)
  PROVE  SizeInv'
<1> USE ConstantsAssumption DEF ConstantsAssumption, SizeInv
<1> USE DEF storage, claims, locals, Goto
<1>1. TypeOK'
  BY FaultsBounded DEF TypeOK, Steps, RPCs, NoFault, Stage
<1>2. HandlerInv'
  BY DEF TypeOK, HandlerInv, RPCs, NoFault, Stage
<1>3. CapacityInv'
  BY DEF TypeOK, HandlerInv, CapacityInv, CapacityTrue, Fresh, RPCs, NoFault, Stage
<1>4. SnapshotInv'
  BY DEF TypeOK, HandlerInv, CapacityInv, SnapshotInv, SnapshotFits, NoFault, Stage
<1>5. StatusInv'
  BY DEF TypeOK, CapacityInv, CapacityTrue, StatusInv, StatusBacked, SnapshotInv,
         SnapshotFits, Fresh, NoFault, Stage
<1>6. QED
  BY <1>1, <1>2, <1>3, <1>4, <1>5

\* A volume is unstaged.
LEMMA UnstageStep ==
  ASSUME SizeInv, NEW v \in Vols, Unstage(v)
  PROVE  SizeInv'
<1> USE ConstantsAssumption DEF ConstantsAssumption, SizeInv
<1> USE DEF storage, claims, locals, Goto
<1>1. TypeOK'
  BY FaultsBounded DEF TypeOK, Steps, RPCs, NoFault, Unstage
<1>2. HandlerInv'
  BY DEF TypeOK, HandlerInv, RPCs, NoFault, Unstage
<1>3. CapacityInv'
  BY DEF TypeOK, HandlerInv, CapacityInv, CapacityTrue, Fresh, RPCs, NoFault, Unstage
<1>4. SnapshotInv'
  BY DEF TypeOK, HandlerInv, CapacityInv, SnapshotInv, SnapshotFits, NoFault, Unstage
<1>5. StatusInv'
  BY DEF TypeOK, CapacityInv, CapacityTrue, StatusInv, StatusBacked, SnapshotInv,
         SnapshotFits, Fresh, NoFault, Unstage
<1>6. QED
  BY <1>1, <1>2, <1>3, <1>4, <1>5

\* A call is given up; its handler goes on.
LEMMA GiveUpStep ==
  ASSUME SizeInv, NEW h \in Handlers, GiveUp(h)
  PROVE  SizeInv'
<1> USE ConstantsAssumption DEF ConstantsAssumption, SizeInv
<1> USE DEF storage, claims, locals, Goto
<1>1. TypeOK'
  BY FaultsBounded DEF TypeOK, Steps, RPCs, GiveUp
<1>2. HandlerInv'
  BY DEF TypeOK, HandlerInv, RPCs, GiveUp
<1>3. CapacityInv'
  BY DEF TypeOK, HandlerInv, CapacityInv, CapacityTrue, Fresh, RPCs, GiveUp
<1>4. SnapshotInv'
  BY DEF TypeOK, HandlerInv, CapacityInv, SnapshotInv, SnapshotFits, GiveUp
<1>5. StatusInv'
  BY DEF TypeOK, CapacityInv, CapacityTrue, StatusInv, StatusBacked, SnapshotInv,
         SnapshotFits, Fresh, GiveUp
<1>6. QED
  BY <1>1, <1>2, <1>3, <1>4, <1>5

\* A stuttering step.
LEMMA Stutter ==
  ASSUME SizeInv, UNCHANGED vars
  PROVE  SizeInv'
<1> USE ConstantsAssumption DEF ConstantsAssumption, SizeInv
<1> USE DEF storage, claims, locals, Goto
<1>1. TypeOK'
  BY FaultsBounded DEF TypeOK, Steps, RPCs, NoFault, vars
<1>2. HandlerInv'
  BY DEF TypeOK, HandlerInv, RPCs, NoFault, vars
<1>3. CapacityInv'
  BY DEF TypeOK, HandlerInv, CapacityInv, CapacityTrue, Fresh, RPCs, NoFault, vars
<1>4. SnapshotInv'
  BY DEF TypeOK, HandlerInv, CapacityInv, SnapshotInv, SnapshotFits, NoFault, vars
<1>5. StatusInv'
  BY DEF TypeOK, CapacityInv, CapacityTrue, StatusInv, StatusBacked, SnapshotInv,
         SnapshotFits, Fresh, NoFault, vars
<1>6. QED
  BY <1>1, <1>2, <1>3, <1>4, <1>5

\* Resize2fs, or the volume is not staged any more.
LEMMA ResizeStep ==
  ASSUME SizeInv, NEW h \in Handlers, Resize(h)
  PROVE  SizeInv'
<1> DEFINE v == vol[h]
<1>1. pc[h] # "idle" /\ op[h] = "NodeExpand"
  BY DEF SizeInv, HandlerInv, Resize
<1>2. CASE Fails(h, "resize") \/ v \notin staged
  BY <1>1, <1>2, Failed DEF Fails, Resize
<1>3. CASE ~Fails(h, "resize") /\ v \in staged
  <2> USE DEF SizeInv, claims, locals, Goto
  <2>0. PICK d \in Shown(v) : fs' = [fs EXCEPT ![v] = d]
    BY <1>3 DEF Resize
  <2>1. /\ Goto(h, "ok") /\ NoFault
        /\ UNCHANGED <<size, staged, locals, awaited, claims>>
    BY <1>3 DEF Resize
  <2>2. v \in Vols /\ size[v] \in Nat /\ size[v] # 0 /\ fs[v] <= size[v]
    BY <1>1, Serving, ConstantsAssumption DEF ConstantsAssumption, RPCs, CapacityInv
  <2>3. /\ d \in Nat /\ fs[v] \in Nat /\ fs[v] <= d /\ d <= size[v]
        /\ ~MayLag => d = size[v]
    BY <2>2, ShownSizes
  <2>4. /\ \A u \in Vols : fs'[u] \in Nat /\ fs[u] \in Nat /\ fs[u] <= fs'[u]
        /\ \A u \in Vols \ {v} : fs'[u] = fs[u]
        /\ fs'[v] = d
    BY <2>0, <2>2, <2>3 DEF TypeOK
  <2>5. TypeOK'
    BY <2>0, <2>1, <2>2, <2>3, FaultsBounded DEF TypeOK, Steps
  <2>6. HandlerInv'
    BY <1>1, <2>1 DEF TypeOK, HandlerInv
  <2>7. CapacityInv'
    BY <1>1, <2>1 DEF TypeOK, CapacityInv, CapacityTrue, Fresh
  <2>8. SnapshotInv'
    <3>1. \A u \in Vols : fs'[u] <= size[u]
      BY <2>2, <2>3, <2>4 DEF TypeOK, SnapshotInv, SnapshotFits
    <3>2. QED
      BY <1>1, <2>1, <3>1 DEF TypeOK, SnapshotInv, SnapshotFits
  <2>9. StatusInv'
    <3>1. ASSUME StatusBacked, ~MayLag PROVE StatusBacked'
      <4>1. d = size[v]
        BY <2>3, <3>1
      <4>2. \A u \in Vols : Fresh(u) =>
              status[u] <= size[u] /\ (fs'[u] # 0 => status[u] <= fs'[u])
        BY <2>2, <2>4, <3>1, <4>1 DEF TypeOK, StatusBacked
      <4>3. \A g \in Handlers : op[g] = "NodeExpand" /\ Fresh(vol[g]) =>
              /\ arg[g] <= size[vol[g]]
              /\ pc'[g] = "ok" => fs'[vol[g]] # 0 /\ arg[g] <= fs'[vol[g]]
        <5>1. \A g \in Handlers \ {h} : pc'[g] = pc[g]
          BY <2>1 DEF TypeOK
        <5>2. \A g \in Handlers : op[g] = "NodeExpand" =>
                vol[g] \in Vols /\ arg[g] \in Nat
          BY ConstantsAssumption DEF ConstantsAssumption, RPCs, TypeOK, HandlerInv
        <5>3. QED
          BY <1>1, <2>2, <2>4, <3>1, <4>1, <5>1, <5>2 DEF TypeOK, StatusBacked
      <4>4. QED
        BY <2>1, <4>2, <4>3 DEF StatusBacked, Fresh
    <3>2. \A u \in Vols : u \in staged => fs'[u] # 0
      BY <2>4 DEF StatusInv
    <3>3. \A u \in Vols : cap[u] = 0 => fs'[u] = 0 \/ ~Fresh(u)
      BY <1>3, <2>4 DEF StatusInv
    <3>4. QED
      BY <2>1, <3>1, <3>2, <3>3 DEF StatusInv, Fresh
  <2>10. QED
    BY <2>5, <2>6, <2>7, <2>8, <2>9
<1>4. QED
  BY <1>2, <1>3

\* An answer: the handler is done, and the orchestrator learns what it said if
\* it still waits for it.
LEMMA ReturnStep ==
  ASSUME SizeInv, NEW h \in Handlers, Return(h)
  PROVE  SizeInv'
<1> DEFINE v == vol[h]
<1> USE DEF SizeInv, storage, Goto
<1>1. /\ pc[h] # "idle" /\ pc'[h] = "idle" /\ op'[h] = None /\ vol'[h] = None
      /\ taken'[h] = None
      /\ \A g \in Handlers \ {h} :
           /\ pc'[g] = pc[g] /\ op'[g] = op[g] /\ vol'[g] = vol[g] /\ arg'[g] = arg[g]
           /\ taken'[g] = taken[g] /\ told'[g] = told[g]
      /\ UNCHANGED <<size, fs, staged>>
      /\ awaited' = awaited \ {h}
  BY DEF TypeOK, Return
<1>2. HandlerInv'
  BY <1>1 DEF TypeOK, HandlerInv
<1>3. /\ v \in Vols /\ op[h] \in RPCs /\ arg[h] \in Nat /\ told[h] \in Nat
      /\ size[v] \in Nat /\ fs[v] \in Nat
  BY <1>1, Serving
<1>4. CASE ~(pc[h] = "ok" /\ h \in awaited)
  <2>1. UNCHANGED claims
    BY <1>4 DEF Return
  <2>2. TypeOK'
    BY <2>1, FaultsBounded DEF TypeOK, Steps, Return, claims, NoFault
  <2>3. CapacityInv'
    BY <1>1, <2>1, ConstantsAssumption
    DEF ConstantsAssumption, RPCs, CapacityInv, CapacityTrue, Fresh, claims
  <2>4. SnapshotInv'
    BY <1>1, <2>1 DEF SnapshotInv, SnapshotFits, claims
  <2>5. StatusInv'
    BY <1>1, <2>1, ConstantsAssumption
    DEF ConstantsAssumption, RPCs, TypeOK, StatusInv, StatusBacked, Fresh, claims
  <2>6. QED
    BY <1>2, <2>2, <2>3, <2>4, <2>5
<1>5. CASE pc[h] = "ok" /\ h \in awaited
  <2>1. Learn(h)
    BY <1>5 DEF Return
  <2>2. CASE op[h] = "CreateVolume"
    <3>1. /\ asked' = [asked EXCEPT ![v] = arg[h]]
          /\ cap' = [cap EXCEPT ![v] = told[h]]
          /\ status' = [status EXCEPT ![v] = told[h]]
          /\ UNCHANGED <<want, snap>>
      BY <2>1, <2>2 DEF Learn
    <3>2. TypeOK'
      BY <1>3, <3>1, FaultsBounded DEF TypeOK, Steps, Return, NoFault
    <3>3. CapacityInv'
      BY <1>1, <1>3, <1>5, <2>2, <3>1, ConstantsAssumption
      DEF ConstantsAssumption, RPCs, TypeOK, HandlerInv, CapacityInv, CapacityTrue, Fresh
    <3>4. SnapshotInv'
      BY <1>1, <3>1 DEF SnapshotInv, SnapshotFits
    <3>5. StatusInv'
      BY <1>1, <1>3, <1>5, <2>2, <3>1, ConstantsAssumption
      DEF ConstantsAssumption, RPCs, TypeOK, HandlerInv, CapacityInv, StatusInv,
          StatusBacked, Fresh
    <3>6. QED
      BY <1>2, <3>2, <3>3, <3>4, <3>5
  <2>3. CASE op[h] = "ControllerExpand"
    <3>1. /\ asked' = [asked EXCEPT ![v] = arg[h]]
          /\ cap' = [cap EXCEPT ![v] = told[h]]
          /\ UNCHANGED <<want, status, snap>>
      BY <2>1, <2>3 DEF Learn
    <3>2. TypeOK'
      BY <1>3, <3>1, FaultsBounded DEF TypeOK, Steps, Return, NoFault
    <3>3. CapacityInv'
      BY <1>1, <1>3, <1>5, <2>3, <3>1, ConstantsAssumption
      DEF ConstantsAssumption, RPCs, TypeOK, HandlerInv, CapacityInv, CapacityTrue, Fresh
    <3>4. SnapshotInv'
      BY <1>1, <3>1 DEF SnapshotInv, SnapshotFits
    <3>5. StatusInv'
      BY <1>1, <1>3, <1>5, <2>3, <3>1, ConstantsAssumption
      DEF ConstantsAssumption, RPCs, TypeOK, HandlerInv, CapacityInv, StatusInv,
          StatusBacked, Fresh
    <3>6. QED
      BY <1>2, <3>2, <3>3, <3>4, <3>5
  <2>4. CASE op[h] = "NodeExpand"
    <3>1. /\ status' = [status EXCEPT ![v] = arg[h]]
          /\ UNCHANGED <<want, asked, cap, snap>>
      BY <2>1, <2>4 DEF Learn
    <3>2. TypeOK'
      BY <1>3, <3>1, FaultsBounded DEF TypeOK, Steps, Return, NoFault
    <3>3. CapacityInv'
      BY <1>1, <3>1, ConstantsAssumption
      DEF ConstantsAssumption, RPCs, CapacityInv, CapacityTrue, Fresh
    <3>4. SnapshotInv'
      BY <1>1, <3>1 DEF SnapshotInv, SnapshotFits
    <3>5. StatusInv'
      BY <1>1, <1>3, <1>5, <2>4, <3>1, ConstantsAssumption
      DEF ConstantsAssumption, RPCs, TypeOK, StatusInv, StatusBacked, Fresh
    <3>6. QED
      BY <1>2, <3>2, <3>3, <3>4, <3>5
  <2>5. CASE op[h] = "CreateSnapshot"
    <3> DEFINE r == [size |-> taken[h].size, fs |-> taken[h].fs, told |-> told[h]]
    <3>1. /\ snap' = [snap EXCEPT ![v] = r]
          /\ UNCHANGED <<want, asked, cap, status>>
      BY <2>1, <2>5 DEF Learn
    <3>2. taken[h] \in [size : Nat, fs : Nat]
      BY <1>5, <2>5 DEF TypeOK, SnapshotInv
    <3>3. /\ r \in [size : Nat, fs : Nat, told : Nat] /\ r # None
          /\ r.size # 0 /\ r.fs <= r.size /\ r.size <= r.told
      BY <1>3, <1>5, <2>5, <3>2, ConstantsAssumption DEF ConstantsAssumption, SnapshotInv
    <3> HIDE DEF r
    <3>4. snap'[v] = r /\ \A u \in Vols \ {v} : snap'[u] = snap[u]
      BY <1>3, <3>1 DEF TypeOK
    <3>5. TypeOK'
      BY <1>3, <3>1, <3>3, FaultsBounded DEF TypeOK, Steps, Return, NoFault
    <3>6. CapacityInv'
      BY <1>1, <3>1, <3>3, <3>4, ConstantsAssumption
      DEF ConstantsAssumption, RPCs, TypeOK, HandlerInv, CapacityInv, CapacityTrue, Fresh
    <3>7. SnapshotInv'
      BY <1>1, <3>3, <3>4 DEF SnapshotInv, SnapshotFits
    <3>8. StatusInv'
      BY <1>1, <3>1, ConstantsAssumption
      DEF ConstantsAssumption, RPCs, TypeOK, StatusInv, StatusBacked, Fresh
    <3>9. QED
      BY <1>2, <3>5, <3>6, <3>7, <3>8
  <2>6. QED
    BY <1>3, <2>2, <2>3, <2>4, <2>5 DEF RPCs
<1>6. QED
  BY <1>4, <1>5

-----------------------------------------------------------------------------

\* Nothing has a size before the first call.
LEMMA SizeInvInit == Init => SizeInv
<1> SUFFICES ASSUME Init PROVE SizeInv
  OBVIOUS
<1> USE ConstantsAssumption DEF ConstantsAssumption, Init
<1>1. TypeOK
  BY DEF TypeOK, Steps
<1>2. HandlerInv
  BY DEF HandlerInv
<1>3. CapacityInv
  BY DEF CapacityInv, CapacityTrue, RPCs
<1>4. SnapshotInv
  BY DEF SnapshotInv, SnapshotFits
<1>5. StatusInv
  BY DEF StatusInv, StatusBacked, RPCs
<1>6. QED
  BY <1>1, <1>2, <1>3, <1>4, <1>5 DEF SizeInv

\* The invariant is inductive.
LEMMA SizeInvNext == SizeInv /\ [Next]_vars => SizeInv'
<1> SUFFICES ASSUME SizeInv, [Next]_vars PROVE SizeInv'
  OBVIOUS
<1>1. ASSUME NEW h \in Handlers, Step(h) PROVE SizeInv'
  BY <1>1, PostStep, SnapStep, MeasureStep, PutStep, NeedStep, ResizeStep, ReturnStep DEF Step
<1>2. ASSUME NEW h \in Handlers, NEW v \in Vols,
             CallCreate(h, v) \/ CallSnapshot(h, v) \/ CallExpand(h, v) \/ CallNodeExpand(h, v)
      PROVE  SizeInv'
  BY <1>2, CallCreateStep, CallSnapshotStep, CallExpandStep, CallNodeExpandStep
<1>3. ASSUME NEW v \in Vols, Raise(v) \/ Stage(v) \/ Unstage(v) PROVE SizeInv'
  BY <1>3, RaiseStep, StageStep, UnstageStep
<1>4. QED
  BY <1>1, <1>2, <1>3, GiveUpStep, Stutter DEF Next

\* Every reachable state has the inductive invariant: CreateVolume,
\* ControllerExpandVolume, CreateSnapshot and NodeExpandVolume, without any lock
\* between them, agree about sizes as far as the cluster and the host let them.
THEOREM SizeInvariance == Spec => []SizeInv
  BY SizeInvInit, SizeInvNext, PTL DEF Spec

\* The capacity that CreateVolume and ControllerExpandVolume answered with covers
\* the size that was asked for, and the lvol has it: provided that the cluster
\* refuses no growing resize, since ControllerExpandVolume ignores a refusal.
THEOREM CapacityInvariance ==
  ASSUME ~MayRefuse
  PROVE  Spec => []CapacityTrue
<1>1. SizeInv => CapacityTrue
  BY DEF SizeInv, CapacityInv
<1>2. QED
  BY <1>1, SizeInvariance, PTL

\* The file system of a staged volume has the size that NodeExpandVolume let the
\* claim's status show: provided that the cluster refuses no growing resize and
\* that the host sees the new size before NodeExpandVolume looks.
THEOREM StatusInvariance ==
  ASSUME ~MayRefuse, ~MayLag
  PROVE  Spec => []StatusTrue
<1>1. SizeInv => StatusTrue
  BY DEF SizeInv, TypeOK, StatusInv, StatusBacked, StatusTrue
<1>2. QED
  BY <1>1, SizeInvariance, PTL

\* SizeBytes of a snapshot cover what CreateSnapshot took, though the source may be
\* expanded between its POST and its GET, and a restored volume has no truncated
\* file system: also when resizes are refused or seen late.
THEOREM SnapshotInvariance == Spec => []SnapshotFits
<1>1. SizeInv => SnapshotFits
  BY DEF SizeInv, SnapshotInv
<1>2. QED
  BY <1>1, SizeInvariance, PTL
=============================================================================
