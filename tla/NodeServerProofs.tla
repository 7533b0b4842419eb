-------------------------- MODULE NodeServerProofs --------------------------
(***************************************************************************)
(* Proofs about NodeServer for every number of handlers, volumes,          *)
(* subsystems, connections and faults.                                     *)
(***************************************************************************)
EXTENDS NodeServer, TLAPS

Past == Steps \ {"idle", "lock"}

\* The host, as TypeOK has it.
HostOK ==
  /\ exists \subseteq Vols
  /\ paths \in [Subsystems -> SUBSET (1..NPaths)]
  /\ mnt \in [Vols -> {"none", "live", "dead"}]
  /\ stash \in [Vols -> BOOLEAN]
  /\ binds \in [Vols -> 0..MaxBinds]

\* Handler h, as it is, may be at step x.
Permitted(h, x) ==
  /\ x \in Past
  /\ x \in {"check", "nqn", "fetch", "conn", "undo", "undocut", "wait", "mount",
            "tune", "stash"} => op[h] = "Stage"
  /\ x \in {"glob", "drop", "dropcut", "gone"} => op[h] \in {"Stage", "Unstage"}
  /\ x \in {"umount", "lookup", "clean"} => op[h] = "Unstage"
  /\ x = "bind" => op[h] = "Publish"
  /\ x = "unbind" => op[h] = "Unpublish"

\* What the steps between Lock and Return have in common.
Progress(h) ==
  /\ pc[h] \in Past
  /\ \E x \in Past :
       /\ Permitted(h, x) /\ Goto(h, x)
       /\ x = "ok" /\ pc[h] # "unbind" => op[h] # "Unpublish"
  /\ NoFault \/ Fault
  /\ UNCHANGED <<lock, op, vol, know, await>>
  /\ HostOK'
  /\ idx' \in [Handlers -> 1..NPaths]
  /\ todo' \in [Handlers -> SUBSET (1..NPaths)]
  /\ pc[h] \notin {"bind", "unbind"} => binds' = binds

\* The fault budget is never exceeded.
LEMMA FaultsBounded ==
  ASSUME TypeOK, NoFault \/ Fault
  PROVE  faults' \in 0..MaxFaults
  BY ConstantsAssumption DEF ConstantsAssumption, TypeOK, NoFault, Fault

\* The invariant holds when the node plugin starts.
LEMMA NodeInvInit == Init => NodeInv
  BY ConstantsAssumption
  DEF ConstantsAssumption, Init, NodeInv, TypeOK, HandlerInv, HandlerOK, LockDiscipline,
      CallInv, Steps, RPCs

\* A step between Lock and Return keeps the invariant.
LEMMA ProgressKeeps ==
  ASSUME NodeInv, NEW h \in Handlers, Progress(h)
  PROVE  NodeInv'
<1> USE DEF NodeInv
<1>1. PICK x \in Past : Permitted(h, x) /\ Goto(h, x)
  BY DEF Progress
<1>2. pc[h] \in Past /\ UNCHANGED <<lock, op, vol, know, await>>
  BY DEF Progress
<1>3. TypeOK'
  <2>1. faults' \in 0..MaxFaults
    BY FaultsBounded DEF Progress
  <2>2. pc' \in [Handlers -> Steps]
    BY <1>1 DEF Goto, TypeOK, Past
  <2>3. QED
    BY <1>2, <2>1, <2>2 DEF TypeOK, Progress, HostOK
<1>4. HandlerInv'
  <2>1. HandlerOK(h)'
    BY <1>1, <1>2 DEF Goto, TypeOK, Permitted, HandlerInv, HandlerOK, Past
  <2>2. ASSUME NEW g \in Handlers, g # h PROVE HandlerOK(g)'
    BY <1>1, <1>2, <2>2 DEF Goto, TypeOK, HandlerInv, HandlerOK
  <2>3. QED
    BY <2>1, <2>2 DEF HandlerInv
<1>5. LockDiscipline'
  BY <1>1, <1>2, ConstantsAssumption
  DEF ConstantsAssumption, Goto, TypeOK, LockDiscipline, Past
<1>6. CallInv'
  BY <1>1, <1>2 DEF Goto, TypeOK, CallInv, Past
<1>7. QED
  BY <1>3, <1>4, <1>5, <1>6

\* A step that leaves the host alone is progress.
LEMMA MovesProgress ==
  ASSUME NodeInv, NEW h \in Handlers, pc[h] \in Past, NEW x, Permitted(h, x),
         x = "ok" /\ pc[h] # "unbind" => op[h] # "Unpublish",
         Moves(h, x) \/ \E c \in Commands : Fails(h, c, x)
  PROVE  Progress(h)
<1>1. /\ Goto(h, x) /\ (NoFault \/ Fault)
      /\ UNCHANGED <<exists, paths, mnt, stash, binds, lock, op, vol, idx, todo, know, await>>
  BY DEF Moves, Fails, NoFault, host, locals, kubelet
<1>2. HostOK' /\ idx' \in [Handlers -> 1..NPaths]
      /\ todo' \in [Handlers -> SUBSET (1..NPaths)]
  BY <1>1 DEF NodeInv, TypeOK, HostOK
<1>3. x \in Past
  BY DEF Permitted
<1>4. QED
  BY <1>1, <1>2, <1>3 DEF Progress

\* Replacing the controllers of a subsystem keeps the host well typed.
LEMMA PathsTyped ==
  ASSUME TypeOK, NEW s \in Subsystems, NEW new \in SUBSET (1..NPaths), SetPaths(s, new)
  PROVE  /\ paths' \in [Subsystems -> SUBSET (1..NPaths)]
         /\ mnt' \in [Vols -> {"none", "live", "dead"}]
  BY DEF TypeOK, SetPaths

\* A handler past Lock serves a volume, whose subsystem is known.
LEMMA Serving ==
  ASSUME NodeInv, NEW h \in Handlers, pc[h] \in Past
  PROVE  vol[h] \in Vols /\ Subsys(h) \in Subsystems /\ op[h] \in RPCs
  BY ConstantsAssumption
  DEF ConstantsAssumption, NodeInv, TypeOK, HandlerInv, HandlerOK, Past, Subsys

\* Check, Nqn, Fetch, Wait, Tune, Glob, Gone and Lookup leave the host alone.
LEMMA ReadingSteps ==
  ASSUME NodeInv, NEW h \in Handlers,
         \/ Check(h) \/ Nqn(h) \/ Fetch(h) \/ Wait(h) \/ Tune(h) \/ Glob(h)
         \/ Gone(h) \/ Lookup(h)
  PROVE  Progress(h)
<1> USE DEF NodeInv, HandlerInv, HandlerOK, Permitted, Past, Steps
<1>1. CASE Check(h)
  <2>1. pc[h] = "check" /\ op[h] = "Stage"
    BY <1>1 DEF Check
  <2>2. PICK x \in {"ok", "nqn", "err"} : Moves(h, x) \/ \E c \in Commands : Fails(h, c, x)
    BY <1>1 DEF Check, Commands
  <2>3. QED
    BY <2>1, <2>2, MovesProgress
<1>2. CASE Nqn(h)
  <2>1. pc[h] = "nqn" /\ op[h] = "Stage"
    BY <1>2 DEF Nqn
  <2>2. PICK x \in {"wait", "fetch", "err"} : Moves(h, x) \/ \E c \in Commands : Fails(h, c, x)
    BY <1>2 DEF Nqn, Commands
  <2>3. QED
    BY <2>1, <2>2, MovesProgress
<1>3. CASE Fetch(h)
  <2>1. pc[h] = "fetch" /\ op[h] = "Stage"
    BY <1>3 DEF Fetch
  <2>2. PICK x \in {"conn", "err"} : Moves(h, x) \/ \E c \in Commands : Fails(h, c, x)
    BY <1>3 DEF Fetch, Commands
  <2>3. QED
    BY <2>1, <2>2, MovesProgress
<1>4. CASE Wait(h)
  <2>1. pc[h] = "wait" /\ op[h] = "Stage"
    BY <1>4 DEF Wait
  <2>2. PICK x \in {"stash", "mount", "err"} : Moves(h, x) \/ \E c \in Commands : Fails(h, c, x)
    BY <1>4 DEF Wait, Commands
  <2>3. QED
    BY <2>1, <2>2, MovesProgress
<1>5. CASE Tune(h)
  <2>1. pc[h] = "tune" /\ op[h] = "Stage"
    BY <1>5 DEF Tune
  <2>2. PICK x \in {"stash", "glob"} : Moves(h, x) \/ \E c \in Commands : Fails(h, c, x)
    BY <1>5 DEF Tune, Commands
  <2>3. QED
    BY <2>1, <2>2, MovesProgress
<1>6. CASE Glob(h)
  <2>1. pc[h] = "glob" /\ op[h] \in {"Stage", "Unstage"}
    BY <1>6 DEF Glob
  <2>2. PICK x \in {AfterDisconnect(h), "drop", "gone"} : Moves(h, x)
    BY <1>6 DEF Glob
  <2>3. Permitted(h, x) /\ x # "ok"
    BY <2>1, <2>2 DEF AfterDisconnect
  <2>4. QED
    BY <2>1, <2>2, <2>3, MovesProgress
<1>7. CASE Gone(h)
  <2>1. pc[h] = "gone" /\ op[h] \in {"Stage", "Unstage"}
    BY <1>7 DEF Gone
  <2>2. PICK x \in {AfterDisconnect(h), "err"} : Moves(h, x)
    BY <1>7 DEF Gone
  <2>3. Permitted(h, x) /\ x # "ok"
    BY <2>1, <2>2 DEF AfterDisconnect
  <2>4. QED
    BY <2>1, <2>2, <2>3, MovesProgress
<1>8. CASE Lookup(h)
  <2>1. pc[h] = "lookup" /\ op[h] = "Unstage"
    BY <1>8 DEF Lookup
  <2>2. PICK x \in {"glob", "err"} : Moves(h, x)
    BY <1>8 DEF Lookup
  <2>3. QED
    BY <2>1, <2>2, MovesProgress
<1>9. QED
  BY <1>1, <1>2, <1>3, <1>4, <1>5, <1>6, <1>7, <1>8

\* Mount, Stash, Umount and Clean change one file of the host.
LEMMA FileSteps ==
  ASSUME NodeInv, NEW h \in Handlers,
         Mount(h) \/ Stash(h) \/ Umount(h) \/ Clean(h)
  PROVE  Progress(h)
<1> USE DEF NodeInv, HandlerInv, HandlerOK, Permitted, Past, Steps
<1>1. CASE Mount(h)
  <2>1. pc[h] = "mount" /\ op[h] = "Stage"
    BY <1>1 DEF Mount
  <2>2. CASE Moves(h, "glob") \/ Fails(h, "mount", "glob")
    BY <2>1, <2>2, MovesProgress DEF Commands
  <2>3. CASE /\ NoFault /\ mnt' = [mnt EXCEPT ![vol[h]] = "live"] /\ Goto(h, "tune")
             /\ UNCHANGED <<exists, paths, stash, binds, lock, locals, kubelet>>
    BY <2>1, <2>3 DEF Progress, HostOK, TypeOK, locals, kubelet
  <2>4. QED
    BY <1>1, <2>2, <2>3 DEF Mount
<1>2. CASE Stash(h)
  <2>1. pc[h] = "stash" /\ op[h] = "Stage"
    BY <1>2 DEF Stash
  <2>2. CASE Fails(h, "stash", "glob")
    BY <2>1, <2>2, MovesProgress DEF Commands
  <2>3. CASE /\ NoFault /\ stash' = [stash EXCEPT ![vol[h]] = TRUE] /\ Goto(h, "ok")
             /\ UNCHANGED <<exists, paths, mnt, binds, lock, locals, kubelet>>
    BY <2>1, <2>3 DEF Progress, HostOK, TypeOK, locals, kubelet
  <2>4. QED
    BY <1>2, <2>2, <2>3 DEF Stash
<1>3. CASE Umount(h)
  <2>1. pc[h] = "umount" /\ op[h] = "Unstage"
    BY <1>3 DEF Umount
  <2>2. CASE Fails(h, "umount", "err")
    BY <2>1, <2>2, MovesProgress DEF Commands
  <2>3. CASE /\ NoFault \/ Fault
             /\ mnt' = [mnt EXCEPT ![vol[h]] = "none"]
             /\ \E x \in {"lookup", "err"} : Goto(h, x)
             /\ UNCHANGED <<exists, paths, stash, binds, lock, locals, kubelet>>
    BY <2>1, <2>3 DEF Progress, HostOK, TypeOK, locals, kubelet
  <2>4. QED
    BY <1>3, <2>2, <2>3 DEF Umount
<1>4. CASE Clean(h)
  <2>1. pc[h] = "clean" /\ op[h] = "Unstage"
    BY <1>4 DEF Clean
  <2>2. CASE Fails(h, "clean", "err")
    BY <2>1, <2>2, MovesProgress DEF Commands
  <2>3. CASE /\ NoFault /\ stash' = [stash EXCEPT ![vol[h]] = FALSE] /\ Goto(h, "ok")
             /\ UNCHANGED <<exists, paths, mnt, binds, lock, locals, kubelet>>
    BY <2>1, <2>3 DEF Progress, HostOK, TypeOK, locals, kubelet
  <2>4. QED
    BY <1>4, <2>2, <2>3 DEF Clean
<1>5. QED
  BY <1>1, <1>2, <1>3, <1>4

\* Bind and Unbind change the mounts at the target path.
LEMMA BindSteps ==
  ASSUME NodeInv, NEW h \in Handlers, Bind(h) \/ Unbind(h)
  PROVE  Progress(h)
<1> USE DEF NodeInv, HandlerInv, HandlerOK, Permitted, Past, Steps
<1>1. CASE Bind(h)
  <2>1. pc[h] = "bind" /\ op[h] = "Publish"
    BY <1>1 DEF Bind
  <2>2. CASE \E x \in {"ok", "err"} : Moves(h, x) \/ Fails(h, "bind", x)
    BY <2>1, <2>2, MovesProgress DEF Commands
  <2>3. CASE /\ NoFault /\ binds[vol[h]] < MaxBinds /\ Goto(h, "ok")
             /\ binds' = [binds EXCEPT ![vol[h]] = binds[vol[h]] + 1]
             /\ UNCHANGED <<exists, paths, mnt, stash, lock, locals, kubelet>>
    <3>1. vol[h] \in Vols
      BY <2>1, Serving
    <3>2. binds' \in [Vols -> 0..MaxBinds]
      BY <2>3, <3>1, ConstantsAssumption DEF ConstantsAssumption, TypeOK
    <3>3. QED
      BY <2>1, <2>3, <3>2 DEF Progress, HostOK, TypeOK, locals, kubelet
  <2>4. QED
    BY <1>1, <2>2, <2>3 DEF Bind
<1>2. CASE Unbind(h)
  <2>1. pc[h] = "unbind" /\ op[h] = "Unpublish"
    BY <1>2 DEF Unbind
  <2>2. CASE Fails(h, "umount", "err")
    BY <2>1, <2>2, MovesProgress DEF Commands
  <2>3. CASE /\ NoFault \/ Fault
             /\ binds' = [binds EXCEPT ![vol[h]] =
                            IF binds[vol[h]] = 0 THEN 0 ELSE binds[vol[h]] - 1]
             /\ \E x \in {"err", "ok"} : Goto(h, x)
             /\ UNCHANGED <<exists, paths, mnt, stash, lock, locals, kubelet>>
    <3>1. vol[h] \in Vols
      BY <2>1, Serving
    <3>2. binds' \in [Vols -> 0..MaxBinds]
      BY <2>3, <3>1, ConstantsAssumption DEF ConstantsAssumption, TypeOK
    <3>3. QED
      BY <2>1, <2>3, <3>2 DEF Progress, HostOK, TypeOK, locals, kubelet
  <2>4. QED
    BY <1>2, <2>2, <2>3 DEF Unbind
<1>3. QED
  BY <1>1, <1>2

\* nvme connect.
LEMMA ConnStep ==
  ASSUME NodeInv, NEW h \in Handlers, Conn(h)
  PROVE  Progress(h)
<1> USE DEF NodeInv, HandlerInv, HandlerOK, Permitted, Past, Steps
<1>1. pc[h] = "conn" /\ op[h] = "Stage"
  BY DEF Conn
<1>2. /\ Subsys(h) \in Subsystems /\ idx[h] \in 1..NPaths
      /\ paths[Subsys(h)] \cup {idx[h]} \in SUBSET (1..NPaths)
  BY <1>1, Serving DEF TypeOK
<1>3. AfterFailure(idx[h]) \in {"undo", "err"}
  BY DEF AfterFailure
<1>4. CASE \/ Moves(h, AfterFailure(idx[h]))
           \/ Fails(h, "connect", AfterFailure(idx[h]))
  BY <1>1, <1>3, <1>4, MovesProgress DEF Commands
<1>5. CASE /\ Fault /\ SetPaths(Subsys(h), paths[Subsys(h)] \cup {idx[h]})
           /\ Goto(h, AfterFailure(idx[h]))
           /\ UNCHANGED <<exists, stash, binds, lock, locals, kubelet>>
  BY <1>1, <1>2, <1>3, <1>5, PathsTyped DEF Progress, HostOK, TypeOK, locals, kubelet
<1>6. CASE /\ NoFault /\ SetPaths(Subsys(h), paths[Subsys(h)] \cup {idx[h]})
           /\ \/ /\ idx[h] < PathsOf[Subsys(h)] /\ Goto(h, "conn")
                 /\ idx' = [idx EXCEPT ![h] = idx[h] + 1]
              \/ Goto(h, "wait") /\ UNCHANGED idx
           /\ UNCHANGED <<exists, stash, binds, lock, op, vol, todo, kubelet>>
  <2>1. idx' \in [Handlers -> 1..NPaths]
    <3>1. idx[h] < PathsOf[Subsys(h)] => idx[h] + 1 \in 1..NPaths
      <4>1. NPaths \in Nat /\ PathsOf[Subsys(h)] \in 1..NPaths
        BY <1>2, ConstantsAssumption DEF ConstantsAssumption
      <4>2. QED
        BY <1>2, <4>1
    <3>2. QED
      BY <1>6, <3>1 DEF TypeOK
  <2>2. HostOK'
    BY <1>2, <1>6, PathsTyped DEF HostOK, TypeOK
  <2>3. \E x \in Past : Permitted(h, x) /\ Goto(h, x) /\ x # "ok"
    BY <1>1, <1>6
  <2>4. QED
    BY <1>1, <1>6, <2>1, <2>2, <2>3 DEF Progress, TypeOK, kubelet
<1>7. QED
  BY <1>4, <1>5, <1>6 DEF Conn

\* disconnectDevicePath, for the undo of Connect and for Disconnect.
LEMMA DisconnectSteps ==
  ASSUME NodeInv, NEW h \in Handlers, Undo(h) \/ Drop(h) \/ Cut(h)
  PROVE  Progress(h)
<1> USE DEF NodeInv, HandlerInv, HandlerOK, Permitted, Past, Steps
<1>1. ASSUME NEW cut \in {"undocut", "dropcut"}, Permitted(h, cut), pc[h] \in {"undo", "drop"},
             Resolve(h, cut)
      PROVE  Progress(h)
  <2>1. CASE Moves(h, "err") \/ Fails(h, "resolve", "err")
    BY <1>1, <2>1, MovesProgress DEF Commands
  <2>2. CASE /\ NoFault /\ todo' = [todo EXCEPT ![h] = paths[Subsys(h)]]
             /\ Goto(h, cut) /\ UNCHANGED <<host, lock, op, vol, idx, kubelet>>
    <3>1. paths[Subsys(h)] \in SUBSET (1..NPaths)
      BY <1>1, Serving DEF TypeOK
    <3>2. todo' \in [Handlers -> SUBSET (1..NPaths)]
      BY <2>2, <3>1 DEF TypeOK
    <3>3. HostOK'
      BY <2>2 DEF HostOK, TypeOK, host
    <3>4. QED
      BY <1>1, <2>2, <3>2, <3>3 DEF Progress, TypeOK, host, kubelet
  <2>3. QED
    BY <1>1, <2>1, <2>2 DEF Resolve
<1>2. CASE Undo(h)
  <2>1. pc[h] = "undo" /\ op[h] = "Stage"
    BY <1>2 DEF Undo
  <2>2. CASE Moves(h, "err") \/ Fails(h, "device", "err")
    BY <2>1, <2>2, MovesProgress DEF Commands
  <2>3. CASE Resolve(h, "undocut")
    BY <1>1, <2>1, <2>3
  <2>4. QED
    BY <1>2, <2>2, <2>3 DEF Undo
<1>3. CASE Drop(h)
  <2>1. pc[h] = "drop" /\ op[h] \in {"Stage", "Unstage"} /\ Resolve(h, "dropcut")
    BY <1>3 DEF Drop
  <2>2. QED
    BY <1>1, <2>1
<1>4. CASE Cut(h)
  <2>1. /\ pc[h] \in {"undocut", "dropcut"}
        /\ pc[h] = "undocut" => op[h] = "Stage"
        /\ pc[h] = "dropcut" => op[h] \in {"Stage", "Unstage"}
    BY <1>4 DEF Cut
  <2>2. CASE Moves(h, IF pc[h] = "undocut" THEN "err" ELSE "gone")
    BY <2>1, <2>2, MovesProgress
  <2>3. CASE \E p \in todo[h] :
          /\ todo' = [todo EXCEPT ![h] = todo[h] \ {p}]
          /\ \/ NoFault /\ SetPaths(Subsys(h), paths[Subsys(h)] \ {p})
             \/ "disconnect" \in MayFail /\ Fault /\ UNCHANGED <<paths, mnt>>
          /\ UNCHANGED <<exists, stash, binds, lock, pc, op, vol, idx, kubelet>>
    <3>1. PICK p \in todo[h] :
          /\ todo' = [todo EXCEPT ![h] = todo[h] \ {p}]
          /\ \/ NoFault /\ SetPaths(Subsys(h), paths[Subsys(h)] \ {p})
             \/ "disconnect" \in MayFail /\ Fault /\ UNCHANGED <<paths, mnt>>
          /\ UNCHANGED <<exists, stash, binds, lock, pc, op, vol, idx, kubelet>>
      BY <2>3
    <3>2. /\ Subsys(h) \in Subsystems
          /\ paths[Subsys(h)] \ {p} \in SUBSET (1..NPaths)
          /\ todo[h] \ {p} \in SUBSET (1..NPaths)
      BY <2>1, Serving DEF TypeOK
    <3>3. HostOK'
      BY <3>1, <3>2, PathsTyped DEF HostOK, TypeOK
    <3>4. todo' \in [Handlers -> SUBSET (1..NPaths)]
      BY <3>1, <3>2 DEF TypeOK
    <3>5. Goto(h, pc[h]) /\ Permitted(h, pc[h]) /\ pc[h] \in Past /\ pc[h] # "ok"
      BY <2>1, <3>1 DEF Goto, TypeOK
    <3>6. QED
      BY <3>1, <3>3, <3>4, <3>5 DEF Progress, TypeOK, kubelet
  <2>4. QED
    BY <1>4, <2>2, <2>3 DEF Cut
<1>5. QED
  BY <1>2, <1>3, <1>4

\* volumeLocks.Lock.
LEMMA LockStep ==
  ASSUME NodeInv, NEW h \in Handlers, Lock(h)
  PROVE  NodeInv'
<1> USE ConstantsAssumption DEF ConstantsAssumption, NodeInv
<1>1. /\ pc[h] = "lock" /\ vol[h] \in Vols /\ lock[vol[h]] = None
      /\ lock' = [lock EXCEPT ![vol[h]] = h] /\ Goto(h, FirstStep(h))
      /\ UNCHANGED <<exists, paths, mnt, stash, binds, op, vol, idx, todo, know, await, faults>>
  BY DEF Lock, host, locals, kubelet, HandlerInv, HandlerOK, TypeOK
<1>2. op[h] \in RPCs
  BY <1>1 DEF HandlerInv, HandlerOK, TypeOK
<1>3. Permitted(h, FirstStep(h)) /\ FirstStep(h) \in Past
  BY <1>2 DEF FirstStep, RPCs, Permitted, Past, Steps
<1>4. TypeOK'
  BY <1>1, <1>3 DEF TypeOK, Goto, Past
<1>5. HandlerInv'
  <2>1. HandlerOK(h)'
    BY <1>1, <1>2, <1>3 DEF Goto, TypeOK, Permitted, HandlerOK, Past
  <2>2. ASSUME NEW g \in Handlers, g # h PROVE HandlerOK(g)'
    BY <1>1, <2>2 DEF Goto, TypeOK, HandlerInv, HandlerOK
  <2>3. QED
    BY <2>1, <2>2 DEF HandlerInv
<1>6. LockDiscipline'
  <2>1. ASSUME NEW g \in Handlers, pc'[g] \notin {"idle", "lock"} PROVE lock'[vol'[g]] = g
    <3>1. CASE g = h
      BY <1>1, <3>1 DEF TypeOK
    <3>2. CASE g # h
      <4>1. pc'[g] = pc[g] /\ vol'[g] = vol[g] /\ lock[vol[g]] = g
        BY <1>1, <2>1, <3>2 DEF Goto, TypeOK, LockDiscipline
      <4>2. vol[g] # vol[h]
        BY <1>1, <4>1
      <4>3. vol[g] \in Vols
        BY <2>1, <4>1 DEF HandlerInv, HandlerOK, TypeOK
      <4>4. QED
        BY <1>1, <4>1, <4>2, <4>3 DEF TypeOK
    <3>3. QED
      BY <3>1, <3>2
  <2>2. ASSUME NEW v \in Vols, lock'[v] # None
        PROVE  pc'[lock'[v]] \notin {"idle", "lock"} /\ vol'[lock'[v]] = v
    <3>1. CASE v = vol[h]
      BY <1>1, <1>3, <3>1 DEF Goto, TypeOK, Past
    <3>2. CASE v # vol[h]
      <4>1. lock'[v] = lock[v] /\ lock[v] \in Handlers
        BY <1>1, <2>2, <3>2 DEF TypeOK
      <4>2. pc[lock[v]] \notin {"idle", "lock"} /\ vol[lock[v]] = v
        BY <2>2, <4>1 DEF LockDiscipline
      <4>3. lock[v] # h
        BY <1>1, <4>2
      <4>4. QED
        BY <1>1, <4>1, <4>2, <4>3 DEF Goto, TypeOK
    <3>3. QED
      BY <3>1, <3>2
  <2>3. QED
    BY <2>1, <2>2 DEF LockDiscipline
<1>7. CallInv'
  BY <1>1, <1>3 DEF CallInv, Goto, TypeOK, Past
<1>8. QED
  BY <1>4, <1>5, <1>6, <1>7

\* What the kubelet concludes is a state of a volume.
LEMMA ConclusionTyped ==
  ASSUME TypeOK, NEW h \in Handlers, vol[h] \in Vols
  PROVE  Conclusion(h) \in {"failed", "staged", "published", "unstaged", know[vol[h]]}
  BY DEF Conclusion

\* A handler returns.
LEMMA ReturnStep ==
  ASSUME NodeInv, NEW h \in Handlers, Return(h)
  PROVE  NodeInv'
<1> USE ConstantsAssumption DEF ConstantsAssumption, NodeInv
<1>1. /\ pc[h] \in {"ok", "err"} /\ vol[h] \in Vols /\ lock[vol[h]] = h /\ Answer(h)
      /\ lock' = [lock EXCEPT ![vol[h]] = None] /\ pc' = [pc EXCEPT ![h] = "idle"]
      /\ op' = [op EXCEPT ![h] = None] /\ vol' = [vol EXCEPT ![h] = None]
      /\ idx' = [idx EXCEPT ![h] = 1] /\ todo' = [todo EXCEPT ![h] = {}]
      /\ UNCHANGED <<exists, paths, mnt, stash, binds, faults>>
  BY DEF Return, Forget, Goto, host, HandlerInv, HandlerOK, TypeOK, LockDiscipline
<1>2. /\ await' \in [Vols -> Handlers \cup {None}]
      /\ know' \in [Vols -> {"out", "staging", "failed", "uncertain", "staged",
                             "publishing", "published", "unpublishing", "unstaging",
                             "unstaged"}]
  <2>1. Conclusion(h) \in {"failed", "staged", "published", "unstaged", know[vol[h]]}
    BY <1>1, ConclusionTyped
  <2>2. CASE UNCHANGED <<know, await>>
    BY <2>2 DEF TypeOK
  <2>3. CASE /\ await' = [await EXCEPT ![vol[h]] = None]
             /\ know' = [know EXCEPT ![vol[h]] = Conclusion(h)]
    BY <1>1, <2>1, <2>3 DEF TypeOK
  <2>4. QED
    BY <1>1, <2>2, <2>3 DEF Answer, kubelet
<1>3. TypeOK'
  <2>1. 1 \in 1..NPaths
    OBVIOUS
  <2>2. /\ idx' \in [Handlers -> 1..NPaths] /\ pc' \in [Handlers -> Steps]
        /\ todo' \in [Handlers -> SUBSET (1..NPaths)]
    BY <1>1, <2>1 DEF TypeOK, Steps
  <2>3. /\ op' \in [Handlers -> RPCs \cup {None}]
        /\ vol' \in [Handlers -> Vols \cup {None}]
        /\ lock' \in [Vols -> Handlers \cup {None}]
    BY <1>1 DEF TypeOK
  <2>4. QED
    BY <1>1, <1>2, <2>2, <2>3 DEF TypeOK
<1>4. HandlerInv'
  BY <1>1 DEF TypeOK, HandlerInv, HandlerOK
<1>5. LockDiscipline'
  <2>1. ASSUME NEW g \in Handlers, pc'[g] \notin {"idle", "lock"} PROVE lock'[vol'[g]] = g
    <3>1. g # h /\ pc'[g] = pc[g] /\ vol'[g] = vol[g] /\ lock[vol[g]] = g
      BY <1>1, <2>1 DEF TypeOK, LockDiscipline
    <3>2. vol[g] # vol[h]
      BY <1>1, <3>1
    <3>3. vol[g] \in Vols
      BY <2>1, <3>1 DEF HandlerInv, HandlerOK, TypeOK
    <3>4. QED
      BY <1>1, <3>1, <3>2, <3>3 DEF TypeOK
  <2>2. ASSUME NEW v \in Vols, lock'[v] # None
        PROVE  pc'[lock'[v]] \notin {"idle", "lock"} /\ vol'[lock'[v]] = v
    <3>1. v # vol[h] /\ lock'[v] = lock[v] /\ lock[v] \in Handlers
      BY <1>1, <2>2 DEF TypeOK
    <3>2. pc[lock[v]] \notin {"idle", "lock"} /\ vol[lock[v]] = v
      BY <2>2, <3>1 DEF LockDiscipline
    <3>3. lock[v] # h
      BY <3>1, <3>2
    <3>4. QED
      BY <1>1, <3>1, <3>2, <3>3 DEF TypeOK
  <2>3. QED
    BY <2>1, <2>2 DEF LockDiscipline
<1>6. CallInv'
  <2>1. SUFFICES ASSUME NEW g \in Handlers, NEW v \in Vols, await'[v] = g
                 PROVE  pc'[g] # "idle" /\ vol'[g] = v /\ know'[v] = Doing(op'[g])
    BY DEF CallInv
  <2>2. await[v] = g /\ know'[v] = know[v] /\ g # h
    <3>1. CASE await[vol[h]] # h /\ UNCHANGED kubelet
      <4>1. await' = await /\ know' = know
        BY <3>1 DEF kubelet
      <4>2. g = h => vol[h] = v
        BY <2>1, <4>1 DEF CallInv
      <4>3. QED
        BY <2>1, <3>1, <4>1, <4>2
    <3>2. CASE /\ await[vol[h]] = h /\ await' = [await EXCEPT ![vol[h]] = None]
               /\ know' = [know EXCEPT ![vol[h]] = Conclusion(h)]
      <4>1. v # vol[h]
        BY <1>1, <2>1, <3>2 DEF TypeOK
      <4>2. await[v] = g /\ know'[v] = know[v]
        BY <1>1, <2>1, <3>2, <4>1 DEF TypeOK
      <4>3. vol[g] = v
        BY <4>2 DEF CallInv
      <4>4. QED
        BY <4>1, <4>2, <4>3
    <3>3. QED
      BY <1>1, <3>1, <3>2 DEF Answer
  <2>3. pc[g] # "idle" /\ vol[g] = v /\ know[v] = Doing(op[g])
    BY <2>2 DEF CallInv
  <2>4. QED
    BY <1>1, <2>2, <2>3 DEF TypeOK
<1>7. QED
  BY <1>3, <1>4, <1>5, <1>6

\* The kubelet starts a call.
LEMMA CallStep ==
  ASSUME NodeInv, NEW h \in Handlers, NEW v \in Vols, NEW rpc \in RPCs,
         Begin(h, rpc, v), know' = [know EXCEPT ![v] = Doing(rpc)]
  PROVE  NodeInv'
<1> USE ConstantsAssumption DEF ConstantsAssumption, NodeInv
<1>1. /\ pc[h] = "idle" /\ await[v] = None
      /\ pc' = [pc EXCEPT ![h] = "lock"] /\ op' = [op EXCEPT ![h] = rpc]
      /\ vol' = [vol EXCEPT ![h] = v] /\ await' = [await EXCEPT ![v] = h]
      /\ UNCHANGED <<exists, paths, mnt, stash, binds, lock, idx, todo, faults>>
  BY DEF Begin, Goto, host
<1>2. Doing(rpc) \in {"staging", "unstaging", "publishing", "unpublishing"}
  BY DEF Doing
<1>3. TypeOK'
  BY <1>1, <1>2 DEF TypeOK, Steps
<1>4. HandlerInv'
  BY <1>1 DEF TypeOK, HandlerInv, HandlerOK
<1>5. LockDiscipline'
  BY <1>1 DEF TypeOK, LockDiscipline
<1>6. CallInv'
  <2>1. SUFFICES ASSUME NEW g \in Handlers, NEW u \in Vols, await'[u] = g
                 PROVE  pc'[g] # "idle" /\ vol'[g] = u /\ know'[u] = Doing(op'[g])
    BY DEF CallInv
  <2>2. CASE u = v
    BY <1>1, <2>1, <2>2 DEF TypeOK
  <2>3. CASE u # v
    <3>1. await[u] = g
      BY <1>1, <2>1, <2>3 DEF TypeOK
    <3>2. pc[g] # "idle" /\ vol[g] = u /\ know[u] = Doing(op[g])
      BY <3>1 DEF CallInv
    <3>3. QED
      BY <1>1, <2>3, <3>2 DEF TypeOK
  <2>4. QED
    BY <2>2, <2>3
<1>7. QED
  BY <1>3, <1>4, <1>5, <1>6

\* The four calls of the kubelet.
LEMMA CallShape ==
  ASSUME NEW h \in Handlers, NEW v \in Vols, Call(h, v)
  PROVE  \E rpc \in RPCs : Begin(h, rpc, v) /\ know' = [know EXCEPT ![v] = Doing(rpc)]
  BY DEF Call, CallStage, CallUnstage, CallPublish, CallUnpublish, RPCs, Doing

\* The kubelet gives up, the plugin crashes, volumes come and go.
LEMMA WorldStep ==
  ASSUME NodeInv,
         \/ \E v \in Vols : GiveUp(v) \/ Provision(v) \/ Deprovision(v)
         \/ Crash
  PROVE  NodeInv'
<1> USE ConstantsAssumption DEF ConstantsAssumption, NodeInv
<1>1. ASSUME NEW v \in Vols, GiveUp(v) PROVE NodeInv'
  <2>1. /\ await' = [await EXCEPT ![v] = None] /\ Fault
        /\ know' = [know EXCEPT ![v] = Uncertain(know[v])]
        /\ UNCHANGED <<exists, paths, mnt, stash, binds, lock, pc, op, vol, idx, todo>>
    BY <1>1 DEF GiveUp, host, locals
  <2>2. TypeOK'
    BY <2>1, FaultsBounded DEF TypeOK, Uncertain
  <2>3. HandlerInv' /\ LockDiscipline'
    BY <2>1 DEF HandlerInv, HandlerOK, LockDiscipline
  <2>4. CallInv'
    BY <2>1 DEF TypeOK, CallInv
  <2>5. QED
    BY <2>2, <2>3, <2>4
<1>2. ASSUME NEW v \in Vols, Provision(v) \/ Deprovision(v) PROVE NodeInv'
  <2>1. UNCHANGED <<paths, stash, binds, lock, pc, op, vol, idx, todo, know, await, faults>>
    BY <1>2 DEF Provision, Deprovision, locals, kubelet
  <2>2. TypeOK'
    BY <1>2, <2>1 DEF TypeOK, Provision, Deprovision
  <2>3. HandlerInv' /\ LockDiscipline' /\ CallInv'
    BY <2>1 DEF HandlerInv, HandlerOK, LockDiscipline, CallInv
  <2>4. QED
    BY <2>2, <2>3
<1>3. ASSUME Crash PROVE NodeInv'
  <2>1. TypeOK'
    BY <1>3, FaultsBounded DEF Crash, TypeOK, Steps, Uncertain, host
  <2>2. HandlerInv' /\ LockDiscipline' /\ CallInv'
    BY <1>3 DEF Crash, HandlerInv, HandlerOK, LockDiscipline, CallInv
  <2>3. QED
    BY <2>1, <2>2
<1>4. QED
  BY <1>1, <1>2, <1>3

\* Every step between Lock and Return is progress.
LEMMA StepProgress ==
  ASSUME NodeInv, NEW h \in Handlers, Step(h), ~Return(h)
  PROVE  Progress(h)
  BY ReadingSteps, FileSteps, BindSteps, ConnStep, DisconnectSteps DEF Step

\* Every step keeps the invariant.
LEMMA NodeInvNext ==
  ASSUME NodeInv, [Next]_vars
  PROVE  NodeInv'
<1>1. ASSUME NEW h \in Handlers, Step(h) PROVE NodeInv'
  BY <1>1, ReturnStep, StepProgress, ProgressKeeps
<1>2. ASSUME NEW h \in Handlers, NEW v \in Vols, Call(h, v) PROVE NodeInv'
  BY <1>2, CallShape, CallStep
<1>3. CASE UNCHANGED vars
  BY <1>3 DEF vars, NodeInv, TypeOK, HandlerInv, HandlerOK, LockDiscipline, CallInv
<1>4. QED
  BY <1>1, <1>2, <1>3, LockStep, WorldStep DEF Next

\* Whatever commands fail, calls are given up and crashes happen, handlers of
\* the node service past Lock hold their volume, and nobody else holds it.
THEOREM NodeInvariance == Spec => []NodeInv
  BY NodeInvInit, NodeInvNext, PTL DEF Spec

-----------------------------------------------------------------------------

\* A step between Lock and Return keeps UnboundInv.
LEMMA UnboundProgress ==
  ASSUME UnboundInv, NEW h \in Handlers, Step(h), ~Return(h)
  PROVE  UnboundInv'
<1> USE DEF NodeInv
<1>1. NodeInv /\ Progress(h) /\ NodeInv'
  BY StepProgress, ProgressKeeps DEF UnboundInv
<1>2. PICK x \in Past :
        Goto(h, x) /\ (x = "ok" /\ pc[h] # "unbind" => op[h] # "Unpublish")
  BY <1>1 DEF Progress
<1>3. /\ pc[h] \in Past /\ UNCHANGED <<op, vol, know, await>>
      /\ pc[h] \notin {"bind", "unbind"} => binds' = binds
  BY <1>1 DEF Progress
<1>4. vol[h] \in Vols /\ await[vol[h]] = h /\ know[vol[h]] = Doing(op[h])
  BY <1>1, <1>3, Serving DEF UnboundInv, CallInv, Past, Steps
<1>5. \A g \in Handlers : pc'[g] # "idle" => await'[vol'[g]] = g
  BY <1>1, <1>2, <1>3, <1>4 DEF UnboundInv, Goto, TypeOK
<1>6. \A g \in Handlers \ {h} : pc[g] \notin {"idle", "lock"} => vol[g] # vol[h]
  BY <1>1, <1>3 DEF LockDiscipline, Past, Steps
<1>7. CASE pc[h] \notin {"bind", "unbind"}
  <2>1. binds' = binds
    BY <1>3, <1>7
  <2>2. \A g \in Handlers : pc'[g] = "ok" /\ op'[g] = "Unpublish" => binds'[vol'[g]] = 0
    BY <1>1, <1>2, <1>3, <1>7, <2>1 DEF UnboundInv, Goto, TypeOK
  <2>3. UnpublishedMeansUnbound'
    BY <1>3, <2>1 DEF UnboundInv, UnpublishedMeansUnbound
  <2>4. QED
    BY <1>1, <1>5, <2>2, <2>3 DEF UnboundInv
<1>8. CASE pc[h] = "bind"
  <2>1. op[h] = "Publish" /\ know[vol[h]] = "publishing"
    BY <1>1, <1>4, <1>8 DEF HandlerInv, HandlerOK, Doing
  <2>2. \A v \in Vols \ {vol[h]} : binds'[v] = binds[v]
    BY <1>1, <1>4, <1>8 DEF Step, Check, Nqn, Fetch, Conn, Undo, Cut, Wait, Mount, Tune, Stash,
       Glob, Drop, Gone, Umount, Lookup, Clean, Unbind, Return, Bind, Moves, Fails, host, TypeOK
  <2>3. \A g \in Handlers : pc'[g] = "ok" /\ op'[g] = "Unpublish" => binds'[vol'[g]] = 0
    <3>1. SUFFICES ASSUME NEW g \in Handlers, pc'[g] = "ok", op'[g] = "Unpublish"
                   PROVE  binds'[vol'[g]] = 0
      OBVIOUS
    <3>2. g # h /\ pc[g] = "ok" /\ op[g] = "Unpublish"
      BY <1>1, <1>2, <1>3, <2>1, <3>1 DEF Goto, TypeOK
    <3>3. vol[g] \in Vols \ {vol[h]} /\ binds[vol[g]] = 0
      BY <1>1, <1>6, <3>2, Serving DEF UnboundInv, Past, Steps
    <3>4. QED
      BY <1>3, <2>2, <3>3
  <2>4. UnpublishedMeansUnbound'
    BY <1>3, <2>1, <2>2 DEF UnboundInv, UnpublishedMeansUnbound
  <2>5. QED
    BY <1>1, <1>5, <2>3, <2>4 DEF UnboundInv
<1>9. CASE pc[h] = "unbind"
  <2>1. Unbind(h)
    BY <1>9 DEF Step, Check, Nqn, Fetch, Conn, Undo, Cut, Wait, Mount, Tune, Stash,
       Glob, Drop, Gone, Umount, Lookup, Clean, Bind, Return
  <2>2. /\ \A v \in Vols : binds'[v] = binds[v] \/ v = vol[h]
        /\ binds[vol[h]] = 0 => binds'[vol[h]] = 0
        /\ pc'[h] = "ok" => binds'[vol[h]] = 0
    <3>1. CASE Fails(h, "umount", "err")
      BY <1>1, <3>1 DEF Fails, Goto, host, TypeOK
    <3>2. CASE /\ binds' = [binds EXCEPT ![vol[h]] =
                              IF binds[vol[h]] = 0 THEN 0 ELSE binds[vol[h]] - 1]
               /\ Goto(h, IF binds[vol[h]] > 1 THEN "err" ELSE "ok") \/ Goto(h, "err")
      <4>1. binds[vol[h]] \in Nat /\ binds \in [Vols -> 0..MaxBinds]
        BY <1>1, <1>4, ConstantsAssumption DEF TypeOK, ConstantsAssumption
      <4>2. binds[vol[h]] > 1 => pc'[h] = "err"
        BY <1>1, <3>2 DEF Goto, TypeOK
      <4>3. QED
        BY <1>4, <3>2, <4>1, <4>2
    <3>3. QED
      BY <2>1, <3>1, <3>2 DEF Unbind
  <2>3. \A g \in Handlers : pc'[g] = "ok" /\ op'[g] = "Unpublish" => binds'[vol'[g]] = 0
    <3>1. SUFFICES ASSUME NEW g \in Handlers, g # h, pc'[g] = "ok", op'[g] = "Unpublish"
                   PROVE  binds'[vol'[g]] = 0
      BY <1>3, <2>2
    <3>2. pc[g] = "ok" /\ op[g] = "Unpublish"
      BY <1>1, <1>2, <1>3, <3>1 DEF Goto, TypeOK
    <3>3. vol[g] \in Vols \ {vol[h]} /\ binds[vol[g]] = 0
      BY <1>1, <1>6, <3>1, <3>2, Serving DEF UnboundInv, Past, Steps
    <3>4. QED
      BY <1>3, <2>2, <3>3
  <2>4. UnpublishedMeansUnbound'
    BY <1>3, <1>4, <2>2 DEF UnboundInv, UnpublishedMeansUnbound
  <2>5. QED
    BY <1>1, <1>5, <2>3, <2>4 DEF UnboundInv
<1>10. QED
  BY <1>7, <1>8, <1>9

\* An answer keeps UnboundInv.
LEMMA UnboundReturn ==
  ASSUME UnboundInv, NEW h \in Handlers, Return(h)
  PROVE  UnboundInv'
<1>1. NodeInv /\ TypeOK /\ NodeInv'
  BY ReturnStep DEF UnboundInv, NodeInv
<1>2. pc[h] \in Past /\ pc[h] \in {"ok", "err"}
  BY DEF Return, Past, Steps
<1>3. /\ vol[h] \in Vols /\ op[h] \in RPCs /\ await[vol[h]] = h
      /\ know[vol[h]] = Doing(op[h])
  BY <1>1, <1>2, Serving DEF UnboundInv, NodeInv, CallInv, Past
<1>4. /\ pc' = [pc EXCEPT ![h] = "idle"] /\ op' = [op EXCEPT ![h] = None]
      /\ vol' = [vol EXCEPT ![h] = None] /\ binds' = binds
      /\ await' = [await EXCEPT ![vol[h]] = None]
      /\ know' = [know EXCEPT ![vol[h]] = Conclusion(h)]
  BY <1>3 DEF Return, Goto, Forget, Answer, host
<1>5. \A g \in Handlers : pc'[g] # "idle" => await'[vol'[g]] = g
  <2>1. SUFFICES ASSUME NEW g \in Handlers, pc'[g] # "idle" PROVE await'[vol'[g]] = g
    OBVIOUS
  <2>2. g # h /\ pc[g] # "idle" /\ vol'[g] = vol[g] /\ await[vol[g]] = g
    BY <1>1, <1>4, <2>1 DEF UnboundInv, TypeOK
  <2>3. vol[g] # vol[h]
    BY <1>3, <2>2
  <2>4. vol[g] \in Vols
    BY <1>1, <2>2 DEF NodeInv, HandlerInv, HandlerOK, TypeOK
  <2>5. QED
    BY <1>1, <1>4, <2>2, <2>3, <2>4 DEF TypeOK
<1>6. \A g \in Handlers : pc'[g] = "ok" /\ op'[g] = "Unpublish" => binds'[vol'[g]] = 0
  BY <1>1, <1>4 DEF UnboundInv, TypeOK
<1>7. UnpublishedMeansUnbound'
  <2>1. SUFFICES ASSUME NEW v \in Vols,
                        know'[v] \notin {"publishing", "published", "unpublishing"}
                 PROVE  binds[v] = 0
    BY <1>4 DEF UnpublishedMeansUnbound
  <2>2. CASE v # vol[h]
    BY <1>1, <1>4, <2>1, <2>2 DEF TypeOK, UnboundInv, UnpublishedMeansUnbound
  <2>3. CASE v = vol[h]
    <3>1. Conclusion(h) \notin {"publishing", "published", "unpublishing"}
      BY <1>1, <1>3, <1>4, <2>1, <2>3 DEF TypeOK
    <3>2. CASE op[h] = "Unpublish"
      <4>1. pc[h] = "ok"
        BY <1>2, <1>3, <3>1, <3>2, Zenon DEF Conclusion, Doing
      <4>2. QED
        BY <2>3, <3>2, <4>1 DEF UnboundInv
    <3>3. CASE op[h] = "Publish"
      <4>1. Conclusion(h) \in {"published", know[vol[h]]} /\ know[vol[h]] = "publishing"
        BY <1>2, <1>3, <3>3 DEF Conclusion, Doing
      <4>2. QED
        BY <3>1, <4>1
    <3>4. CASE op[h] \in {"Stage", "Unstage"}
      <4>1. know[vol[h]] \in {"staging", "unstaging"}
        BY <1>3, <3>4 DEF Doing
      <4>2. QED
        BY <2>3, <4>1 DEF UnboundInv, UnpublishedMeansUnbound
    <3>5. QED
      BY <1>3, <3>2, <3>3, <3>4 DEF RPCs
  <2>4. QED
    BY <2>2, <2>3
<1>8. QED
  BY <1>1, <1>5, <1>6, <1>7 DEF UnboundInv

\* A new call keeps UnboundInv.
LEMMA UnboundCall ==
  ASSUME UnboundInv, NEW h \in Handlers, NEW v \in Vols, Call(h, v)
  PROVE  UnboundInv'
<1>1. PICK rpc \in RPCs : Begin(h, rpc, v) /\ know' = [know EXCEPT ![v] = Doing(rpc)]
  BY CallShape
<1>2. NodeInv /\ TypeOK /\ NodeInv'
  BY <1>1, CallStep DEF UnboundInv, NodeInv
<1>3. /\ pc[h] = "idle" /\ await[v] = None /\ binds' = binds
      /\ pc' = [pc EXCEPT ![h] = "lock"] /\ op' = [op EXCEPT ![h] = rpc]
      /\ vol' = [vol EXCEPT ![h] = v] /\ await' = [await EXCEPT ![v] = h]
  BY <1>1 DEF Begin, Goto, host
<1>4. \A g \in Handlers : pc'[g] # "idle" => await'[vol'[g]] = g
  <2>1. SUFFICES ASSUME NEW g \in Handlers, g # h, pc'[g] # "idle" PROVE await'[vol'[g]] = g
    BY <1>2, <1>3 DEF TypeOK
  <2>2. pc[g] # "idle" /\ vol'[g] = vol[g] /\ await[vol[g]] = g
    BY <1>2, <1>3, <2>1 DEF UnboundInv, TypeOK
  <2>3. vol[g] # v /\ vol[g] \in Vols
    BY <1>2, <1>3, <2>2, ConstantsAssumption
    DEF ConstantsAssumption, NodeInv, HandlerInv, HandlerOK, TypeOK
  <2>4. QED
    BY <1>2, <1>3, <2>2, <2>3 DEF TypeOK
<1>5. \A g \in Handlers : pc'[g] = "ok" /\ op'[g] = "Unpublish" => binds'[vol'[g]] = 0
  BY <1>2, <1>3 DEF UnboundInv, TypeOK
<1>6. know[v] \in {"publishing", "published", "unpublishing"}
        => know'[v] \in {"publishing", "unpublishing"}
  BY <1>2 DEF Call, CallStage, CallUnstage, CallPublish, CallUnpublish, TypeOK
<1>7. UnpublishedMeansUnbound'
  BY <1>1, <1>2, <1>3, <1>6 DEF UnboundInv, UnpublishedMeansUnbound, TypeOK
<1>8. QED
  BY <1>2, <1>4, <1>5, <1>7 DEF UnboundInv

\* Every step keeps UnboundInv when the kubelet does not give calls up.
LEMMA UnboundNext ==
  ASSUME ~MayGiveUp, UnboundInv, [Next]_vars
  PROVE  UnboundInv'
<1>1. NodeInv /\ TypeOK /\ NodeInv'
  BY NodeInvNext DEF UnboundInv, NodeInv
<1>2. ASSUME NEW h \in Handlers, Lock(h) PROVE UnboundInv'
  <2>1. /\ pc' = [pc EXCEPT ![h] = FirstStep(h)] /\ FirstStep(h) # "ok"
        /\ pc[h] # "idle" /\ UNCHANGED <<binds, op, vol, know, await>>
    BY <1>2 DEF Lock, Goto, FirstStep, host, locals, kubelet
  <2>2. QED
    BY <1>1, <2>1 DEF UnboundInv, UnpublishedMeansUnbound, TypeOK
<1>3. ASSUME NEW v \in Vols, Provision(v) \/ Deprovision(v) PROVE UnboundInv'
  <2>1. UNCHANGED <<binds, pc, op, vol, know, await>>
    BY <1>3 DEF Provision, Deprovision, locals, kubelet
  <2>2. QED
    BY <1>1, <2>1 DEF UnboundInv, UnpublishedMeansUnbound
<1>4. CASE Crash
  <2>1. /\ pc' = [h \in Handlers |-> "idle"] /\ binds' = binds
        /\ \A v \in Vols : know'[v] = Uncertain(know[v])
    BY <1>4 DEF Crash, host
  <2>2. UnpublishedMeansUnbound'
    BY <2>1 DEF UnboundInv, UnpublishedMeansUnbound, Uncertain
  <2>3. QED
    BY <1>1, <2>1, <2>2 DEF UnboundInv
<1>5. CASE UNCHANGED vars
  BY <1>1, <1>5 DEF UnboundInv, UnpublishedMeansUnbound, vars
<1>6. ASSUME NEW v \in Vols, GiveUp(v) PROVE FALSE
  BY <1>6 DEF GiveUp
<1>7. QED
  BY <1>2, <1>3, <1>4, <1>5, <1>6, UnboundProgress, UnboundReturn, UnboundCall DEF Next

\* Nothing is bound before the first call.
LEMMA UnboundInit == Init => UnboundInv
  BY NodeInvInit DEF Init, UnboundInv, UnpublishedMeansUnbound

\* When the kubelet waits for its calls, every handler of the node plugin works
\* for a call that is awaited, and NodeUnpublishVolume is about to answer OK only
\* when nothing is bound.
THEOREM UnboundInvariance ==
  ASSUME ~MayGiveUp
  PROVE  Spec => []UnboundInv
<1>1. UnboundInv /\ [Next]_vars => UnboundInv'
  BY UnboundNext
<1>2. QED
  BY <1>1, UnboundInit, PTL DEF Spec

\* When the kubelet waits for its calls, a volume that it does not have
\* published has nothing mounted at its target path, whatever commands fail
\* and however often the plugin crashes.
THEOREM UnpublishedIsUnbound ==
  ASSUME ~MayGiveUp
  PROVE  Spec => []UnpublishedMeansUnbound
<1>1. UnboundInv => UnpublishedMeansUnbound
  BY DEF UnboundInv
<1>2. QED
  BY <1>1, UnboundInvariance, PTL
=============================================================================
