-------------------------- MODULE PathMonitorProofs --------------------------
(***************************************************************************)
(* Proofs about PathMonitor: the monitor, which takes no volume lock, and  *)
(* the handlers of the node service on one host, for any number of         *)
(* handlers, volumes, storage nodes, outages, rechecks and faults.         *)
(***************************************************************************)
EXTENDS PathMonitor, NodeHostProofs

\* What the storage nodes and the monitor never touch.
Apart == UNCHANGED <<exists, stash, binds, lock, pc, op, vol, idx, todo, know, await>>

HostTyped ==
  /\ paths \in [Subsystems -> SUBSET (1..NPaths)]
  /\ mnt \in [Vols -> {"none", "live", "dead"}]
  /\ faults \in 0..MaxFaults

\* MonInv in three parts: the handlers (NodeInv), the storage nodes, the monitor.
WorldOK ==
  /\ online \subseteq Nodes /\ outages \in 0..MaxOutages
  /\ home \in [Subsystems -> Nodes] /\ at \in [Subsystems -> Nodes]
  /\ addr \in [Handlers -> Nodes]
  /\ doubled \in BOOLEAN /\ lost \subseteq Subsystems

MonitorOK ==
  /\ mpc \in {"off", "scan", "confirm", "node", "fetch", "cut", "conn"}
  /\ left \subseteq Vols
  /\ seen \in Snapshots \cup {None}
  /\ count \in 0..Rechecks - 1
  /\ conn \in Nodes \cup {None}
  /\ seen = None <=> mpc \in {"off", "scan"}
  /\ mpc # "confirm" => count = 0
  /\ mpc = "cut" => ~Ha(Watched)
  /\ conn # None <=> mpc \in {"cut", "conn"}
  /\ mpc \in {"node", "fetch", "cut"} => Ha(Watched) \/ seen.state = "connecting"

\* The three parts make MonInv.
LEMMA MonParts ==
  /\ MonInv <=> NodeInv /\ WorldOK /\ MonitorOK
  /\ MonInv' <=> NodeInv' /\ WorldOK' /\ MonitorOK'
  BY DEF MonInv, MonTypeOK, NodeInv, WorldOK, MonitorOK

\* A step that leaves the handlers alone keeps their invariants.
LEMMA ApartKeeps ==
  ASSUME NodeInv, Apart, HostTyped'
  PROVE  NodeInv' /\ (UnboundInv => UnboundInv')
<1>1. TypeOK'
  BY DEF NodeInv, TypeOK, Apart, HostTyped
<1>2. HandlerInv' /\ LockDiscipline' /\ CallInv'
  BY DEF NodeInv, Apart, HandlerInv, HandlerOK, LockDiscipline, CallInv
<1>3. NodeInv'
  BY <1>1, <1>2 DEF NodeInv
<1>4. QED
  BY <1>3 DEF Apart, UnboundInv, UnpublishedMeansUnbound

\* Outages, moves and lost controllers.
LEMMA WorldKeeps ==
  ASSUME MonInv, World
  PROVE  Apart /\ HostTyped' /\ WorldOK' /\ MonitorOK'
<1>1. NodeInv /\ TypeOK /\ WorldOK /\ MonitorOK
  BY MonParts DEF NodeInv
<1>2. UNCHANGED monitor => MonitorOK'
  BY <1>1 DEF MonitorOK, monitor, Watched
<1>3. UNCHANGED vars => Apart /\ HostTyped'
  BY <1>1 DEF vars, Apart, HostTyped, TypeOK
<1>4. ASSUME NEW n \in Nodes, NodeDown(n) \/ NodeUp(n)
      PROVE  Apart /\ HostTyped' /\ WorldOK' /\ MonitorOK'
  <2>1. WorldOK'
    <3>1. /\ online' \subseteq Nodes
          /\ UNCHANGED <<home, at, addr, lost>>
      BY <1>1, <1>4 DEF NodeDown, NodeUp, WorldOK
    <3>2. outages' \in 0..MaxOutages
      BY <1>1, <1>4, MonitorAssumption DEF NodeDown, NodeUp, WorldOK, MonitorAssumption
    <3>3. doubled' \in BOOLEAN
      BY <1>1, <1>4 DEF NodeDown, NodeUp, WorldOK
    <3>4. QED
      BY <1>1, <3>1, <3>2, <3>3 DEF WorldOK
  <2>2. QED
    BY <1>2, <1>3, <1>4, <2>1 DEF NodeDown, NodeUp
<1>5. ASSUME NEW s \in Subsystems, Move(s)
      PROVE  Apart /\ HostTyped' /\ WorldOK' /\ MonitorOK'
  BY <1>1, <1>2, <1>3, <1>5 DEF Move, WorldOK
<1>6. ASSUME NEW s \in Subsystems, NEW p \in paths[s], CtrlLoss(s, p)
      PROVE  Apart /\ HostTyped' /\ WorldOK' /\ MonitorOK'
  <2>1. SetPaths(s, paths[s] \ {p}) /\ paths[s] \ {p} \in SUBSET (1..NPaths)
    BY <1>1, <1>6 DEF CtrlLoss, TypeOK
  <2>2. Apart /\ faults' = faults
    BY <1>6 DEF CtrlLoss, Apart, locals, kubelet
  <2>3. HostTyped'
    BY <1>1, <2>1, <2>2, PathsTyped DEF HostTyped, TypeOK
  <2>4. WorldOK'
    BY <1>1, <1>6 DEF CtrlLoss, WorldOK
  <2>5. QED
    BY <1>2, <1>6, <2>2, <2>3, <2>4 DEF CtrlLoss
<1>7. QED
  BY <1>4, <1>5, <1>6 DEF World

\* A refused connection is progress of its handler.
LEMMA RefusedProgress ==
  ASSUME NodeInv, NEW h \in Handlers, Refused(h)
  PROVE  Progress(h) /\ pc[h] = "conn"
<1>1. pc[h] = "conn" /\ op[h] = "Stage" /\ pc[h] \in Past
  BY DEF Refused, NodeInv, HandlerInv, HandlerOK, Past, Steps
<1>2. AfterFailure(idx[h]) \in {"undo", "err"}
  BY DEF AfterFailure
<1>3. Permitted(h, AfterFailure(idx[h]))
  BY <1>1, <1>2 DEF Permitted, Past, Steps
<1>4. QED
  BY <1>1, <1>2, <1>3, MovesProgress DEF Refused

\* What the plugin does with its handlers, by NodeServer's own lemmas.
LEMMA PluginKeeps ==
  ASSUME MonInv, Plugin
  PROVE  NodeInv' /\ WorldOK' /\ MonitorOK'
<1>1. NodeInv /\ WorldOK /\ MonitorOK
  BY MonParts
<1>2. Next \/ \E h \in Handlers : Refused(h)
  BY DEF Plugin, Next
<1>3. NodeInv'
  BY <1>1, <1>2, NodeInvNext, RefusedProgress, ProgressKeeps
<1>4. WorldOK'
  <2>1. HostAnswers
    BY DEF Plugin
  <2>2. ASSUME NEW h \in Handlers PROVE Fetched(h) \in Nodes
    <3>1. 1 \in Nodes /\ addr[h] \in Nodes
      BY <1>1, ConstantsAssumption DEF WorldOK, Nodes, ConstantsAssumption
    <3>2. pc[h] = "fetch" => home[Subsys(h)] \in Nodes
      BY <1>1, Serving, ConstantsAssumption DEF ConstantsAssumption, WorldOK, Subsys, Past, Steps
    <3>3. QED
      BY <3>1, <3>2 DEF Fetched
  <2>3. at' \in [Subsystems -> Nodes] /\ addr' \in [Handlers -> Nodes]
    BY <1>1, <2>1, <2>2 DEF HostAnswers, WorldOK
  <2>4. QED
    BY <1>1, <2>1, <2>3 DEF HostAnswers, WorldOK
<1>5. MonitorOK'
  <2>1. CASE UNCHANGED monitor
    BY <1>1, <2>1 DEF MonitorOK, monitor, Watched
  <2>2. CASE mpc' = MonStart /\ left' = {} /\ seen' = None /\ count' = 0 /\ conn' = None
    <3>1. 0 \in 0..Rechecks - 1
      BY MonitorAssumption DEF MonitorAssumption
    <3>2. QED
      BY <2>2, <3>1 DEF MonitorOK, MonStart
  <2>3. QED
    BY <2>1, <2>2 DEF Plugin
<1>6. QED
  BY <1>3, <1>4, <1>5

\* The monitor goes on with another device.
LEMMA NextDeviceOK ==
  ASSUME MonitorOK, NEW l \in SUBSET Vols, NextDevice(l)
  PROVE  MonitorOK'
<1>1. 0 \in 0..Rechecks - 1
  BY MonitorAssumption DEF MonitorAssumption
<1>2. QED
  BY <1>1 DEF MonitorOK, NextDevice

\* The snapshot that the monitor works on.
LEMMA SeenTyped ==
  ASSUME MonitorOK, mpc \notin {"off", "scan"}
  PROVE  seen \in Snapshots /\ seen.vol \in Vols /\ Watched \in Subsystems
  BY ConstantsAssumption DEF ConstantsAssumption, MonitorOK, Snapshots, Watched

\* The monitor's own state.
LEMMA MonitorKeeps ==
  ASSUME MonInv, MonStep
  PROVE  MonitorOK'
<1>1. NodeInv /\ TypeOK /\ WorldOK /\ MonitorOK
  BY MonParts DEF NodeInv
<1>2. ASSUME Skip \/ \E c : MonFails(c) PROVE MonitorOK'
  BY <1>1, <1>2, NextDeviceOK DEF Skip, MonFails, MonitorOK
<1>3. CASE MonList
  <2>1. left' \subseteq Vols /\ UNCHANGED <<mpc, seen, count, conn>>
    BY <1>1, <1>3 DEF MonList, TypeOK
  <2>2. QED
    BY <1>1, <2>1 DEF MonitorOK, Watched
<1>4. ASSUME NEW v \in left, MonPick(v) PROVE MonitorOK'
  <2>1. v \in Vols /\ SubsysOf[v] \in Subsystems /\ left \ {v} \in SUBSET Vols
    BY <1>1, ConstantsAssumption DEF ConstantsAssumption, MonitorOK
  <2>2. CASE NextDevice(left \ {v})
    BY <1>1, <2>1, <2>2, NextDeviceOK
  <2>3. ASSUME NEW p \in paths[SubsysOf[v]],
               seen' = [vol |-> v, path |-> p, ana |-> Ana(SubsysOf[v], p),
                        addr |-> NodeAt(SubsysOf[v], p),
                        state |-> IF Works(SubsysOf[v], p) THEN "live" ELSE "connecting"],
               mpc = "scan", mpc' = "confirm", left' = left \ {v}, count' = 0, conn' = conn
        PROVE  MonitorOK'
    <3>1. p \in Nodes
      BY <1>1, <2>1 DEF TypeOK, Nodes
    <3>2. NodeAt(SubsysOf[v], p) \in Nodes
      BY <1>1, <2>1, <3>1 DEF NodeAt, WorldOK
    <3>3. Ana(SubsysOf[v], p) \in {"optimized", "non-optimized", "none"}
      BY DEF Ana
    <3>4. (IF Works(SubsysOf[v], p) THEN "live" ELSE "connecting") \in {"live", "connecting"}
      OBVIOUS
    <3>5. seen' \in Snapshots
      BY <2>1, <2>3, <3>1, <3>2, <3>3, <3>4 DEF Snapshots
    <3>6. seen' # None /\ 0 \in 0..Rechecks - 1
      BY <3>5, MonitorAssumption DEF MonitorAssumption
    <3>7. QED
      BY <1>1, <2>1, <2>3, <3>5, <3>6 DEF MonitorOK
  <2>4. QED
    BY <1>4, <2>2, <2>3 DEF MonPick
<1>5. CASE MonConfirm
  <2>1. CASE Confirmed
    <3>1. mpc = "confirm" /\ seen \in Snapshots /\ seen # None /\ left' = left /\ conn = None /\ conn' = None
      BY <1>1, <1>5, <2>1, SeenTyped DEF MonConfirm, MonitorOK, Confirmed
    <3>2. Rechecks \in Nat /\ count \in Nat /\ count + 1 <= Rechecks
      BY <1>1, MonitorAssumption DEF MonitorAssumption, MonitorOK
    <3>3. CASE count + 1 < Rechecks
      <4>1. (count + 1) % Rechecks = count + 1
        BY <3>2, <3>3
      <4>2. mpc' = "confirm" /\ seen' = seen /\ count' \in 0..Rechecks - 1
        BY <2>1, <3>2, <3>3, <4>1 DEF Confirmed
      <4>3. QED
        BY <1>1, <3>1, <4>2 DEF MonitorOK
    <3>4. CASE ~(count + 1 < Rechecks)
      <4>1. (count + 1) % Rechecks = 0
        BY <3>2, <3>4, MonitorAssumption DEF MonitorAssumption
      <4>2. /\ count' = 0 /\ mpc' = AfterConfirm
            /\ seen' = IF mpc' = "scan" THEN None ELSE seen
        BY <2>1, <3>4, <4>1 DEF Confirmed
      <4>3. \/ AfterConfirm = "scan"
            \/ /\ AfterConfirm = "node"
               /\ Ha(Watched) \/ seen.state = "connecting"
        BY DEF AfterConfirm
      <4>4. 0 \in 0..Rechecks - 1
        BY MonitorAssumption DEF MonitorAssumption
      <4>5. CASE mpc' = "scan"
        BY <1>1, <3>1, <4>2, <4>4, <4>5 DEF MonitorOK
      <4>6. CASE mpc' = "node"
        <5>1. seen' = seen /\ (Ha(Watched) \/ seen.state = "connecting")
          BY <4>2, <4>3, <4>6
        <5>2. QED
          BY <1>1, <3>1, <4>2, <4>4, <4>6, <5>1 DEF MonitorOK, Watched
      <4>7. QED
        BY <4>2, <4>3, <4>5, <4>6
    <3>5. QED
      BY <3>3, <3>4
  <2>2. QED
    BY <1>2, <1>5, <2>1 DEF MonConfirm
<1>6. CASE MonNode
  <2>1. CASE MonGoto("fetch")
    BY <1>1, <1>6, <2>1 DEF MonNode, MonGoto, MonitorOK, Watched
  <2>2. QED
    BY <1>2, <1>6, <2>1 DEF MonNode
<1>7. CASE MonFetch
  <2> DEFINE i == ConnIndex(seen.ana, Watched)
  <2>1. mpc = "fetch" /\ Watched \in Subsystems
    BY <1>1, <1>7, SeenTyped DEF MonFetch
  <2>2. Dest(Watched, i) \in Nodes /\ Dest(Watched, i) # None
    <3>1. i \in 1..NPaths
      BY <2>1, ConstantsAssumption DEF ConnIndex, ConstantsAssumption, Ha
    <3>2. Dest(Watched, i) \in Nodes
      BY <1>1, <2>1, <3>1 DEF Dest, WorldOK, Nodes
    <3>3. QED
      BY <3>2, MonitorAssumption DEF MonitorAssumption
  <2>3. CASE MonTarget("conn")
    BY <1>1, <2>1, <2>2, <2>3 DEF MonTarget, MonitorOK, Watched
  <2>4. CASE MonTarget("cut") /\ MustSwap(Watched)
    BY <1>1, <2>1, <2>2, <2>4 DEF MonTarget, MonitorOK, Watched, MustSwap
  <2>5. QED
    BY <1>2, <1>7, <2>3, <2>4 DEF MonFetch
<1>8. CASE MonCut
  <2>1. CASE mpc' = "conn" /\ UNCHANGED <<at, left, seen, count, conn>>
    BY <1>1, <1>8, <2>1 DEF MonCut, MonitorOK, Watched
  <2>2. QED
    BY <1>2, <1>8, <2>1 DEF MonCut
<1>9. CASE MonConn
  <2>1. CASE NextDevice(left)
    BY <1>1, <2>1, NextDeviceOK DEF MonitorOK
  <2>2. QED
    BY <1>2, <1>9, <2>1 DEF MonConn
<1>10. QED
  BY <1>3, <1>4, <1>5, <1>6, <1>7, <1>8, <1>9 DEF MonStep

\* What the monitor does to the host: it takes away the controller of the "single"
\* lvol that it works on, or it adds one to the subsystem that it works on.
LEMMA MonitorHost ==
  ASSUME MonInv, MonStep
  PROVE  /\ Apart /\ HostTyped' /\ WorldOK' /\ UNCHANGED <<online, doubled>>
         /\ \/ UNCHANGED <<paths, mnt>>
            \/ /\ Watched \in Subsystems /\ ~Ha(Watched)
               /\ SetPaths(Watched, {})
            \/ \E i \in 1..NPaths :
                 /\ Watched \in Subsystems
                 /\ SetPaths(Watched, paths[Watched] \cup {i})
<1>1. NodeInv /\ TypeOK /\ WorldOK /\ MonitorOK
  BY MonParts DEF NodeInv
<1>2. ASSUME UNCHANGED <<host, lock, pc, locals, kubelet, world>>, NoFault \/ Fault
      PROVE  /\ Apart /\ HostTyped' /\ WorldOK' /\ UNCHANGED <<online, doubled>>
             /\ UNCHANGED <<paths, mnt>>
  <2>1. faults' \in 0..MaxFaults
    BY <1>1, <1>2, FaultsBounded
  <2>2. QED
    BY <1>1, <1>2, <2>1
    DEF host, locals, kubelet, world, Apart, HostTyped, WorldOK, TypeOK
<1>3. ASSUME UNCHANGED <<vars, world>> \/ Skip \/ \E c : MonFails(c)
      PROVE  /\ Apart /\ HostTyped' /\ WorldOK' /\ UNCHANGED <<online, doubled>>
             /\ UNCHANGED <<paths, mnt>>
  <2>1. UNCHANGED <<host, lock, pc, locals, kubelet, world>> /\ (NoFault \/ Fault)
    BY <1>3 DEF Skip, MonFails, vars, host, locals, kubelet, NoFault
  <2>2. QED
    BY <1>2, <2>1
<1>4. ASSUME NEW s \in Subsystems, NEW new \in SUBSET (1..NPaths), MonPaths(s, new),
             NoFault \/ Fault, at' = at \/ at' = [at EXCEPT ![s] = home[s]]
      PROVE  /\ Apart /\ HostTyped' /\ WorldOK' /\ UNCHANGED <<online, doubled>>
             /\ SetPaths(s, new)
  <2>1. faults' \in 0..MaxFaults
    BY <1>1, <1>4, FaultsBounded
  <2>2. HostTyped'
    BY <1>1, <1>4, <2>1, PathsTyped DEF MonPaths, HostTyped
  <2>3. Apart /\ UNCHANGED <<online, home, addr, outages, doubled, lost>>
    BY <1>4 DEF MonPaths, Apart, locals, kubelet
  <2>4. WorldOK'
    BY <1>1, <1>4, <2>3 DEF WorldOK
  <2>5. QED
    BY <1>4, <2>2, <2>3, <2>4 DEF MonPaths
<1>5. CASE MonList \/ \E v \in left : MonPick(v)
  BY <1>2, <1>3, <1>5 DEF MonList, MonPick, NoFault
<1>6. CASE MonConfirm
  BY <1>2, <1>3, <1>6 DEF MonConfirm, Confirmed
<1>7. CASE MonNode \/ MonFetch
  BY <1>3, <1>7 DEF MonNode, MonFetch, MonGoto, MonTarget
<1>8. CASE MonCut
  <2>1. CASE NoFault /\ MonPaths(Watched, {}) /\ UNCHANGED at
    <3>1. Watched \in Subsystems /\ ~Ha(Watched)
      BY <1>1, <1>8, SeenTyped DEF MonCut, MonitorOK
    <3>2. QED
      BY <1>4, <2>1, <3>1
  <2>2. QED
    BY <1>3, <1>8, <2>1 DEF MonCut
<1>9. CASE MonConn
  <2> DEFINE i == ConnIndex(seen.ana, Watched)
  <2>1. CASE /\ NoFault \/ Fault
             /\ MonPaths(Watched, paths[Watched] \cup {i})
             /\ at' = IF i = 1 THEN [at EXCEPT ![Watched] = home[Watched]] ELSE at
    <3>1. Watched \in Subsystems
      BY <1>1, <1>9, SeenTyped DEF MonConn
    <3>2. i \in 1..NPaths
      BY <3>1, ConstantsAssumption DEF ConnIndex, ConstantsAssumption, Ha
    <3>3. paths[Watched] \cup {i} \in SUBSET (1..NPaths)
      BY <1>1, <3>1, <3>2 DEF TypeOK
    <3>4. at' = at \/ at' = [at EXCEPT ![Watched] = home[Watched]]
      BY <2>1
    <3>5. QED
      BY <1>4, <2>1, <3>1, <3>2, <3>3, <3>4
  <2>2. QED
    BY <1>3, <1>9, <2>1 DEF MonConn
<1>10. QED
  BY <1>5, <1>6, <1>7, <1>8, <1>9 DEF MonStep

\* The invariant holds when the plugin starts.
LEMMA MonInvInit == MonInit => MonInv
<1> SUFFICES ASSUME MonInit PROVE MonInv
  OBVIOUS
<1>1. NodeInv
  BY NodeInvInit DEF MonInit
<1>2. 1 \in Nodes /\ 0 \in 0..Rechecks - 1 /\ 0 \in 0..MaxOutages
  BY ConstantsAssumption, MonitorAssumption DEF ConstantsAssumption, MonitorAssumption, Nodes
<1>3. WorldOK
  BY <1>2 DEF MonInit, WorldOK
<1>4. MonitorOK
  BY <1>2 DEF MonInit, MonitorOK, MonStart
<1>5. QED
  BY <1>1, <1>3, <1>4, MonParts

\* Every step keeps it.
LEMMA MonInvNext ==
  ASSUME MonInv, [MonNext]_mvars
  PROVE  MonInv'
<1>1. CASE World
  BY <1>1, WorldKeeps, ApartKeeps, MonParts
<1>2. CASE Plugin
  BY <1>2, PluginKeeps, MonParts
<1>3. CASE MonStep
  BY <1>3, MonitorKeeps, MonitorHost, ApartKeeps, MonParts
<1>4. CASE UNCHANGED mvars
  <2>1. NodeInv /\ WorldOK /\ MonitorOK /\ UNCHANGED <<vars, world, monitor>>
    BY <1>4, MonParts DEF mvars
  <2>2. NodeInv'
    BY <2>1, NodeInvNext
  <2>3. WorldOK' /\ MonitorOK'
    BY <2>1 DEF WorldOK, MonitorOK, world, monitor, Watched
  <2>4. QED
    BY <2>2, <2>3, MonParts
<1>5. QED
  BY <1>1, <1>2, <1>3, <1>4 DEF MonNext

\* Whatever outages, moves, lost controllers, failing commands, calls given up
\* and crashes come together, the monitor disconnects a controller only when it
\* is the one of a "single" lvol that was connecting, and the lock discipline of
\* the handlers holds beside it.
THEOREM MonInvariance == MonSpec => []MonInv
  BY MonInvInit, MonInvNext, PTL DEF MonSpec

-----------------------------------------------------------------------------
\* The file systems of "ha" volumes.

\* A controller of an "ha" subsystem works while its node is up.
LEMMA HaWorks ==
  ASSUME NEW s, Ha(s), NEW p
  PROVE  (Works(s, p) <=> p \in online) /\ (Works(s, p)' <=> p \in online')
  BY DEF Works, Dest, NodeAt

\* MonitorAssumption's own subsystems, as the lemmas of NodeHostProofs want them.
LEMMA MonOwnSubsystems == OwnSubsystems
  BY MonitorAssumption DEF MonitorAssumption, OwnSubsystems

\* HaInv says nothing about what changes outside of the handlers, as long as no
\* "ha" volume loses its last controller that works.
LEMMA HaApart ==
  ASSUME HaInv, ~doubled, Apart,
         \A v \in Vols : HaFs(v) =>
           /\ mnt'[v] = mnt[v]
           /\ mnt[v] = "live" /\ (\E p \in paths[SubsysOf[v]] : p \in online)
                => \E p \in paths'[SubsysOf[v]] : p \in online'
  PROVE  HaInv'
<1>1. ASSUME NEW v \in Vols, HaFs(v) PROVE HaView(v)'
  <2>1. HaView(v) /\ Ha(SubsysOf[v]) /\ mnt'[v] = mnt[v] /\ know' = know
    BY <1>1 DEF HaInv, HaFs, Apart
  <2>2. mnt'[v] = "live" => \E p \in paths'[SubsysOf[v]] : Works(SubsysOf[v], p)'
    BY <1>1, <2>1, HaWorks DEF HaView
  <2>3. QED
    BY <2>1, <2>2 DEF HaView, Staged
<1>2. ASSUME NEW h \in Handlers, HaFs(vol'[h]) PROVE HaWork(h)'
  <2>1. HaWork(h) /\ vol[h] \in Vols /\ mnt'[vol[h]] = mnt[vol[h]] /\ UNCHANGED <<pc, op, vol>>
    BY <1>2 DEF HaInv, HaFs, Apart
  <2>2. QED
    BY <2>1 DEF HaWork
<1>3. QED
  BY <1>1, <1>2 DEF HaInv, HaFs

\* Outages and lost controllers: an outage that is not "doubled" meets an "ha"
\* subsystem with all its controllers working, and only a controller that does
\* not work is removed.
LEMMA HaWorld ==
  ASSUME MonInv, HaInv, World, ~doubled'
  PROVE  HaInv'
<1>1. NodeInv /\ TypeOK /\ Apart
  BY MonParts, WorldKeeps DEF NodeInv
<1>2. ~doubled
  BY DEF World, NodeDown, NodeUp, Move, CtrlLoss
<1>3. ASSUME NEW n \in Nodes, NodeDown(n) PROVE HaInv'
  <2>1. UNCHANGED <<paths, mnt>> /\ online' = online \ {n}
    BY <1>3 DEF NodeDown, vars
  <2>2. ASSUME NEW v \in Vols, HaFs(v), NEW p \in paths[SubsysOf[v]], p \in online
        PROVE  \E q \in paths[SubsysOf[v]] : q \in online'
    <3>1. Ha(SubsysOf[v]) /\ SubsysOf[v] \in Subsystems
      BY <2>2, ConstantsAssumption DEF HaFs, ConstantsAssumption
    <3>2. \A q \in 1..PathsOf[SubsysOf[v]] :
            q \in paths[SubsysOf[v]] /\ Works(SubsysOf[v], q)
      BY <1>2, <1>3, <2>2, <3>1 DEF NodeDown
    <3>3. 1 \in 1..PathsOf[SubsysOf[v]] /\ 2 \in 1..PathsOf[SubsysOf[v]]
      BY <3>1, ConstantsAssumption DEF ConstantsAssumption, Ha
    <3>4. /\ 1 \in paths[SubsysOf[v]] /\ 1 \in online
          /\ 2 \in paths[SubsysOf[v]] /\ 2 \in online
      BY <3>1, <3>2, <3>3, HaWorks
    <3>5. QED
      BY <2>1, <3>4
  <2>3. QED
    BY <1>1, <1>2, <2>1, <2>2, HaApart
<1>4. ASSUME NEW n \in Nodes, NodeUp(n) PROVE HaInv'
  <2>1. UNCHANGED <<paths, mnt>> /\ online' = online \cup {n}
    BY <1>4 DEF NodeUp, vars
  <2>2. QED
    BY <1>1, <1>2, <2>1, HaApart
<1>5. ASSUME NEW s \in Subsystems, Move(s) PROVE HaInv'
  <2>1. UNCHANGED <<paths, mnt, online>>
    BY <1>5 DEF Move, vars
  <2>2. QED
    BY <1>1, <1>2, <2>1, HaApart
<1>6. ASSUME NEW s \in Subsystems, NEW c \in paths[s], CtrlLoss(s, c) PROVE HaInv'
  <2>1. /\ SetPaths(s, paths[s] \ {c}) /\ ~Works(s, c) /\ online' = online
    BY <1>6 DEF CtrlLoss
  <2>2. ASSUME NEW v \in Vols, HaFs(v)
        PROVE  /\ mnt'[v] = mnt[v]
               /\ (\E p \in paths[SubsysOf[v]] : p \in online)
                    => \E p \in paths'[SubsysOf[v]] : p \in online'
    <3>1. Ha(SubsysOf[v]) /\ SubsysOf[v] \in Subsystems /\ HaView(v)
      BY <1>2, <2>2, ConstantsAssumption DEF HaFs, HaInv, ConstantsAssumption
    <3>2. CASE SubsysOf[v] # s
      BY <1>1, <2>1, <3>1, <3>2 DEF SetPaths, TypeOK
    <3>3. CASE SubsysOf[v] = s
      <4>1. c \notin online /\ paths'[s] = paths[s] \ {c}
        BY <1>1, <2>1, <3>1, <3>3, HaWorks DEF SetPaths, TypeOK
      <4>2. mnt[v] = "live" => paths[s] \ {c} # {}
        BY <3>1, <3>3, <4>1, HaWorks DEF HaView
      <4>3. mnt'[v] = mnt[v]
        BY <2>1, <4>2 DEF SetPaths
      <4>4. QED
        BY <2>1, <3>3, <4>1, <4>3
    <3>4. QED
      BY <3>2, <3>3
  <2>3. QED
    BY <1>1, <1>2, <2>2, HaApart
<1>7. QED
  BY <1>3, <1>4, <1>5, <1>6 DEF World

\* The monitor takes no controller of an "ha" subsystem away.
LEMMA HaMonitor ==
  ASSUME MonInv, HaInv, MonStep, ~doubled'
  PROVE  HaInv'
<1>1. NodeInv /\ TypeOK /\ Apart /\ online' = online /\ ~doubled
  BY MonParts, MonitorHost DEF NodeInv
<1>2. ASSUME NEW v \in Vols, HaFs(v)
      PROVE  mnt'[v] = mnt[v] /\ paths[SubsysOf[v]] \subseteq paths'[SubsysOf[v]]
  <2>1. Ha(SubsysOf[v]) /\ SubsysOf[v] \in Subsystems
    BY <1>2, ConstantsAssumption DEF HaFs, ConstantsAssumption
  <2>2. CASE UNCHANGED <<paths, mnt>>
    BY <2>2
  <2>3. CASE Watched \in Subsystems /\ ~Ha(Watched) /\ SetPaths(Watched, {})
    <3>1. SubsysOf[v] # Watched
      BY <2>1, <2>3
    <3>2. QED
      BY <1>1, <2>1, <2>3, <3>1 DEF SetPaths, TypeOK
  <2>4. ASSUME NEW i \in 1..NPaths, Watched \in Subsystems,
               SetPaths(Watched, paths[Watched] \cup {i})
        PROVE  mnt'[v] = mnt[v] /\ paths[SubsysOf[v]] \subseteq paths'[SubsysOf[v]]
    <3>1. paths[Watched] \cup {i} # {}
      OBVIOUS
    <3>2. QED
      BY <1>1, <2>1, <2>4, <3>1 DEF SetPaths, TypeOK
  <2>5. QED
    BY <2>2, <2>3, <2>4, MonitorHost
<1>3. QED
  BY <1>1, <1>2, HaApart

\* What one handler does keeps HaInv if it is right for that handler.
LEMMA HaKept ==
  ASSUME NodeInv, UnboundInv, HaInv, ~doubled, online' = online,
         NEW h \in Handlers, pc[h] # "idle", Framed(h),
         HaFs(vol[h]) => HaWork(h)' /\ HaView(vol[h])'
  PROVE  HaInv'
<1>1. ASSUME NEW v \in Vols, HaFs(v), v # vol[h] PROVE HaView(v)'
  <2>1. HaView(v) /\ Ha(SubsysOf[v])
    BY <1>1 DEF HaInv, HaFs
  <2>2. /\ mnt'[v] = mnt[v] /\ know' = know
        /\ paths'[SubsysOf[v]] = paths[SubsysOf[v]]
    BY <1>1 DEF Framed
  <2>3. mnt'[v] = "live" => \E p \in paths'[SubsysOf[v]] : Works(SubsysOf[v], p)'
    BY <2>1, <2>2, HaWorks DEF HaView
  <2>4. QED
    BY <2>1, <2>2, <2>3 DEF HaView, Staged
<1>2. ASSUME NEW g \in Handlers, g # h, HaFs(vol[g]) PROVE HaWork(g)'
  <2>1. HaWork(g) /\ vol[g] \in Vols
    BY <1>2 DEF HaInv, HaFs
  <2>2. CASE pc[g] = "idle"
    BY <1>2, <2>2 DEF HaWork, Framed
  <2>3. CASE pc[g] # "idle"
    <3>1. vol[g] # vol[h]
      BY <1>2, <2>3 DEF UnboundInv
    <3>2. QED
      BY <1>2, <2>1, <3>1 DEF HaWork, Framed
  <2>4. QED
    BY <2>2, <2>3
<1>3. vol' = vol
  BY DEF Framed
<1>4. ASSUME NEW v \in Vols, HaFs(v), v = vol[h] PROVE HaView(v)'
  BY <1>3, <1>4
<1>5. QED
  BY <1>1, <1>2, <1>3, <1>4 DEF HaInv, HaFs

\* The volume of a handler at a step of NodeStageVolume or NodeUnstageVolume is
\* not staged.
LEMMA HaBusy ==
  ASSUME UnboundInv, NEW h \in Handlers, pc[h] # "idle", op[h] \in {"Stage", "Unstage"}
  PROVE  vol[h] \in Vols /\ know[vol[h]] \in {"staging", "unstaging"}
<1>1. vol[h] \in Vols /\ know[vol[h]] = Doing(op[h])
  BY DEF UnboundInv, NodeInv, HandlerInv, HandlerOK, TypeOK, CallInv
<1>2. QED
  BY <1>1 DEF Doing

\* A step that changes neither the controllers nor the mount nor the view.
LEMMA HaSame ==
  ASSUME NEW v \in Vols, HaFs(v), HaView(v), mnt'[v] = mnt[v], know'[v] = know[v],
         paths'[SubsysOf[v]] = paths[SubsysOf[v]], online' = online
  PROVE  HaView(v)'
<1>1. mnt'[v] = "live" => \E p \in paths'[SubsysOf[v]] : Works(SubsysOf[v], p)'
  BY HaWorks DEF HaView, HaFs
<1>2. QED
  BY <1>1 DEF HaView, Staged

\* The steps that only look.  NodeStageVolume takes a mount for a staged volume,
\* and the mount is alive.
LEMMA HaReads ==
  ASSUME "tune" \notin MayFail, UnboundInv, HaInv, ~doubled, online' = online,
         NEW h \in Handlers,
         \/ Check(h) \/ Nqn(h) \/ Fetch(h) \/ Wait(h) \/ Tune(h) \/ Glob(h)
         \/ Gone(h) \/ Lookup(h) \/ Refused(h)
  PROVE  HaInv'
<1>1. NodeInv /\ TypeOK
  BY DEF UnboundInv, NodeInv
<1>2. pc[h] # "idle" /\ op[h] \in {"Stage", "Unstage"}
  BY <1>1 DEF Check, Nqn, Fetch, Wait, Tune, Glob, Gone, Lookup, Refused,
     NodeInv, HandlerInv, HandlerOK
<1>3. \E x, c : Moves(h, x) \/ Fails(h, c, x)
  BY DEF Check, Nqn, Fetch, Wait, Tune, Glob, Gone, Lookup, Refused
<1>4. Framed(h) /\ UNCHANGED <<paths, mnt, vol, op, know>>
  BY <1>1, <1>3, MovesFramed DEF Framed
<1>5. ASSUME NEW x, NEW c, Moves(h, x) \/ Fails(h, c, x) PROVE pc'[h] = x
  BY <1>1, <1>5, MovesFramed
<1>6. ASSUME HaFs(vol[h]) PROVE HaWork(h)' /\ HaView(vol[h])'
  <2>1. HaWork(h) /\ HaView(vol[h]) /\ vol[h] \in Vols \ Block
    BY <1>6 DEF HaInv, HaFs
  <2>2. HaView(vol[h])'
    BY <1>4, <1>6, <2>1, HaSame
  <2>3. CASE Check(h)
    <3>1. op[h] = "Stage" /\ mnt[vol[h]] \in {"none", "live"}
      BY <1>1, <2>1, <2>3 DEF Check, NodeInv, HandlerInv, HandlerOK, TypeOK, HaView
    <3>2. \/ pc'[h] = "ok" /\ mnt[vol[h]] = "live"
          \/ pc'[h] = "nqn" /\ mnt[vol[h]] = "none"
          \/ pc'[h] = "err"
      BY <1>5, <2>3, <3>1 DEF Check
    <3>3. QED
      BY <1>4, <2>2, <3>1, <3>2 DEF HaWork
  <2>4. CASE Nqn(h) \/ Fetch(h) \/ Wait(h) \/ Refused(h)
    <3>1. op[h] = "Stage" /\ mnt[vol[h]] = "none"
      BY <1>1, <2>1, <2>4
      DEF Nqn, Fetch, Wait, Refused, NodeInv, HandlerInv, HandlerOK, HaWork
    <3>2. pc'[h] \in {"wait", "fetch", "conn", "mount", "undo", "err"}
      BY <1>5, <2>1, <2>4 DEF Nqn, Fetch, Wait, Refused, AfterFailure
    <3>3. QED
      BY <1>4, <2>2, <3>1, <3>2 DEF HaWork
  <2>5. CASE Tune(h)
    <3>1. op[h] = "Stage" /\ mnt[vol[h]] = "live"
      BY <1>1, <2>1, <2>5 DEF Tune, NodeInv, HandlerInv, HandlerOK, HaWork
    <3>2. pc'[h] = "stash"
      BY <1>5, <2>5 DEF Tune, Fails
    <3>3. QED
      BY <1>4, <2>2, <3>1, <3>2 DEF HaWork
  <2>6. CASE Glob(h) \/ Gone(h) \/ Lookup(h)
    <3>1. mnt[vol[h]] = "none"
      BY <1>1, <1>2, <2>1, <2>6 DEF Glob, Gone, Lookup, NodeInv, HandlerInv, HandlerOK, HaWork
    <3>2. pc'[h] \in {"glob", "drop", "gone", "clean", "err"}
      BY <1>5, <2>6 DEF Glob, Gone, Lookup, AfterDisconnect
    <3>3. QED
      BY <1>2, <1>4, <2>2, <3>1, <3>2 DEF HaWork
  <2>7. QED
    BY <2>3, <2>4, <2>5, <2>6
<1>7. QED
  BY <1>1, <1>2, <1>4, <1>6, HaKept

\* The steps that change controllers: nothing is mounted.
LEMMA HaPaths ==
  ASSUME UnboundInv, HaInv, ~doubled, online' = online, NEW h \in Handlers,
         Conn(h) \/ Undo(h) \/ Drop(h) \/ Cut(h)
  PROVE  HaInv'
<1>1. NodeInv /\ OwnSubsystems
  BY MonOwnSubsystems DEF UnboundInv
<1>2. /\ pc[h] \in {"conn", "undo", "drop", "undocut", "dropcut"}
      /\ pc'[h] \in {"conn", "wait", "undo", "err", "undocut", "dropcut", "gone"}
      /\ op[h] \in {"Stage", "Unstage"}
      /\ pc[h] \in {"conn", "undo", "undocut"} => op[h] = "Stage"
      /\ Framed(h) /\ UNCHANGED <<op, vol, know>>
  BY <1>1, PathSteps DEF Framed
<1>3. ASSUME HaFs(vol[h]) PROVE HaWork(h)' /\ HaView(vol[h])'
  <2>1. mnt[vol[h]] = "none"
    BY <1>2, <1>3 DEF HaInv, HaWork, HaFs
  <2>2. mnt'[vol[h]] = "none"
    BY <1>1, <2>1, PathSteps
  <2>3. know[vol[h]] \in {"staging", "unstaging"}
    BY <1>2, HaBusy
  <2>4. HaWork(h)'
    BY <1>2, <2>2 DEF HaWork
  <2>5. HaView(vol[h])'
    BY <1>2, <2>2, <2>3 DEF HaView, Staged
  <2>6. QED
    BY <2>4, <2>5
<1>4. QED
  BY <1>1, <1>2, <1>3, HaKept

\* The steps that change a mount, a bind mount or the volume context.
LEMMA HaWrites ==
  ASSUME "stash" \notin MayFail, UnboundInv, HaInv, ~doubled, HostAnswers,
         NEW h \in Handlers,
         Mount(h) \/ Stash(h) \/ Umount(h) \/ Clean(h) \/ Bind(h) \/ Unbind(h)
  PROVE  HaInv'
<1> DEFINE v == vol[h]
<1>1. NodeInv /\ TypeOK /\ online' = online
  BY DEF UnboundInv, NodeInv, HostAnswers
<1>2. /\ pc[h] \in {"mount", "stash", "umount", "clean", "bind", "unbind"} /\ v \in Vols
      /\ pc[h] \in {"mount", "stash"} => op[h] = "Stage"
      /\ pc[h] \in {"umount", "clean"} => op[h] = "Unstage"
      /\ pc[h] \in {"bind", "unbind"} => op[h] \in {"Publish", "Unpublish"}
  BY <1>1, Serving
  DEF Mount, Stash, Umount, Clean, Bind, Unbind, NodeInv, HandlerInv, HandlerOK, Past, Steps
<1>3. \/ pc[h] \in {"umount", "clean"} /\ Goto(h, "err") /\ UNCHANGED mnt
      \/ pc[h] = "mount" /\ Goto(h, "glob") /\ UNCHANGED mnt
      \/ pc[h] = "mount" /\ Goto(h, "tune") /\ mnt' = [mnt EXCEPT ![v] = "live"]
      \/ pc[h] = "stash" /\ Goto(h, "ok") /\ UNCHANGED mnt
      \/ /\ pc[h] = "umount" /\ (Goto(h, "lookup") \/ Goto(h, "err"))
         /\ mnt' = [mnt EXCEPT ![v] = "none"]
      \/ pc[h] = "clean" /\ Goto(h, "ok") /\ UNCHANGED mnt
      \/ pc[h] \in {"bind", "unbind"} /\ (\E x : Goto(h, x)) /\ UNCHANGED mnt
  BY DEF Mount, Stash, Umount, Clean, Bind, Unbind, Moves, Fails, host
<1>4. /\ UNCHANGED <<exists, paths, op, vol, idx, todo, know, await>>
      /\ \A u \in Vols \ {v} : stash'[u] = stash[u]
  BY <1>1 DEF Mount, Stash, Umount, Clean, Bind, Unbind, Moves, Fails, host, locals, kubelet,
     TypeOK
<1>5. Framed(h)
  BY <1>1, <1>3, <1>4 DEF Framed, Goto, TypeOK
<1>6. ASSUME HaFs(v) PROVE HaWork(h)' /\ HaView(v)'
  <2>1. HaWork(h) /\ HaView(v) /\ Ha(SubsysOf[v])
    BY <1>6 DEF HaInv, HaFs
  <2>2. HaWork(h)'
    <3>1. CASE pc[h] = "mount"
      BY <1>1, <1>2, <1>3, <1>4, <2>1, <3>1 DEF HaWork, Goto, TypeOK
    <3>2. CASE pc[h] = "stash"
      BY <1>1, <1>2, <1>3, <1>4, <2>1, <3>2 DEF HaWork, Goto, TypeOK
    <3>3. CASE pc[h] = "umount"
      BY <1>1, <1>2, <1>3, <1>4, <2>1, <3>3 DEF HaWork, Goto, TypeOK
    <3>4. CASE pc[h] = "clean"
      BY <1>1, <1>2, <1>3, <1>4, <2>1, <3>4 DEF HaWork, Goto, TypeOK
    <3>5. CASE pc[h] \in {"bind", "unbind"}
      BY <1>2, <1>4, <3>5 DEF HaWork
    <3>6. QED
      BY <1>2, <3>1, <3>2, <3>3, <3>4, <3>5
  <2>3. HaView(v)'
    <3>1. CASE mnt' = mnt
      BY <1>1, <1>2, <1>4, <1>6, <2>1, <3>1, HaSame
    <3>2. CASE pc[h] = "mount" /\ mnt' = [mnt EXCEPT ![v] = "live"]
      <4>1. mnt[v] = "none" /\ mnt'[v] = "live" /\ know[v] \in {"staging", "unstaging"}
        BY <1>1, <1>2, <2>1, <3>2, HaBusy DEF HaWork, TypeOK
      <4>2. \E p \in paths[SubsysOf[v]] : Works(SubsysOf[v], p)
        BY <1>2, <4>1 DEF HostAnswers
      <4>3. \E p \in paths'[SubsysOf[v]] : Works(SubsysOf[v], p)'
        BY <1>1, <1>4, <2>1, <4>2, HaWorks
      <4>4. QED
        BY <1>4, <4>1, <4>3 DEF HaView, Staged
    <3>3. CASE pc[h] = "umount" /\ mnt' = [mnt EXCEPT ![v] = "none"]
      <4>1. mnt'[v] = "none" /\ know[v] \in {"staging", "unstaging"}
        BY <1>1, <1>2, <3>3, HaBusy DEF TypeOK
      <4>2. QED
        BY <1>4, <4>1 DEF HaView, Staged
    <3>4. QED
      BY <1>3, <3>1, <3>2, <3>3
  <2>4. QED
    BY <2>2, <2>3
<1>7. QED
  BY <1>1, <1>2, <1>5, <1>6, HaKept

\* A handler that gets its lock has not touched the host yet.
LEMMA HaLock ==
  ASSUME UnboundInv, HaInv, ~doubled, online' = online, NEW h \in Handlers, Lock(h)
  PROVE  HaInv'
<1>1. NodeInv /\ TypeOK
  BY DEF UnboundInv, NodeInv
<1>2. /\ pc[h] = "lock" /\ pc' = [pc EXCEPT ![h] = FirstStep(h)]
      /\ UNCHANGED <<exists, paths, mnt, stash, op, vol, idx, todo, know, await>>
  BY DEF Lock, Goto, host, locals, kubelet
<1>3. Framed(h) /\ pc'[h] = FirstStep(h)
  BY <1>1, <1>2 DEF Framed, TypeOK
<1>4. FirstStep(h) \in {"check", "umount", "bind", "unbind"}
  BY DEF FirstStep
<1>5. HaWork(h)'
  BY <1>3, <1>4 DEF HaWork
<1>6. HaFs(vol[h]) => HaView(vol[h])'
  BY <1>2, HaSame DEF HaInv, HaFs
<1>7. QED
  BY <1>1, <1>2, <1>3, <1>5, <1>6, HaKept

\* What changes the kubelet's view of one volume, and one handler with it.
LEMMA HaViewed ==
  ASSUME UnboundInv, HaInv, ~doubled, online' = online, NEW h \in Handlers, NEW v \in Vols,
         \A u \in Vols \ {v} : know'[u] = know[u],
         \A g \in Handlers \ {h} : pc'[g] = pc[g] /\ op'[g] = op[g] /\ vol'[g] = vol[g],
         pc'[h] \in {"idle", "lock"}, UNCHANGED <<paths, mnt>>,
         HaFs(v) => /\ know'[v] \in {"out", "unstaged"} => mnt[v] = "none"
                    /\ Staged(v)' => mnt[v] = "live"
  PROVE  HaInv'
<1>1. ASSUME NEW u \in Vols, HaFs(u) PROVE HaView(u)'
  <2>1. HaView(u) /\ Ha(SubsysOf[u])
    BY <1>1 DEF HaInv, HaFs
  <2>2. mnt'[u] = "live" => \E p \in paths'[SubsysOf[u]] : Works(SubsysOf[u], p)'
    BY <2>1, HaWorks DEF HaView
  <2>3. CASE u # v
    BY <2>1, <2>2, <2>3 DEF HaView, Staged
  <2>4. CASE u = v
    BY <1>1, <2>1, <2>2, <2>4 DEF HaView
  <2>5. QED
    BY <2>3, <2>4
<1>2. ASSUME NEW g \in Handlers, HaFs(vol'[g]) PROVE HaWork(g)'
  <2>1. CASE g = h
    BY <2>1 DEF HaWork
  <2>2. CASE g # h
    <3>1. pc'[g] = pc[g] /\ op'[g] = op[g] /\ vol'[g] = vol[g] /\ HaWork(g)
      BY <1>2, <2>2 DEF HaInv
    <3>2. QED
      BY <3>1 DEF HaWork
  <2>3. QED
    BY <2>1, <2>2
<1>3. QED
  BY <1>1, <1>2 DEF HaInv, HaFs

\* The kubelet takes a volume for staged when it is mounted.
LEMMA HaReturn ==
  ASSUME UnboundInv, HaInv, ~doubled, online' = online, NEW h \in Handlers, Return(h)
  PROVE  HaInv'
<1>1. NodeInv /\ TypeOK
  BY DEF UnboundInv, NodeInv
<1>2. PICK v \in Vols : v = vol[h]
  BY <1>1, Serving DEF Return, Past, Steps
<1>3. /\ pc[h] \in {"ok", "err"} /\ op[h] \in RPCs
      /\ await[v] = h /\ know[v] = Doing(op[h])
  BY <1>1, <1>2, Serving DEF Return, UnboundInv, NodeInv, CallInv, Past, Steps
<1>4. /\ pc' = [pc EXCEPT ![h] = "idle"] /\ op' = [op EXCEPT ![h] = None]
      /\ vol' = [vol EXCEPT ![h] = None]
      /\ know' = [know EXCEPT ![v] = Conclusion(h)]
      /\ UNCHANGED <<paths, mnt>>
  BY <1>2, <1>3 DEF Return, Goto, Forget, Answer, host
<1>5. ASSUME HaFs(v)
      PROVE  /\ know'[v] \in {"out", "unstaged"} => mnt[v] = "none"
             /\ Staged(v)' => mnt[v] = "live"
  <2>1. know'[v] = Conclusion(h) /\ HaView(v) /\ HaWork(h)
    BY <1>1, <1>2, <1>4, <1>5 DEF TypeOK, HaInv
  <2>2. CASE op[h] = "Stage"
    <3>1. \/ pc[h] = "ok" /\ Conclusion(h) = "staged"
          \/ pc[h] = "err" /\ Conclusion(h) = "failed"
      BY <1>2, <1>3, <2>2 DEF Conclusion, Doing
    <3>2. QED
      BY <1>2, <2>1, <2>2, <3>1 DEF HaWork, Staged
  <2>3. CASE op[h] = "Unstage"
    <3>1. \/ pc[h] = "ok" /\ Conclusion(h) = "unstaged"
          \/ pc[h] = "err" /\ Conclusion(h) = "unstaging"
      BY <1>2, <1>3, <2>3 DEF Conclusion, Doing
    <3>2. QED
      BY <1>2, <2>1, <2>3, <3>1 DEF HaWork, Staged
  <2>4. CASE op[h] \in {"Publish", "Unpublish"}
    <3>1. know[v] \in {"publishing", "unpublishing"}
      BY <1>3, <2>4 DEF Doing
    <3>2. Conclusion(h) \in {"staged", "published", know[v]}
      BY <1>2, <1>3, <2>4, <3>1 DEF Conclusion
    <3>3. QED
      BY <2>1, <3>1, <3>2 DEF HaView, Staged
  <2>5. QED
    BY <1>3, <2>2, <2>3, <2>4 DEF RPCs
<1>6. /\ \A u \in Vols \ {v} : know'[u] = know[u]
      /\ \A g \in Handlers \ {h} : pc'[g] = pc[g] /\ op'[g] = op[g] /\ vol'[g] = vol[g]
      /\ pc'[h] = "idle"
  BY <1>1, <1>4 DEF TypeOK
<1>7. QED
  BY <1>4, <1>5, <1>6, HaViewed

\* A new call publishes only what is staged.
LEMMA HaCall ==
  ASSUME UnboundInv, HaInv, ~doubled, online' = online, NEW h \in Handlers, NEW v \in Vols,
         Call(h, v)
  PROVE  HaInv'
<1>1. NodeInv /\ TypeOK
  BY DEF UnboundInv, NodeInv
<1>2. PICK rpc \in RPCs : Begin(h, rpc, v) /\ know' = [know EXCEPT ![v] = Doing(rpc)]
  BY CallShape
<1>3. /\ pc' = [pc EXCEPT ![h] = "lock"] /\ op' = [op EXCEPT ![h] = rpc]
      /\ vol' = [vol EXCEPT ![h] = v] /\ UNCHANGED <<paths, mnt>>
  BY <1>2 DEF Begin, Goto, host
<1>4. know'[v] = Doing(rpc) /\ know'[v] \notin {"out", "unstaged"}
  BY <1>1, <1>2 DEF TypeOK, Doing
<1>5. Staged(v)' => Staged(v)
  BY <1>1 DEF Call, CallStage, CallUnstage, CallPublish, CallUnpublish, TypeOK, Staged
<1>6. HaFs(v) => (Staged(v)' => mnt[v] = "live")
  BY <1>5 DEF HaInv, HaView
<1>7. /\ \A u \in Vols \ {v} : know'[u] = know[u]
      /\ \A g \in Handlers \ {h} : pc'[g] = pc[g] /\ op'[g] = op[g] /\ vol'[g] = vol[g]
      /\ pc'[h] = "lock"
  BY <1>1, <1>2, <1>3 DEF TypeOK
<1>8. QED
  BY <1>3, <1>4, <1>6, <1>7, HaViewed

\* Volumes come and go while nothing is mounted, and a crash leaves the host and
\* what the kubelet has staged as they are.
LEMMA HaRest ==
  ASSUME UnboundInv, HaInv, ~doubled, online' = online,
         Crash \/ \E v \in Vols : Provision(v) \/ Deprovision(v)
  PROVE  HaInv'
<1>1. NodeInv /\ TypeOK
  BY DEF UnboundInv, NodeInv
<1>2. CASE Crash
  <2>1. /\ UNCHANGED <<paths, mnt>> /\ vol' = [h \in Handlers |-> None]
        /\ know' = [v \in Vols |-> Uncertain(know[v])]
    BY <1>2 DEF Crash, host
  <2>2. ASSUME NEW h \in Handlers PROVE ~HaFs(vol'[h])
    BY <2>1, ConstantsAssumption DEF HaFs, ConstantsAssumption
  <2>3. ASSUME NEW v \in Vols, HaFs(v) PROVE HaView(v)'
    <3>1. HaView(v) /\ Ha(SubsysOf[v])
      BY <2>3 DEF HaInv, HaFs
    <3>2. mnt'[v] = "live" => \E p \in paths'[SubsysOf[v]] : Works(SubsysOf[v], p)'
      BY <2>1, <3>1, HaWorks DEF HaView
    <3>3. know'[v] = know[v] \/ know'[v] = "uncertain"
      BY <2>1 DEF Uncertain
    <3>4. QED
      BY <2>1, <3>1, <3>2, <3>3 DEF HaView, Staged
  <2>4. QED
    BY <2>2, <2>3 DEF HaInv, HaFs
<1>3. ASSUME NEW v \in Vols, Provision(v) \/ Deprovision(v) PROVE HaInv'
  <2>1. UNCHANGED <<paths, pc, op, vol, know>> /\ know[v] \in {"out", "unstaged"}
    BY <1>3 DEF Provision, Deprovision, locals, kubelet
  <2>2. ASSUME NEW u \in Vols, HaFs(u) PROVE mnt'[u] = mnt[u]
    BY <1>1, <1>3, <2>1, <2>2 DEF HaInv, HaView, Provision, Deprovision, TypeOK
  <2>3. ASSUME NEW u \in Vols, HaFs(u) PROVE HaView(u)'
    BY <2>1, <2>2, <2>3, HaSame DEF HaInv
  <2>4. ASSUME NEW g \in Handlers, HaFs(vol'[g]) PROVE HaWork(g)'
    <3>1. HaWork(g) /\ vol[g] \in Vols /\ mnt'[vol[g]] = mnt[vol[g]]
      BY <2>1, <2>2, <2>4 DEF HaInv, HaFs
    <3>2. QED
      BY <2>1, <3>1 DEF HaWork
  <2>5. QED
    BY <2>3, <2>4 DEF HaInv, HaFs
<1>4. QED
  BY <1>2, <1>3

\* Beside the monitor, too, every handler works for a call that is awaited.
LEMMA MonUnboundNext ==
  ASSUME ~MayGiveUp, MonInv, UnboundInv, [MonNext]_mvars
  PROVE  UnboundInv'
<1>1. NodeInv
  BY DEF UnboundInv
<1>2. CASE World
  BY <1>1, <1>2, WorldKeeps, ApartKeeps
<1>3. CASE MonStep
  BY <1>1, <1>3, MonitorHost, ApartKeeps
<1>4. CASE Next \/ UNCHANGED mvars
  BY <1>4, UnboundNext DEF mvars
<1>5. ASSUME NEW h \in Handlers, Refused(h) PROVE UnboundInv'
  <2>1. Progress(h) /\ pc[h] = "conn" /\ NodeInv'
    BY <1>1, <1>5, RefusedProgress, ProgressKeeps
  <2>2. /\ pc' = [pc EXCEPT ![h] = AfterFailure(idx[h])] /\ AfterFailure(idx[h]) # "ok"
        /\ UNCHANGED <<op, vol, know, await, binds>>
    BY <1>5 DEF Refused, Moves, Goto, AfterFailure, host, locals, kubelet
  <2>3. QED
    BY <2>1, <2>2 DEF UnboundInv, UnpublishedMeansUnbound, NodeInv, TypeOK
<1>6. CASE Plugin
  BY <1>4, <1>5, <1>6 DEF Plugin, Next
<1>7. QED
  BY <1>2, <1>3, <1>4, <1>6 DEF MonNext

\* Every step keeps HaInv.
LEMMA HaNext ==
  ASSUME ~MayGiveUp, "tune" \notin MayFail, "stash" \notin MayFail,
         MonInv, UnboundInv, HaInv, [MonNext]_mvars
  PROVE  HaInv'
<1>1. CASE UNCHANGED mvars
  <2>1. UNCHANGED <<vars, world>>
    BY <1>1 DEF mvars
  <2>2. Apart /\ UNCHANGED <<paths, mnt, online, doubled>>
    BY <2>1 DEF vars, world, Apart
  <2>3. doubled => HaInv'
    BY <2>2 DEF HaInv
  <2>4. QED
    BY <2>2, <2>3, HaApart
<1>2. SUFFICES ASSUME ~doubled', World \/ Plugin \/ MonStep
               PROVE  HaInv'
  BY <1>1 DEF HaInv, MonNext
<1>3. CASE World \/ MonStep
  BY <1>2, <1>3, HaWorld, HaMonitor
<1>4. CASE Plugin
  <2>1. HostAnswers /\ ~doubled /\ online' = online
    BY <1>2, <1>4 DEF Plugin, HostAnswers
  <2>2. ASSUME NEW h \in Handlers, Lock(h) \/ Step(h) \/ Refused(h) PROVE HaInv'
    BY <2>1, <2>2, HaReads, HaPaths, HaWrites, HaReturn, HaLock DEF Step
  <2>3. ASSUME NEW v \in Vols PROVE ~GiveUp(v)
    BY DEF GiveUp
  <2>4. QED
    BY <1>4, <2>1, <2>2, <2>3, HaCall, HaRest DEF Plugin
<1>5. QED
  BY <1>2, <1>3, <1>4

\* When the kubelet waits for its calls and nothing fails between the mount and
\* the answer of NodeStageVolume, the file system of an "ha" volume keeps a
\* controller that works through every outage that meets it with all its
\* controllers, whatever the monitor does beside the handlers and however often
\* the plugin crashes.
THEOREM HaInvariance ==
  ASSUME ~MayGiveUp, "tune" \notin MayFail, "stash" \notin MayFail
  PROVE  MonSpec => []HaInv
<1>1. MonInit => MonInv /\ UnboundInv /\ HaInv
  <2>1. MonInit => HaInv
    BY DEF MonInit, Init, HaInv, HaFs, HaView, HaWork, Staged
  <2>2. QED
    BY <2>1, MonInvInit, UnboundInit DEF MonInit
<1>2. MonInv /\ UnboundInv /\ HaInv /\ [MonNext]_mvars => (MonInv /\ UnboundInv /\ HaInv)'
  BY MonInvNext, MonUnboundNext, HaNext
<1>3. QED
  BY <1>1, <1>2, PTL DEF MonSpec

\* Under the same conditions, when the "ha" volumes have file systems, a staged
\* one has a controller connected and its file system mounted and alive.
THEOREM HaUsable ==
  ASSUME ~MayGiveUp, "tune" \notin MayFail, "stash" \notin MayFail,
         \A v \in Block : ~Ha(SubsysOf[v])
  PROVE  MonSpec => []HaStaysUsable
<1>1. HaInv => HaStaysUsable
  <2>1. SUFFICES ASSUME HaInv, NEW v \in Vols, Ha(SubsysOf[v]), Staged(v), ~doubled
                 PROVE  paths[SubsysOf[v]] # {} /\ mnt[v] = "live"
    BY DEF HaStaysUsable
  <2>2. HaView(v)
    BY <2>1 DEF HaInv, HaFs
  <2>3. QED
    BY <2>1, <2>2 DEF HaView
<1>2. QED
  BY <1>1, HaInvariance, PTL
=============================================================================
