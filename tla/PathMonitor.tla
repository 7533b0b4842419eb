----------------------------- MODULE PathMonitor -----------------------------
(***************************************************************************)
(* MonitorConnection of pkg/util/initiator.go, the goroutine that          *)
(* newNodeServer starts beside the gRPC handlers: it looks for subsystems  *)
(* with one path left and connects the missing one (lvols of type "ha"),   *)
(* or follows an lvol that has moved to another storage node ("single").   *)
(* It takes no volume lock, so it is composed here with the handlers of    *)
(* NodeServer on the same host, and with storage nodes that come and go.   *)
(*                                                                         *)
(* Every volume has a subsystem of its own.  Storage nodes are numbered    *)
(* like the connections of an "ha" lvol: connection i leads to node i, the *)
(* first one is the primary.                                               *)
(***************************************************************************)
EXTENDS NodeServer, FiniteSets

CONSTANTS
  ConfigFile,  \* the xPU configuration file is there
  Rechecks,    \* rechecks of confirmSubsystemStillSinglePath: 5 in the code
  MaxVols,     \* how many of the volumes are used
  MaxOutages   \* how often a storage node may go down

Nodes == 1..NPaths

\* A subsystem with one path, as nvme list-subsys shows it.
Snapshots ==
  [vol : Vols, path : Nodes, state : {"live", "connecting"},
   ana : {"optimized", "non-optimized", "none"}, addr : Nodes]

ASSUME MonitorAssumption ==
  /\ ConfigFile \in BOOLEAN
  /\ Rechecks \in Nat \ {0} /\ MaxVols \in Nat /\ MaxOutages \in Nat
  /\ \A u, v \in Vols : SubsysOf[u] = SubsysOf[v] => u = v
  /\ None \notin Snapshots \cup Nodes

VARIABLES
  \* the storage nodes
  online,   \* the storage nodes that are up
  home,     \* home[s]: the node that the first connection of s leads to
  at,       \* at[s]: that node when the host connected to it
  addr,     \* addr[h]: the node that a handler was told to connect to
  outages,  \* outages so far
  \* observers
  doubled,  \* a node went down while an "ha" subsystem lacked a path
  lost,     \* subsystems whose last path ended by ctrl_loss_tmo
  \* the monitor
  mpc,      \* its next step
  left,     \* devices of this round that it has not looked at
  seen,     \* the subsystem as nvme list-subsys showed it, with its device
  count,    \* rechecks done
  conn      \* the node that the monitor was told to connect to, or None

world   == <<online, home, at, addr, outages, doubled, lost>>
monitor == <<mpc, left, seen, count, conn>>
mvars   == <<vars, world, monitor>>

MonTypeOK ==
  /\ TypeOK
  /\ online \subseteq Nodes /\ outages \in 0..MaxOutages
  /\ home \in [Subsystems -> Nodes] /\ at \in [Subsystems -> Nodes]
  /\ addr \in [Handlers -> Nodes]
  /\ doubled \in BOOLEAN /\ lost \subseteq Subsystems
  /\ mpc \in {"off", "scan", "confirm", "node", "fetch", "cut", "conn"}
  /\ left \subseteq Vols
  /\ seen \in Snapshots \cup {None}
  /\ count \in 0..Rechecks - 1
  /\ conn \in Nodes \cup {None}

\* newNodeServer returns before it starts the monitor when there is no
\* configuration file.  (One that cannot be parsed makes it fail, and then the
\* plugin does not start: no behaviour of this module.)
MonStart == IF ConfigFile THEN "scan" ELSE "off"

MonInit ==
  /\ Init
  /\ online = Nodes
  /\ home = [s \in Subsystems |-> 1]
  /\ at = [s \in Subsystems |-> 1]
  /\ addr = [h \in Handlers |-> 1]
  /\ outages = 0
  /\ doubled = FALSE /\ lost = {}
  /\ mpc = MonStart
  /\ left = {} /\ seen = None /\ count = 0 /\ conn = None

-----------------------------------------------------------------------------
\* Subsystems and their paths.

\* The serial number of the device: "single" or "ha".
Ha(s) == PathsOf[s] > 1

\* The node that connection p of s leads to now, and the one that the host's
\* controller was connected to.
Dest(s, p)   == IF Ha(s) THEN p ELSE home[s]
NodeAt(s, p) == IF Ha(s) THEN p ELSE at[s]

\* A controller is "live" when it reaches its target, else "connecting".
Works(s, p) == NodeAt(s, p) = Dest(s, p) /\ Dest(s, p) \in online

\* The target node has the subsystem.
Served(s) == \E v \in exists : SubsysOf[v] = s

\* The ANA state of a path: the secondary is promoted while the primary is
\* down.  The only path of a "single" lvol shows none while it connects.
Ana(s, p) ==
  CASE ~Ha(s) -> IF Works(s, p) THEN "optimized" ELSE "none"
    [] OTHER  -> IF p = 1 \/ 1 \notin online THEN "optimized" ELSE "non-optimized"

-----------------------------------------------------------------------------
\* Storage nodes.

NodeDown(n) ==
  /\ n \in online /\ outages < MaxOutages
  /\ online' = online \ {n}
  /\ outages' = outages + 1
  /\ doubled' = (doubled \/ \E s \in Subsystems :
                   /\ Ha(s) /\ paths[s] # {}
                   /\ \E p \in 1..PathsOf[s] : p \notin paths[s] \/ ~Works(s, p))
  /\ UNCHANGED <<vars, home, at, addr, lost, monitor>>

NodeUp(n) ==
  /\ n \notin online
  /\ online' = online \cup {n}
  /\ UNCHANGED <<vars, home, at, addr, outages, doubled, lost, monitor>>

\* The cluster brings a "single" lvol up on another node.
Move(s) ==
  /\ ~Ha(s) /\ Served(s) /\ home[s] \notin online
  /\ \E n \in online : home' = [home EXCEPT ![s] = n]
  /\ UNCHANGED <<vars, online, at, addr, outages, doubled, lost, monitor>>

\* A controller that does not come back within ctrl_loss_tmo is removed.
CtrlLoss(s, p) ==
  /\ p \in paths[s] /\ ~Works(s, p)
  /\ SetPaths(s, paths[s] \ {p})
  /\ lost' = IF paths[s] = {p} THEN lost \cup {s} ELSE lost
  /\ UNCHANGED <<exists, stash, binds, lock, pc, locals, kubelet, faults>>
  /\ UNCHANGED <<online, home, at, addr, outages, doubled, monitor>>

World ==
  \/ \E n \in Nodes : NodeDown(n) \/ NodeUp(n)
  \/ \E s \in Subsystems : Move(s)
  \/ \E s \in Subsystems : \E p \in paths[s] : CtrlLoss(s, p)

-----------------------------------------------------------------------------
\* The handlers of NodeServer on this host.

\* The connections that a handler fetched are those of a target by now.
Reaches(h, p) ==
  LET s == Subsys(h) IN Dest(s, p) \in online /\ (~Ha(s) => addr[h] = home[s])

\* nvme connect to a node that is down, or that the lvol has left since its
\* connections were fetched, fails after its retries.
Refused(h) ==
  /\ pc[h] = "conn" /\ ~Reaches(h, idx[h])
  /\ Moves(h, AfterFailure(idx[h]))

\* Fetch keeps the address for the connections that follow.
Fetched(h) ==
  CASE pc[h] = "fetch" /\ pc'[h] = "conn" -> home[Subsys(h)]
    [] pc[h] = "conn" /\ pc'[h] = "conn"  -> addr[h]
    [] OTHER -> 1

\* Connecting and mounting need a node that answers; a controller that is
\* new keeps the address that it was connected with.
HostAnswers ==
  /\ \A h \in Handlers : pc[h] = "conn" =>
       \A p \in paths'[Subsys(h)] \ paths[Subsys(h)] : Reaches(h, p)
  /\ \A v \in Vols : mnt[v] # "live" /\ mnt'[v] = "live" =>
       \E p \in paths[SubsysOf[v]] : Works(SubsysOf[v], p)
  /\ at' = [s \in Subsystems |-> IF paths[s] = {} THEN home[s] ELSE at[s]]
  /\ addr' = [h \in Handlers |-> Fetched(h)]
  /\ UNCHANGED <<online, home, outages, doubled, lost>>

Used == {v \in Vols : v \in exists \/ know[v] # "out"}

Plugin ==
  \/ /\ \/ \E h \in Handlers : Lock(h) \/ Step(h) \/ Refused(h)
        \/ \E h \in Handlers, v \in Vols : Call(h, v)
        \/ \E v \in Vols : GiveUp(v) \/ Deprovision(v)
        \/ \E v \in Vols : Cardinality(Used) < MaxVols /\ Provision(v)
     /\ HostAnswers /\ UNCHANGED monitor
  \/ /\ Crash
     /\ HostAnswers
     /\ mpc' = MonStart /\ left' = {} /\ seen' = None /\ count' = 0 /\ conn' = None

-----------------------------------------------------------------------------
\* The monitor.

\* It goes on with the next device of this round.
NextDevice(l) ==
  /\ mpc' = "scan" /\ left' = l
  /\ seen' = None /\ count' = 0 /\ conn' = None

Skip == NextDevice(left) /\ UNCHANGED <<vars, world>>

\* A command or a request fails: logged, and on to the next device.
MonFails(c) ==
  /\ c \in MayFail /\ Fault
  /\ NextDevice(left)
  /\ UNCHANGED <<host, lock, pc, locals, kubelet, world>>

\* The rest of this iteration of the monitor's loop comes at step m.
MonGoto(m) ==
  /\ mpc' = m
  /\ UNCHANGED <<vars, world, left, seen, count, conn>>

\* getNVMeDeviceInfos: nvme list, after a sleep or, when it failed, at once.
MonList ==
  /\ mpc = "scan" /\ left = {}
  /\ left' = {v \in exists : v \in Devices(SubsysOf[v])}
  /\ UNCHANGED <<vars, world, mpc, seen, count, conn>>

\* getSubsystemsForDevice: the subsystem of the next device is a case for the
\* monitor when it has exactly one path.
MonPick(v) ==
  LET s == SubsysOf[v] IN
  /\ mpc = "scan" /\ v \in left
  /\ \/ \E p \in paths[s] :
          /\ v \in Devices(s) /\ paths[s] = {p}
          /\ seen' = [vol |-> v, path |-> p, ana |-> Ana(s, p), addr |-> NodeAt(s, p),
                      state |-> IF Works(s, p) THEN "live" ELSE "connecting"]
          /\ mpc' = "confirm" /\ left' = left \ {v} /\ count' = 0
          /\ UNCHANGED <<vars, world, conn>>
     \/ /\ v \notin Devices(s) \/ \A p \in paths[s] : paths[s] # {p}
        /\ NextDevice(left \ {v}) /\ UNCHANGED <<vars, world>>
     \/ /\ "list" \in MayFail /\ Fault
        /\ NextDevice(left \ {v})
        /\ UNCHANGED <<host, lock, pc, locals, kubelet, world>>

\* The subsystem that the monitor works on, and whether nvme list-subsys of
\* its device still shows it.
Watched  == SubsysOf[seen.vol]
Present  == seen.vol \in Devices(Watched)
OnePath  == \E p \in paths[Watched] : paths[Watched] = {p}

\* After the last recheck: the path as it was seen before the rechecks
\* decides whether there is something to do.
AfterConfirm ==
  IF \/ seen.state = "connecting" /\ ~Ha(Watched)
     \/ seen.ana # "none" /\ Ha(Watched)
    THEN "node" ELSE "scan"

\* One more recheck that does not speak against the case.
Confirmed ==
  /\ count' = (count + 1) % Rechecks
  /\ mpc' = IF count + 1 < Rechecks THEN "confirm" ELSE AfterConfirm
  /\ seen' = IF mpc' = "scan" THEN None ELSE seen
  /\ UNCHANGED <<host, lock, pc, locals, kubelet, world, left, conn>>

\* confirmSubsystemStillSinglePath: a recheck that fails, because the device
\* is gone or for another reason, counts like one that sees a single path.
MonConfirm ==
  /\ mpc = "confirm"
  /\ \/ (Present => OnePath) /\ NoFault /\ Confirmed
     \/ ~(Present /\ OnePath) /\ Skip
     \/ "list" \in MayFail /\ Fault /\ Confirmed

\* Mutant: the secondary node is taken for the one to ask about.
ShouldConnectInverted(ana, current, target) ==
  IF ana = "optimized" THEN current = target ELSE current # target

ShouldConnectToNode(ana, current, target) ==
  IF ana = "optimized" THEN current # target ELSE current = target

\* nodes and node_id of the lvol.
LvolNodes(s) == IF Ha(s) THEN 1..PathsOf[s] ELSE {home[s]}

\* checkOnlineNode: GET /lvol/id and GET /storagenode/id of the nodes that
\* ShouldConnectToNode selects.
MonNode ==
  /\ mpc = "node"
  /\ \/ /\ Served(Watched)
        /\ \E n \in LvolNodes(Watched) \cap online :
             ShouldConnectToNode(seen.ana, Dest(Watched, 1), n)
        /\ MonGoto("fetch")
     \/ /\ \/ ~Served(Watched)
           \/ \A n \in LvolNodes(Watched) \cap online :
                ~ShouldConnectToNode(seen.ana, Dest(Watched, 1), n)
        /\ Skip
     \/ MonFails("fetch")

\* Mutant: the number of connections is not looked at.
SwapAny(s) == Dest(s, 1) # seen.addr

\* The lvol has one connection, which leads to another address than the path.
MustSwap(s) == ~Ha(s) /\ Dest(s, 1) # seen.addr

\* Mutant: the index of the connection that is there.
SameIndex(ana, s) == IF ana = "optimized" /\ Ha(s) THEN 1 ELSE 2

\* connIndex, counted from 1.
ConnIndex(ana, s) == IF ana = "optimized" /\ Ha(s) THEN 2 ELSE 1

\* The connection that was fetched is the one to make at step m.
MonTarget(m) ==
  /\ conn' = Dest(Watched, ConnIndex(seen.ana, Watched))
  /\ mpc' = m
  /\ UNCHANGED <<vars, world, left, seen, count>>

\* checkOnlineNode: GET /lvol/connect/id; what it answers is used below
\* however long the disconnect and the retries of the connect take.
MonFetch ==
  /\ mpc = "fetch"
  /\ \/ Served(Watched) /\ MustSwap(Watched) /\ MonTarget("cut")
     \/ Served(Watched) /\ ~MustSwap(Watched) /\ Ha(Watched) /\ MonTarget("conn")
     \/ /\ Served(Watched) => ~MustSwap(Watched) /\ ~Ha(Watched)
        /\ Skip
     \/ MonFails("fetch")

\* A step of the monitor that changes the controllers of s.
MonPaths(s, new) ==
  /\ SetPaths(s, new)
  /\ UNCHANGED <<exists, stash, binds, lock, pc, locals, kubelet>>
  /\ UNCHANGED <<online, home, addr, outages, doubled, lost>>

\* disconnectViaNVMe: nvme disconnect -d with the controller's name as it was
\* seen.  A controller connected meanwhile has taken over the free name.
MonCut ==
  /\ mpc = "cut"
  /\ \/ /\ paths[Watched] # {} /\ NoFault
        /\ MonPaths(Watched, {})
        /\ mpc' = "conn" /\ UNCHANGED <<at, left, seen, count, conn>>
     \/ paths[Watched] = {} /\ Skip
     \/ MonFails("disconnect")

\* The subsystem is at the address that was fetched.
Reachable(s, i) == conn = Dest(s, i) /\ conn \in online /\ Served(s)

\* connectViaNVMe to the address that was fetched.  As in Connect of the
\* initiator, connecting what is connected fails.
MonConn ==
  LET s == Watched
      i == ConnIndex(seen.ana, s)
  IN
  /\ mpc = "conn"
  /\ \/ /\ i \notin paths[s] /\ Reachable(s, i)
        /\ \/ NoFault
           \/ "connect" \in MayLose /\ Fault
        /\ MonPaths(s, paths[s] \cup {i})
        /\ at' = IF i = 1 THEN [at EXCEPT ![s] = home[s]] ELSE at
        /\ NextDevice(left)
     \/ /\ i \in paths[s] \/ ~Reachable(s, i)
        /\ Skip
     \/ MonFails("connect")

MonStep ==
  \/ MonList \/ MonConfirm \/ MonNode \/ MonFetch \/ MonCut \/ MonConn
  \/ \E v \in left : MonPick(v)

MonNext == World \/ Plugin \/ MonStep

MonSpec == MonInit /\ [][MonNext]_mvars

(***************************************************************************)
(* The monitor loops for ever; nvme connect and disconnect run with a      *)
(* timeout, requests too, and nvme list is taken to end.                   *)
(***************************************************************************)
MonFairSpec == MonSpec /\ WF_mvars(MonStep)

-----------------------------------------------------------------------------

Staged(v) == know[v] \in {"staged", "publishing", "published", "unpublishing"}

\* The monitor's step and its snapshot, beside the invariant of the handlers: it
\* works on a subsystem only after its rechecks, and the only controller that it
\* ever disconnects is the one of a "single" lvol that was connecting.
MonInv ==
  /\ NodeInv /\ MonTypeOK
  /\ seen = None <=> mpc \in {"off", "scan"}
  /\ mpc # "confirm" => count = 0
  /\ mpc = "cut" => ~Ha(Watched)
  /\ conn # None <=> mpc \in {"cut", "conn"}
  /\ mpc \in {"node", "fetch", "cut"} => Ha(Watched) \/ seen.state = "connecting"

\* Whatever the monitor does beside the handlers, an "ha" volume that is
\* staged keeps a controller and its file system through any number of
\* outages, provided that no node goes down while a path of an
\* "ha" subsystem is missing: the monitor has restored what the last outage
\* took away, and takes away nothing itself.
HaStaysUsable ==
  \A v \in Vols : Ha(SubsysOf[v]) /\ Staged(v) /\ ~doubled =>
    /\ paths[SubsysOf[v]] # {}
    /\ v \notin Block => mnt[v] = "live"

\* The file system of an "ha" volume never dies, one of its controllers works
\* while it is mounted, and it is mounted while the volume is staged.
HaView(v) ==
  /\ mnt[v] # "dead"
  /\ mnt[v] = "live" => \E p \in paths[SubsysOf[v]] : Works(SubsysOf[v], p)
  /\ know[v] \in {"out", "unstaged"} => mnt[v] = "none"
  /\ Staged(v) => mnt[v] = "live"

\* The handlers take controllers down only when nothing is mounted.
HaWork(h) ==
  LET v == vol[h] IN
  /\ op[h] = "Stage" =>
       /\ pc[h] \in {"nqn", "fetch", "conn", "undo", "undocut", "wait", "mount", "glob",
                     "drop", "dropcut", "gone"} => mnt[v] = "none"
       /\ pc[h] \in {"tune", "stash", "ok"} => mnt[v] = "live"
  /\ op[h] = "Unstage" =>
       /\ pc[h] \in {"lookup", "glob", "drop", "dropcut", "gone", "clean", "ok"}
            => mnt[v] = "none"

HaFs(v) == v \in Vols \ Block /\ Ha(SubsysOf[v])

\* The inductive strengthening of HaStaysUsable, for the file systems.
HaInv ==
  ~doubled =>
    /\ \A v \in Vols : HaFs(v) => HaView(v)
    /\ \A h \in Handlers : HaFs(vol[h]) => HaWork(h)

\* The monitor restores the missing path of a staged "ha" volume, unless a
\* storage node of that volume stays down.
RedundancyRestored ==
  \A v \in {u \in Vols : Ha(SubsysOf[u])} :
    LET s == SubsysOf[v] IN
    Staged(v) /\ paths[s] # {} ~>
      \/ paths[s] \in {{}, 1..PathsOf[s]} \/ ~Staged(v)
      \/ ~(1..PathsOf[s] \subseteq online)

\* The monitor is about to disconnect s, or has done so, for a node that the
\* lvol has left again since the monitor asked.
Outdated(s) == mpc \in {"cut", "conn"} /\ Watched = s /\ conn # Dest(s, 1)

\* The monitor follows a "single" lvol that moved: the volume is connected to
\* the node that has it now, unless that node is down, a fault hit, the
\* controller was given up by the kernel first, or the lvol moved once more
\* between the monitor's request and its nvme connect.
MovedFollowed ==
  \A v \in {u \in Vols : ~Ha(SubsysOf[u])} :
    LET s == SubsysOf[v] IN
    Staged(v) /\ paths[s] # {} /\ at[s] # home[s] ~>
      \/ paths[s] # {} /\ at[s] = home[s]
      \/ ~Staged(v) \/ home[s] \notin online \/ faults > 0 \/ s \in lost
      \/ Outdated(s)
=============================================================================
