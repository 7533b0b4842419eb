--------------------------- MODULE NodeHostProofs ---------------------------
(***************************************************************************)
(* Proofs about what the kubelet was told and what the host has, for any   *)
(* number of handlers, volumes, connections and faults.  The assumptions   *)
(* of each theorem are those under which the code keeps its promise: every *)
(* volume has a subsystem of its own and the kubelet waits for its calls;  *)
(* and, for what is staged, the plugin does not crash.                     *)
(***************************************************************************)
EXTENDS NodeServerProofs

\* One namespace per subsystem.
OwnSubsystems == \A u, v \in Vols : SubsysOf[u] = SubsysOf[v] => u = v

\* A step of h between Lock and Return leaves the other handlers and the other
\* volumes alone.
Framed(h) ==
  /\ UNCHANGED <<exists, op, vol, know, await>>
  /\ \A g \in Handlers \ {h} : pc'[g] = pc[g] /\ idx'[g] = idx[g] /\ todo'[g] = todo[g]
  /\ \A v \in Vols \ {vol[h]} :
       /\ paths'[SubsysOf[v]] = paths[SubsysOf[v]]
       /\ mnt'[v] = mnt[v] /\ stash'[v] = stash[v]

\* A device of the subsystem is there exactly when the volume exists and one of
\* its controllers is connected.
LEMMA OneDevice ==
  ASSUME OwnSubsystems, NodeInv, NEW v \in Vols, v \in exists
  PROVE  /\ v \in Devices(SubsysOf[v]) <=> paths[SubsysOf[v]] # {}
         /\ Devices(SubsysOf[v]) = {} <=> paths[SubsysOf[v]] = {}
         /\ \A u, w \in Devices(SubsysOf[v]) : u = w
  BY DEF OwnSubsystems, NodeInv, TypeOK, Devices

\* Setting the controllers of a volume's subsystem.
LEMMA PathsSet ==
  ASSUME OwnSubsystems, NodeInv, NEW v \in Vols, NEW new, SetPaths(SubsysOf[v], new)
  PROVE  /\ paths'[SubsysOf[v]] = new
         /\ mnt'[v] = IF new = {} /\ mnt[v] = "live" THEN "dead" ELSE mnt[v]
         /\ \A u \in Vols \ {v} : paths'[SubsysOf[u]] = paths[SubsysOf[u]] /\ mnt'[u] = mnt[u]
  BY ConstantsAssumption DEF ConstantsAssumption, OwnSubsystems, NodeInv, TypeOK, SetPaths

\* A step that changes nothing but where its handler is.
LEMMA MovesFramed ==
  ASSUME NodeInv, NEW h \in Handlers, NEW x, NEW c, Moves(h, x) \/ Fails(h, c, x)
  PROVE  /\ Framed(h) /\ pc'[h] = x
         /\ UNCHANGED <<paths, mnt, stash, idx, todo>>
  BY DEF Moves, Fails, Goto, host, locals, kubelet, NodeInv, TypeOK, Framed

\* What one handler does keeps OffInv if it is right for that handler.  A view
\* that says "off the host" is of a volume that no handler works on.
LEMMA OffKept ==
  ASSUME OffInv, UnboundInv', NEW h \in Handlers, pc[h] # "idle", Framed(h), OffWork(h)'
  PROVE  OffInv'
<1>1. vol[h] \in Vols /\ know[vol[h]] = Doing(op[h])
  BY DEF OffInv, UnboundInv, NodeInv, HandlerInv, HandlerOK, TypeOK, CallInv
<1>2. know[vol[h]] \notin {"out", "unstaged"}
  BY <1>1 DEF Doing
<1>3. \A v \in Vols : OffView(v)'
  BY <1>2 DEF OffInv, OffView, Framed, Off
<1>4. ASSUME NEW g \in Handlers, g # h PROVE OffWork(g)'
  <2>1. CASE pc[g] = "idle"
    BY <1>4, <2>1 DEF OffWork, Framed
  <2>2. CASE pc[g] # "idle"
    <3>1. vol[g] \in Vols \ {vol[h]}
      BY <1>4, <2>2 DEF OffInv, UnboundInv, NodeInv, HandlerInv, HandlerOK, TypeOK
    <3>2. OffWork(g)
      BY DEF OffInv
    <3>3. QED
      BY <1>4, <3>1, <3>2 DEF OffWork, Framed
  <2>3. QED
    BY <2>1, <2>2
<1>5. QED
  BY <1>3, <1>4 DEF OffInv

\* A volume that a handler works on exists.
LEMMA ServedExists ==
  ASSUME OffInv, NEW h \in Handlers, pc[h] # "idle"
  PROVE  vol[h] \in Vols /\ vol[h] \in exists
<1>1. vol[h] \in Vols /\ know[vol[h]] = Doing(op[h])
  BY DEF OffInv, UnboundInv, NodeInv, HandlerInv, HandlerOK, TypeOK, CallInv
<1>2. know[vol[h]] \notin {"out", "unstaged"}
  BY <1>1 DEF Doing
<1>3. QED
  BY <1>1, <1>2 DEF OffInv, OffView

\* The steps that only look: Gone lets NodeUnstageVolume go on only when no
\* device of the subsystem is left, whatever commands failed before.
LEMMA OffReads ==
  ASSUME OwnSubsystems, OffInv, UnboundInv', NEW h \in Handlers,
         \/ Check(h) \/ Nqn(h) \/ Fetch(h) \/ Wait(h) \/ Tune(h) \/ Glob(h)
         \/ Gone(h) \/ Lookup(h)
  PROVE  OffInv'
<1>1. NodeInv /\ OffWork(h)
  BY DEF OffInv, UnboundInv
<1>2. pc[h] # "idle" /\ op[h] \in {"Stage", "Unstage"}
  BY <1>1 DEF Check, Nqn, Fetch, Wait, Tune, Glob, Gone, Lookup, NodeInv, HandlerInv, HandlerOK
<1>3. \E x, c : Moves(h, x) \/ Fails(h, c, x)
  BY DEF Check, Nqn, Fetch, Wait, Tune, Glob, Gone, Lookup
<1>4. Framed(h) /\ UNCHANGED <<paths, mnt, stash, vol, op>>
  BY <1>1, <1>3, MovesFramed DEF Framed
<1>5. vol[h] \in Vols /\ vol[h] \in exists
  BY <1>2, ServedExists
<1>6. ASSUME NEW x, NEW c, Moves(h, x) \/ Fails(h, c, x) PROVE pc'[h] = x
  BY <1>1, <1>6, MovesFramed
<1>7. OffWork(h)'
  <2>1. CASE op[h] = "Stage"
    BY <1>4, <2>1 DEF OffWork
  <2>2. CASE op[h] = "Unstage"
    <3>1. pc[h] \in {"lookup", "glob", "gone"}
      BY <1>1, <2>2
      DEF Check, Nqn, Fetch, Wait, Tune, Glob, Gone, Lookup, NodeInv, HandlerInv, HandlerOK
    <3>2. mnt[vol[h]] = "none"
      BY <1>1, <2>2, <3>1 DEF OffWork
    <3>3. CASE Lookup(h) \/ Glob(h)
      <4>1. pc'[h] \in {"glob", "drop", "gone", "err"}
        BY <1>1, <1>5, <1>6, <3>3, OneDevice DEF Lookup, Glob, Subsys
      <4>2. QED
        BY <1>4, <3>2, <4>1 DEF OffWork
    <3>4. CASE Gone(h)
      <4>1. pc'[h] = "err" \/ (pc'[h] = "clean" /\ paths[SubsysOf[vol[h]]] = {})
        BY <1>1, <1>5, <1>6, <2>2, <3>4, OneDevice DEF Gone, Subsys, AfterDisconnect
      <4>2. QED
        BY <1>4, <3>2, <4>1 DEF OffWork
    <3>5. QED
      BY <3>1, <3>3, <3>4 DEF Check, Nqn, Fetch, Wait, Tune
  <2>3. QED
    BY <1>2, <2>1, <2>2
<1>8. QED
  BY <1>2, <1>4, <1>7, OffKept

\* The connections: nvme connect, and the two ways to take them down.  What is
\* not mounted stays so.
LEMMA PathSteps ==
  ASSUME OwnSubsystems, NodeInv, NEW h \in Handlers,
         Conn(h) \/ Undo(h) \/ Drop(h) \/ Cut(h)
  PROVE  /\ Framed(h) /\ UNCHANGED stash
         /\ pc[h] \in {"conn", "undo", "drop", "undocut", "dropcut"}
         /\ pc'[h] \in {"conn", "wait", "undo", "err", "undocut", "dropcut", "gone"}
         /\ op[h] \in {"Stage", "Unstage"} /\ vol[h] \in Vols
         /\ pc[h] \in {"conn", "undo", "undocut"} => op[h] = "Stage"
         /\ mnt[vol[h]] = "none" => mnt'[vol[h]] = "none"
<1> DEFINE v == vol[h]
           s == SubsysOf[vol[h]]
<1>1. /\ pc[h] \in {"conn", "undo", "drop", "undocut", "dropcut"}
      /\ op[h] \in {"Stage", "Unstage"} /\ v \in Vols
      /\ pc[h] \in {"conn", "undo", "undocut"} => op[h] = "Stage"
  BY Serving
  DEF Conn, Undo, Drop, Cut, NodeInv, HandlerInv, HandlerOK, Past, Steps
<1>2. /\ UNCHANGED <<exists, stash, op, vol, know, await>>
      /\ \E x \in {"conn", "wait", "undo", "err", "undocut", "dropcut", "gone"} : Goto(h, x)
      /\ \A g \in Handlers \ {h} : idx'[g] = idx[g] /\ todo'[g] = todo[g]
      /\ UNCHANGED <<paths, mnt>> \/ \E new : SetPaths(s, new)
  <2>1. CASE Conn(h)
    BY <2>1
    DEF Conn, AfterFailure, Moves, Fails, host, locals, kubelet, NodeInv, TypeOK, Subsys
  <2>2. CASE Undo(h) \/ Drop(h)
    BY <2>2
    DEF Undo, Drop, Resolve, Moves, Fails, host, locals, kubelet, NodeInv, TypeOK
  <2>3. CASE Cut(h)
    <3>1. pc' = pc => Goto(h, pc[h])
      BY DEF Goto, NodeInv, TypeOK
    <3>2. QED
      BY <1>1, <2>3, <3>1
      DEF Cut, Moves, host, locals, kubelet, NodeInv, TypeOK, Subsys
  <2>4. QED
    BY <2>1, <2>2, <2>3
<1>3. /\ mnt[v] = "none" => mnt'[v] = "none"
      /\ \A u \in Vols \ {v} : paths'[SubsysOf[u]] = paths[SubsysOf[u]] /\ mnt'[u] = mnt[u]
  BY <1>1, <1>2, PathsSet
<1>4. Framed(h) /\ pc'[h] \in {"conn", "wait", "undo", "err", "undocut", "dropcut", "gone"}
  BY <1>2, <1>3 DEF Framed, Goto, NodeInv, TypeOK
<1>5. QED
  BY <1>1, <1>2, <1>3, <1>4

\* They keep OffInv: NodeUnstageVolume disconnects what is not mounted.
LEMMA OffPaths ==
  ASSUME OwnSubsystems, OffInv, UnboundInv', NEW h \in Handlers,
         Conn(h) \/ Undo(h) \/ Drop(h) \/ Cut(h)
  PROVE  OffInv'
<1>1. NodeInv /\ OffWork(h)
  BY DEF OffInv, UnboundInv
<1>2. /\ pc[h] \in {"conn", "undo", "drop", "undocut", "dropcut"}
      /\ pc'[h] \in {"conn", "wait", "undo", "err", "undocut", "dropcut", "gone"}
      /\ pc[h] \in {"conn", "undo", "undocut"} => op[h] = "Stage"
      /\ mnt[vol[h]] = "none" => mnt'[vol[h]] = "none"
      /\ Framed(h) /\ UNCHANGED <<op, vol>>
  BY <1>1, PathSteps DEF Framed
<1>3. OffWork(h)'
  BY <1>1, <1>2 DEF OffWork
<1>4. QED
  BY <1>2, <1>3, OffKept

\* The steps that change a mount, a bind mount or the volume context.
LEMMA OffWrites ==
  ASSUME OffInv, UnboundInv', NEW h \in Handlers,
         Mount(h) \/ Stash(h) \/ Umount(h) \/ Clean(h) \/ Bind(h) \/ Unbind(h)
  PROVE  OffInv'
<1> DEFINE v == vol[h]
<1>1. NodeInv /\ OffWork(h)
  BY DEF OffInv, UnboundInv
<1>2. /\ pc[h] \in {"mount", "stash", "umount", "clean", "bind", "unbind"} /\ v \in Vols
      /\ pc[h] \in {"umount", "clean"} <=> op[h] = "Unstage"
  BY <1>1, Serving
  DEF Mount, Stash, Umount, Clean, Bind, Unbind, NodeInv, HandlerInv, HandlerOK, Past, Steps
<1>3. /\ \E x : Goto(h, x)
      /\ \/ pc[h] \in {"mount", "stash", "bind", "unbind"}
         \/ Goto(h, "err")
         \/ /\ pc[h] = "umount" /\ Goto(h, "lookup")
            /\ mnt' = [mnt EXCEPT ![v] = "none"] /\ UNCHANGED stash
         \/ /\ pc[h] = "clean" /\ Goto(h, "ok")
            /\ stash' = [stash EXCEPT ![v] = FALSE] /\ UNCHANGED mnt
  BY DEF Mount, Stash, Umount, Clean, Bind, Unbind, Moves, Fails, host
<1>4. /\ UNCHANGED <<exists, paths, op, vol, idx, todo, know, await>>
      /\ \A u \in Vols \ {v} : mnt'[u] = mnt[u] /\ stash'[u] = stash[u]
  BY <1>1 DEF Mount, Stash, Umount, Clean, Bind, Unbind, Moves, Fails, host, locals, kubelet,
     NodeInv, TypeOK
<1>5. Framed(h)
  BY <1>1, <1>3, <1>4 DEF Framed, Goto, NodeInv, TypeOK
<1>6. OffWork(h)'
  <2>1. CASE op[h] # "Unstage"
    BY <1>4, <2>1 DEF OffWork
  <2>2. CASE op[h] = "Unstage"
    BY <1>1, <1>2, <1>3, <1>4, <2>2 DEF OffWork, Goto, NodeInv, TypeOK
  <2>3. QED
    BY <2>1, <2>2
<1>7. QED
  BY <1>2, <1>5, <1>6, OffKept

\* A handler that gets its lock starts its RPC.
LEMMA OffLock ==
  ASSUME OffInv, UnboundInv', NEW h \in Handlers, Lock(h)
  PROVE  OffInv'
<1>1. NodeInv
  BY DEF OffInv, UnboundInv
<1>2. /\ pc[h] = "lock"
      /\ UNCHANGED <<exists, paths, mnt, stash, op, vol, idx, todo, know, await>>
      /\ pc' = [pc EXCEPT ![h] = FirstStep(h)]
  BY DEF Lock, Goto, host, locals, kubelet
<1>3. Framed(h) /\ pc'[h] = FirstStep(h)
  BY <1>1, <1>2 DEF Framed, NodeInv, TypeOK
<1>4. op[h] = "Unstage" => FirstStep(h) = "umount"
  BY DEF FirstStep
<1>5. OffWork(h)'
  BY <1>2, <1>3, <1>4 DEF OffWork
<1>6. QED
  BY <1>2, <1>3, <1>5, OffKept

\* The kubelet takes a volume for unstaged only after NodeUnstageVolume took it
\* off the host.
LEMMA OffReturn ==
  ASSUME OffInv, UnboundInv', NEW h \in Handlers, Return(h)
  PROVE  OffInv'
<1>1. NodeInv /\ OffWork(h) /\ TypeOK
  BY DEF OffInv, UnboundInv, NodeInv
<1>2. PICK v \in Vols : v = vol[h]
  BY <1>1, Serving DEF Return, Past, Steps
<1>3. /\ pc[h] \in {"ok", "err"} /\ op[h] \in RPCs
      /\ await[v] = h /\ know[v] = Doing(op[h])
  BY <1>1, <1>2, Serving DEF Return, OffInv, UnboundInv, NodeInv, CallInv, Past, Steps
<1>4. /\ pc' = [pc EXCEPT ![h] = "idle"] /\ op' = [op EXCEPT ![h] = None]
      /\ vol' = [vol EXCEPT ![h] = None]
      /\ know' = [know EXCEPT ![v] = Conclusion(h)]
      /\ UNCHANGED <<exists, paths, mnt, stash>>
  BY <1>2, <1>3 DEF Return, Goto, Forget, Answer, host
<1>5. OffView(v)'
  <2>1. know'[v] = Conclusion(h)
    BY <1>1, <1>4 DEF TypeOK
  <2>2. v \in exists
    BY <1>2, <1>3, ServedExists
  <2>3. Conclusion(h) # "out" /\ (Conclusion(h) = "unstaged" => pc[h] = "ok" /\ op[h] = "Unstage")
    BY <1>2, <1>3 DEF Conclusion, Doing, RPCs
  <2>4. QED
    BY <1>1, <1>2, <1>4, <2>1, <2>2, <2>3 DEF OffWork, OffView, Off
<1>6. ASSUME NEW u \in Vols, u # v PROVE OffView(u)'
  <2>1. know'[u] = know[u]
    BY <1>1, <1>4, <1>6 DEF TypeOK
  <2>2. QED
    BY <1>4, <2>1 DEF OffInv, OffView, Off
<1>7. OffWork(h)'
  BY <1>1, <1>4, ConstantsAssumption DEF TypeOK, OffWork, ConstantsAssumption, RPCs
<1>8. ASSUME NEW g \in Handlers, g # h PROVE OffWork(g)'
  <2>1. pc'[g] = pc[g] /\ op'[g] = op[g] /\ vol'[g] = vol[g]
    BY <1>1, <1>4, <1>8 DEF TypeOK
  <2>2. QED
    BY <1>4, <2>1 DEF OffInv, OffWork
<1>9. QED
  BY <1>5, <1>6, <1>7, <1>8 DEF OffInv

\* A call is made for a volume that exists.
LEMMA OffCall ==
  ASSUME OffInv, UnboundInv', NEW h \in Handlers, NEW v \in Vols, Call(h, v)
  PROVE  OffInv'
<1>1. TypeOK /\ OffView(v)
  BY DEF OffInv, UnboundInv, NodeInv
<1>2. PICK rpc \in RPCs : Begin(h, rpc, v) /\ know' = [know EXCEPT ![v] = Doing(rpc)]
  BY CallShape
<1>3. /\ pc' = [pc EXCEPT ![h] = "lock"] /\ op' = [op EXCEPT ![h] = rpc]
      /\ vol' = [vol EXCEPT ![h] = v]
      /\ UNCHANGED <<exists, paths, mnt, stash>>
  BY <1>2 DEF Begin, Goto, host
<1>4. v \in exists
  BY <1>1 DEF Call, CallStage, CallUnstage, CallPublish, CallUnpublish, OffView
<1>5. ASSUME NEW u \in Vols PROVE OffView(u)'
  <2>1. CASE u = v
    BY <1>1, <1>2, <1>3, <1>4, <2>1 DEF TypeOK, Doing, OffView
  <2>2. CASE u # v
    <3>1. know'[u] = know[u]
      BY <1>1, <1>2, <2>2 DEF TypeOK
    <3>2. QED
      BY <1>3, <3>1 DEF OffInv, OffView, Off
  <2>3. QED
    BY <2>1, <2>2
<1>6. ASSUME NEW g \in Handlers PROVE OffWork(g)'
  <2>1. CASE g = h
    BY <1>1, <1>3, <2>1 DEF TypeOK, OffWork
  <2>2. CASE g # h
    <3>1. pc'[g] = pc[g] /\ op'[g] = op[g] /\ vol'[g] = vol[g]
      BY <1>1, <1>3, <2>2 DEF TypeOK
    <3>2. QED
      BY <1>3, <3>1 DEF OffInv, OffWork
  <2>3. QED
    BY <2>1, <2>2
<1>7. QED
  BY <1>5, <1>6 DEF OffInv

\* A volume comes, or goes when the kubelet has it off the host; a crash stops
\* the handlers where they are and changes nothing on the host.
LEMMA OffWorld ==
  ASSUME OffInv, UnboundInv',
         Crash \/ \E v \in Vols : Provision(v) \/ Deprovision(v)
  PROVE  OffInv'
<1>1. TypeOK
  BY DEF OffInv, UnboundInv, NodeInv
<1>2. CASE Crash
  <2>1. /\ UNCHANGED <<exists, paths, mnt, stash>>
        /\ know' = [v \in Vols |-> Uncertain(know[v])]
        /\ \A h \in Handlers : op'[h] = None
    BY <1>2 DEF Crash, host
  <2>2. ASSUME NEW v \in Vols PROVE OffView(v)'
    <3>1. know'[v] \in {"out", "unstaged"} <=> know[v] \in {"out", "unstaged"}
      BY <2>1 DEF Uncertain
    <3>2. QED
      BY <2>1, <3>1 DEF OffInv, OffView, Off
  <2>3. \A h \in Handlers : OffWork(h)'
    BY <2>1, ConstantsAssumption DEF OffWork, ConstantsAssumption, RPCs
  <2>4. QED
    BY <2>2, <2>3 DEF OffInv
<1>3. ASSUME NEW v \in Vols, Provision(v) \/ Deprovision(v) PROVE OffInv'
  <2>1. UNCHANGED <<paths, stash, pc, op, vol, know>>
    BY <1>3 DEF Provision, Deprovision, locals, kubelet
  <2>2. OffView(v) /\ know[v] \in {"out", "unstaged"}
    BY <1>3 DEF OffInv, Provision, Deprovision
  <2>3. mnt' = mnt
    BY <1>1, <1>3, <2>2 DEF Provision, Deprovision, OffView, Off, TypeOK
  <2>4. \A u \in Vols : OffView(u)'
    BY <1>3, <2>1, <2>2, <2>3 DEF OffInv, OffView, Off, Provision, Deprovision
  <2>5. \A g \in Handlers : OffWork(g)'
    BY <2>1, <2>3 DEF OffInv, OffWork
  <2>6. QED
    BY <2>4, <2>5 DEF OffInv
<1>4. QED
  BY <1>2, <1>3

\* Before the first call nothing is on the host.
LEMMA OffInit == Init => OffInv
<1> SUFFICES ASSUME Init PROVE OffInv
  OBVIOUS
<1>1. UnboundInv
  BY UnboundInit
<1>2. \A v \in Vols : OffView(v)
  BY ConstantsAssumption DEF ConstantsAssumption, Init, OffView, Off
<1>3. \A h \in Handlers : OffWork(h)
  BY ConstantsAssumption DEF ConstantsAssumption, RPCs, Init, OffWork
<1>4. QED
  BY <1>1, <1>2, <1>3 DEF OffInv

\* Every step keeps OffInv, whatever fails and whenever the plugin crashes.
LEMMA OffNext ==
  ASSUME OwnSubsystems, ~MayGiveUp, OffInv, [Next]_vars
  PROVE  OffInv'
<1>1. UnboundInv'
  BY UnboundNext DEF OffInv
<1>2. ASSUME NEW h \in Handlers, Step(h) PROVE OffInv'
  BY <1>1, <1>2, OffReads, OffPaths, OffWrites, OffReturn DEF Step
<1>3. CASE UNCHANGED vars
  BY <1>1, <1>3 DEF OffInv, OffView, OffWork, Off, vars
<1>4. \A v \in Vols : ~GiveUp(v)
  BY DEF GiveUp
<1>5. QED
  BY <1>1, <1>2, <1>3, <1>4, OffLock, OffCall, OffWorld DEF Next

\* NodeUnstageVolume goes on from one step to the next only when what the step
\* takes down is down, whatever commands fail and however often the plugin
\* crashes and the kubelet repeats its calls.
THEOREM OffInvariance ==
  ASSUME OwnSubsystems, ~MayGiveUp
  PROVE  Spec => []OffInv
<1>1. OffInv /\ [Next]_vars => OffInv'
  BY OffNext
<1>2. QED
  BY <1>1, OffInit, PTL DEF Spec

\* NodeUnstageVolume answers OK only when controllers, mount and volume context
\* are gone, whatever commands of this and of earlier calls failed and wherever
\* crashes cut them.
THEOREM UnstagedIsDisconnected ==
  ASSUME OwnSubsystems, ~MayGiveUp
  PROVE  Spec => []UnstagedMeansDisconnected
<1>1. OffInv => UnstagedMeansDisconnected
  BY DEF OffInv, OffView, Off, UnstagedMeansDisconnected
<1>2. QED
  BY <1>1, OffInvariance, PTL

-----------------------------------------------------------------------------
\* What is staged.

\* What one handler does keeps HostInv if it is right for that handler.
LEMMA HostKept ==
  ASSUME HostInv, OffInv', NEW h \in Handlers, pc[h] # "idle", Framed(h),
         WorkOK(h)', ViewOK(vol[h])'
  PROVE  HostInv'
<1>1. \A v \in Vols : ViewOK(v)'
  BY DEF HostInv, ViewOK, Framed, Usable
<1>2. ASSUME NEW g \in Handlers, g # h PROVE WorkOK(g)'
  <2>1. CASE pc[g] = "idle"
    BY <1>2, <2>1 DEF WorkOK, Framed
  <2>2. CASE pc[g] # "idle"
    <3>1. vol[g] \in Vols \ {vol[h]}
      BY <1>2, <2>2 DEF HostInv, OffInv, UnboundInv, NodeInv, HandlerInv, HandlerOK, TypeOK
    <3>2. WorkOK(g)
      BY DEF HostInv
    <3>3. QED
      BY <1>2, <3>1, <3>2 DEF WorkOK, Framed
  <2>3. QED
    BY <2>1, <2>2
<1>3. QED
  BY <1>1, <1>2 DEF HostInv

\* While a volume is being staged or unstaged its view says little.
LEMMA StageView ==
  ASSUME HostInv, NEW h \in Handlers, pc[h] # "idle", op[h] \in {"Stage", "Unstage"},
         Framed(h)
  PROVE  ViewOK(vol[h])' /\ vol[h] \in Vols /\ vol[h] \in exists
<1>1. know[vol[h]] = Doing(op[h])
  BY DEF HostInv, OffInv, UnboundInv, NodeInv, HandlerInv, HandlerOK, TypeOK, CallInv
<1>2. know[vol[h]] \in {"staging", "unstaging"}
  BY <1>1 DEF Doing
<1>3. QED
  BY <1>2, ServedExists DEF HostInv, ViewOK, Framed

\* The steps of NodeStageVolume and NodeUnstageVolume that only look.
LEMMA HostReads ==
  ASSUME OwnSubsystems, "tune" \notin MayFail, HostInv, OffInv', NEW h \in Handlers,
         \/ Check(h) \/ Nqn(h) \/ Fetch(h) \/ Wait(h) \/ Tune(h) \/ Glob(h)
         \/ Gone(h) \/ Lookup(h)
  PROVE  HostInv'
<1>1. NodeInv /\ WorkOK(h)
  BY DEF HostInv, OffInv, UnboundInv
<1>2. pc[h] # "idle" /\ op[h] \in {"Stage", "Unstage"}
  BY <1>1 DEF Check, Nqn, Fetch, Wait, Tune, Glob, Gone, Lookup, NodeInv, HandlerInv, HandlerOK
<1>3. \E x, c : Moves(h, x) \/ Fails(h, c, x)
  BY DEF Check, Nqn, Fetch, Wait, Tune, Glob, Gone, Lookup
<1>4. Framed(h) /\ UNCHANGED <<paths, mnt, stash, vol, op>>
  BY <1>1, <1>3, MovesFramed DEF Framed
<1>5. vol[h] \in Vols /\ vol[h] \in exists /\ ViewOK(vol[h])'
  BY <1>2, <1>4, StageView
<1>6. ASSUME NEW x, NEW c, Moves(h, x) \/ Fails(h, c, x) PROVE pc'[h] = x
  BY <1>1, <1>6, MovesFramed
<1>7. WorkOK(h)'
  <2>1. CASE Check(h)
    <3>1. pc[h] = "check" /\ op[h] = "Stage"
      BY <1>1, <2>1 DEF Check, NodeInv, HandlerInv, HandlerOK
    <3>2. pc'[h] \in {"nqn", "err"}
      BY <1>1, <1>6, <2>1, <3>1 DEF Check, WorkOK
    <3>3. QED
      BY <1>1, <1>4, <3>1, <3>2 DEF WorkOK
  <2>2. CASE Nqn(h) \/ Fetch(h)
    <3>1. pc[h] \in {"nqn", "fetch"} /\ op[h] = "Stage"
      BY <1>1, <2>2 DEF Nqn, Fetch, NodeInv, HandlerInv, HandlerOK
    <3>2. pc'[h] \in {"wait", "fetch", "conn", "err"}
      BY <1>6, <2>2 DEF Nqn, Fetch
    <3>3. QED
      BY <1>1, <1>4, <3>1, <3>2 DEF WorkOK
  <2>3. CASE Wait(h)
    <3>1. pc[h] = "wait" /\ op[h] = "Stage"
      BY <1>1, <2>3 DEF Wait, NodeInv, HandlerInv, HandlerOK
    <3>2. \/ pc'[h] = "err"
          \/ /\ pc'[h] = IF vol[h] \in Block THEN "stash" ELSE "mount"
             /\ vol[h] \in Devices(SubsysOf[vol[h]])
      BY <1>6, <2>3 DEF Wait, Subsys
    <3>3. QED
      BY <1>1, <1>4, <1>5, <3>1, <3>2, OneDevice DEF WorkOK
  <2>4. CASE Tune(h)
    <3>1. pc[h] = "tune" /\ op[h] = "Stage"
      BY <1>1, <2>4 DEF Tune, NodeInv, HandlerInv, HandlerOK
    <3>2. pc'[h] = "stash"
      BY <1>6, <2>4 DEF Tune, Fails
    <3>3. QED
      BY <1>1, <1>4, <3>1, <3>2 DEF WorkOK
  <2>5. CASE op[h] = "Stage" /\ (Glob(h) \/ Gone(h))
    <3>1. pc[h] \in {"glob", "gone"}
      BY <2>5 DEF Glob, Gone
    <3>2. pc'[h] \in {"drop", "gone", "err"}
      BY <1>6, <2>5 DEF Glob, Gone, AfterDisconnect
    <3>3. QED
      BY <1>1, <1>2, <1>4, <2>5, <3>1, <3>2 DEF WorkOK
  <2>6. CASE op[h] = "Unstage"
    BY <1>4, <2>6 DEF WorkOK
  <2>7. CASE Lookup(h)
    BY <1>1, <2>6, <2>7 DEF Lookup, NodeInv, HandlerInv, HandlerOK
  <2>8. QED
    BY <1>2, <2>1, <2>2, <2>3, <2>4, <2>5, <2>6, <2>7
<1>8. QED
  BY <1>2, <1>4, <1>5, <1>7, HostKept

\* They keep HostInv.
LEMMA HostPaths ==
  ASSUME OwnSubsystems, HostInv, OffInv', NEW h \in Handlers,
         Conn(h) \/ Undo(h) \/ Drop(h) \/ Cut(h)
  PROVE  HostInv'
<1>1. NodeInv /\ WorkOK(h)
  BY DEF HostInv, OffInv, UnboundInv
<1>2. /\ pc[h] \in {"conn", "undo", "drop", "undocut", "dropcut"}
      /\ pc'[h] \in {"conn", "wait", "undo", "err", "undocut", "dropcut", "gone"}
      /\ op[h] \in {"Stage", "Unstage"}
      /\ pc[h] \in {"conn", "undo", "undocut"} => op[h] = "Stage"
      /\ Framed(h) /\ UNCHANGED <<op, vol, stash>>
  BY <1>1, PathSteps DEF Framed
<1>3. op[h] = "Stage" => mnt[vol[h]] = "none" /\ ~stash[vol[h]]
  BY <1>1, <1>2 DEF WorkOK
<1>4. op[h] = "Stage" => mnt'[vol[h]] = "none"
  BY <1>1, <1>3, PathSteps
<1>5. WorkOK(h)'
  BY <1>2, <1>3, <1>4 DEF WorkOK
<1>6. QED
  BY <1>2, <1>5, StageView, HostKept

\* The steps that change a mount or the volume context.
LEMMA HostWrites ==
  ASSUME OwnSubsystems, "stash" \notin MayFail, HostInv, OffInv', NEW h \in Handlers,
         Mount(h) \/ Stash(h) \/ Umount(h) \/ Clean(h)
  PROVE  HostInv'
<1> DEFINE v == vol[h]
<1>1. NodeInv /\ WorkOK(h)
  BY DEF HostInv, OffInv, UnboundInv
<1>2. /\ pc[h] \in {"mount", "stash", "umount", "clean"} /\ v \in Vols
      /\ op[h] = IF pc[h] \in {"mount", "stash"} THEN "Stage" ELSE "Unstage"
  BY <1>1, Serving
  DEF Mount, Stash, Umount, Clean, NodeInv, HandlerInv, HandlerOK, Past, Steps
<1>3. \/ pc[h] \in {"umount", "clean"} /\ Goto(h, "err") /\ UNCHANGED <<mnt, stash>>
      \/ pc[h] = "mount" /\ Goto(h, "glob") /\ UNCHANGED <<mnt, stash>>
      \/ /\ pc[h] = "mount" /\ Goto(h, "tune")
         /\ mnt' = [mnt EXCEPT ![v] = "live"] /\ UNCHANGED stash
      \/ /\ pc[h] = "stash" /\ Goto(h, "ok")
         /\ stash' = [stash EXCEPT ![v] = TRUE] /\ UNCHANGED mnt
      \/ /\ pc[h] = "umount" /\ (Goto(h, "lookup") \/ Goto(h, "err"))
         /\ mnt' = [mnt EXCEPT ![v] = "none"] /\ UNCHANGED stash
      \/ /\ pc[h] = "clean" /\ Goto(h, "ok")
         /\ stash' = [stash EXCEPT ![v] = FALSE] /\ UNCHANGED mnt
  BY DEF Mount, Stash, Umount, Clean, Moves, Fails, host
<1>4. UNCHANGED <<exists, paths, op, vol, idx, todo, know, await>>
  BY DEF Mount, Stash, Umount, Clean, Moves, Fails, host, locals, kubelet
<1>5. Framed(h)
  BY <1>1, <1>3, <1>4 DEF Framed, Goto, NodeInv, TypeOK
<1>6. WorkOK(h)'
  <2>1. CASE pc[h] = "mount"
    BY <1>1, <1>2, <1>3, <1>4, <2>1 DEF WorkOK, Goto, NodeInv, TypeOK
  <2>2. CASE pc[h] = "stash"
    BY <1>1, <1>2, <1>3, <1>4, <2>2 DEF WorkOK, Goto, NodeInv, TypeOK
  <2>3. CASE pc[h] = "umount"
    BY <1>1, <1>2, <1>3, <1>4, <2>3 DEF WorkOK, Goto, NodeInv, TypeOK
  <2>4. CASE pc[h] = "clean"
    BY <1>1, <1>2, <1>3, <1>4, <2>4 DEF WorkOK, Goto, NodeInv, TypeOK
  <2>5. QED
    BY <1>2, <2>1, <2>2, <2>3, <2>4
<1>7. QED
  BY <1>2, <1>5, <1>6, StageView, HostKept

\* The bind mounts are no part of what HostInv says.
LEMMA HostBinds ==
  ASSUME HostInv, OffInv', NEW h \in Handlers, Bind(h) \/ Unbind(h)
  PROVE  HostInv'
<1>1. NodeInv
  BY DEF HostInv, OffInv, UnboundInv
<1>2. /\ pc[h] \in {"bind", "unbind"} /\ op[h] \in {"Publish", "Unpublish"}
      /\ vol[h] \in Vols
  BY <1>1, Serving DEF Bind, Unbind, NodeInv, HandlerInv, HandlerOK, Past, Steps
<1>3. /\ UNCHANGED <<exists, paths, mnt, stash, op, vol, idx, todo, know, await>>
      /\ \E x : Goto(h, x)
  BY DEF Bind, Unbind, Moves, Fails, host, locals, kubelet
<1>4. Framed(h)
  BY <1>1, <1>3 DEF Framed, Goto, NodeInv, TypeOK
<1>5. WorkOK(h)' /\ ViewOK(vol[h])'
  BY <1>2, <1>3 DEF HostInv, WorkOK, ViewOK, Usable
<1>6. QED
  BY <1>2, <1>4, <1>5, HostKept

\* A handler that gets its lock starts its RPC.
LEMMA HostLock ==
  ASSUME HostInv, OffInv', NEW h \in Handlers, Lock(h)
  PROVE  HostInv'
<1>1. NodeInv /\ WorkOK(h)
  BY DEF HostInv, OffInv, UnboundInv
<1>2. pc[h] = "lock" /\ op[h] \in RPCs /\ vol[h] \in Vols
  BY <1>1 DEF Lock, NodeInv, HandlerInv, HandlerOK, TypeOK
<1>3. /\ UNCHANGED <<exists, paths, mnt, stash, op, vol, idx, todo, know, await>>
      /\ pc' = [pc EXCEPT ![h] = FirstStep(h)]
  BY DEF Lock, Goto, host, locals, kubelet
<1>4. Framed(h) /\ pc'[h] = FirstStep(h)
  BY <1>1, <1>3 DEF Framed, NodeInv, TypeOK
<1>5. /\ op[h] = "Stage" => FirstStep(h) = "check"
      /\ op[h] = "Unstage" => FirstStep(h) = "umount"
  BY DEF FirstStep
<1>6. WorkOK(h)' /\ ViewOK(vol[h])'
  BY <1>1, <1>2, <1>3, <1>4, <1>5 DEF HostInv, WorkOK, ViewOK, Usable
<1>7. QED
  BY <1>2, <1>4, <1>6, HostKept

\* What the kubelet concludes from an answer is what the handler has done.
LEMMA HostReturn ==
  ASSUME HostInv, OffInv', NEW h \in Handlers, Return(h)
  PROVE  HostInv'
<1>1. NodeInv /\ WorkOK(h) /\ TypeOK
  BY DEF HostInv, OffInv, UnboundInv, NodeInv
<1>v. PICK v \in Vols : v = vol[h]
  BY <1>1, Serving DEF Return, Past, Steps
<1>2. /\ pc[h] \in {"ok", "err"} /\ v = vol[h] /\ op[h] \in RPCs
      /\ await[v] = h /\ know[v] = Doing(op[h])
  BY <1>v, <1>1, Serving DEF Return, HostInv, OffInv, UnboundInv, NodeInv, CallInv, Past, Steps
<1>3. /\ pc' = [pc EXCEPT ![h] = "idle"] /\ op' = [op EXCEPT ![h] = None]
      /\ vol' = [vol EXCEPT ![h] = None]
      /\ know' = [know EXCEPT ![v] = Conclusion(h)]
      /\ UNCHANGED <<exists, paths, mnt, stash>>
  BY <1>2 DEF Return, Goto, Forget, Answer, host
<1>4. ViewOK(v)'
  <2>1. know'[v] = Conclusion(h)
    BY <1>1, <1>2, <1>3 DEF TypeOK
  <2>2. v \in exists
    BY <1>2, ServedExists DEF HostInv
  <2>3. CASE op[h] = "Stage"
    <3>1. \/ pc[h] = "ok" /\ Conclusion(h) = "staged"
          \/ pc[h] = "err" /\ Conclusion(h) = "failed"
      BY <1>2, <2>3 DEF Conclusion, Doing
    <3>2. QED
      BY <1>1, <1>2, <1>3, <2>1, <2>2, <2>3, <3>1 DEF WorkOK, ViewOK, Usable
  <2>4. CASE op[h] = "Unstage"
    <3>1. \/ pc[h] = "ok" /\ Conclusion(h) = "unstaged"
          \/ pc[h] = "err" /\ Conclusion(h) = "unstaging"
      BY <1>2, <2>4 DEF Conclusion, Doing
    <3>2. QED
      BY <1>1, <1>2, <1>3, <2>1, <2>2, <2>4, <3>1 DEF WorkOK, ViewOK
  <2>5. CASE op[h] \in {"Publish", "Unpublish"}
    <3>1. know[v] \in {"publishing", "unpublishing"}
      BY <1>2, <2>5 DEF Doing
    <3>2. Conclusion(h) \in {"staged", "published", know[v]}
      BY <1>2, <2>5, <3>1 DEF Conclusion
    <3>3. Usable(v)
      BY <1>2, <3>1 DEF HostInv, ViewOK
    <3>4. QED
      BY <1>3, <2>1, <2>2, <3>1, <3>2, <3>3 DEF ViewOK, Usable
  <2>6. QED
    BY <1>2, <2>3, <2>4, <2>5 DEF RPCs
<1>5. \A u \in Vols : ViewOK(u)'
  <2>1. ASSUME NEW u \in Vols, u # v PROVE ViewOK(u)'
    <3>1. know'[u] = know[u]
      BY <1>1, <1>3, <2>1 DEF TypeOK
    <3>2. QED
      BY <1>3, <3>1 DEF HostInv, ViewOK, Usable
  <2>2. QED
    BY <1>4, <2>1
<1>6. \A g \in Handlers : WorkOK(g)'
  <2>1. WorkOK(h)'
    BY <1>1, <1>3, ConstantsAssumption DEF TypeOK, WorkOK, ConstantsAssumption, RPCs
  <2>2. ASSUME NEW g \in Handlers, g # h PROVE WorkOK(g)'
    <3>1. pc'[g] = pc[g] /\ op'[g] = op[g] /\ vol'[g] = vol[g]
      BY <1>1, <1>3, <2>2 DEF TypeOK
    <3>2. QED
      BY <1>3, <3>1 DEF HostInv, WorkOK
  <2>3. QED
    BY <2>1, <2>2
<1>7. QED
  BY <1>5, <1>6 DEF HostInv

\* A new call starts from what the kubelet was told.
LEMMA HostCall ==
  ASSUME HostInv, OffInv', NEW h \in Handlers, NEW v \in Vols, Call(h, v)
  PROVE  HostInv'
<1>1. NodeInv /\ TypeOK /\ ViewOK(v) /\ OffView(v)
  BY DEF HostInv, OffInv, UnboundInv, NodeInv
<1>2. PICK rpc \in RPCs : Begin(h, rpc, v) /\ know' = [know EXCEPT ![v] = Doing(rpc)]
  BY CallShape
<1>3. /\ pc' = [pc EXCEPT ![h] = "lock"] /\ op' = [op EXCEPT ![h] = rpc]
      /\ vol' = [vol EXCEPT ![h] = v]
      /\ UNCHANGED <<exists, paths, mnt, stash>>
  BY <1>2 DEF Begin, Goto, host
<1>4. pc'[h] = "lock" /\ op'[h] = rpc /\ vol'[h] = v /\ know'[v] = Doing(rpc)
  BY <1>1, <1>2, <1>3 DEF TypeOK
<1>5. \/ know'[v] = "staging" /\ mnt[v] = "none" /\ ~stash[v] /\ v \in exists
      \/ know'[v] = "unstaging" /\ v \in exists
      \/ know'[v] \in {"publishing", "unpublishing"} /\ Usable(v) /\ v \in exists
  BY <1>1, <1>4
  DEF Call, CallStage, CallUnstage, CallPublish, CallUnpublish, TypeOK, ViewOK, OffView, Off
<1>6. \A u \in Vols : ViewOK(u)'
  <2>1. ViewOK(v)'
    BY <1>3, <1>5 DEF ViewOK, Usable
  <2>2. ASSUME NEW u \in Vols, u # v PROVE ViewOK(u)'
    <3>1. know'[u] = know[u]
      BY <1>1, <1>2, <2>2 DEF TypeOK
    <3>2. QED
      BY <1>3, <3>1 DEF HostInv, ViewOK, Usable
  <2>3. QED
    BY <2>1, <2>2
<1>7. \A g \in Handlers : WorkOK(g)'
  <2>1. WorkOK(h)'
    <3>1. rpc = "Stage" => mnt[v] = "none" /\ ~stash[v]
      BY <1>4, <1>5 DEF Doing
    <3>2. QED
      BY <1>3, <1>4, <3>1 DEF WorkOK
  <2>2. ASSUME NEW g \in Handlers, g # h PROVE WorkOK(g)'
    <3>1. pc'[g] = pc[g] /\ op'[g] = op[g] /\ vol'[g] = vol[g]
      BY <1>1, <1>3, <2>2 DEF TypeOK
    <3>2. QED
      BY <1>3, <3>1 DEF HostInv, WorkOK
  <2>3. QED
    BY <2>1, <2>2
<1>8. QED
  BY <1>6, <1>7 DEF HostInv

\* A volume comes, or goes when the kubelet has it off the host.
LEMMA HostProvisions ==
  ASSUME HostInv, OffInv', NEW v \in Vols, Provision(v) \/ Deprovision(v)
  PROVE  HostInv'
<1>1. UNCHANGED <<paths, stash, pc, op, vol, know>>
  BY DEF Provision, Deprovision, locals, kubelet
<1>2. OffView(v) /\ TypeOK /\ know[v] \in {"out", "unstaged"}
  BY DEF HostInv, OffInv, UnboundInv, NodeInv, Provision, Deprovision
<1>3. mnt' = mnt
  BY <1>2 DEF Provision, Deprovision, OffView, Off, TypeOK
<1>4. \A u \in Vols : ViewOK(u)'
  BY <1>1, <1>2, <1>3 DEF HostInv, ViewOK, Usable, Provision, Deprovision
<1>5. \A g \in Handlers : WorkOK(g)'
  BY <1>1, <1>3 DEF HostInv, WorkOK
<1>6. QED
  BY <1>4, <1>5 DEF HostInv

\* Before the first call nothing is on the host.
LEMMA HostInit == Init => HostInv
<1> SUFFICES ASSUME Init PROVE HostInv
  OBVIOUS
<1>1. OffInv
  BY OffInit
<1>2. \A v \in Vols : ViewOK(v)
  BY ConstantsAssumption DEF ConstantsAssumption, Init, ViewOK
<1>3. \A h \in Handlers : WorkOK(h)
  BY ConstantsAssumption DEF ConstantsAssumption, RPCs, Init, WorkOK
<1>4. QED
  BY <1>1, <1>2, <1>3 DEF HostInv

\* Every step keeps HostInv when the two commands between the mount and the
\* answer of NodeStageVolume do not fail.
LEMMA HostNext ==
  ASSUME OwnSubsystems, ~MayGiveUp, ~MayCrash, "tune" \notin MayFail,
         "stash" \notin MayFail, HostInv, [Next]_vars
  PROVE  HostInv'
<1>1. OffInv'
  BY OffNext DEF HostInv
<1>2. ASSUME NEW h \in Handlers, Step(h) PROVE HostInv'
  BY <1>1, <1>2, HostReads, HostPaths, HostWrites, HostBinds, HostReturn DEF Step
<1>3. CASE UNCHANGED vars
  BY <1>1, <1>3 DEF HostInv, ViewOK, WorkOK, Usable, vars
<1>4. ~Crash /\ \A v \in Vols : ~GiveUp(v)
  BY DEF Crash, GiveUp
<1>5. QED
  BY <1>1, <1>2, <1>3, <1>4, HostLock, HostCall, HostProvisions DEF Next

-----------------------------------------------------------------------------

\* What the kubelet was told about a volume is what the host has, whatever else
\* fails: the commands that nodeserver.go runs between the mount and the answer
\* of NodeStageVolume (tune2fs, StashVolumeContext) are the only ones whose
\* failure leaves a mount behind that the next call takes for a staged volume.
THEOREM HostInvariance ==
  ASSUME OwnSubsystems, ~MayGiveUp, ~MayCrash, "tune" \notin MayFail, "stash" \notin MayFail
  PROVE  Spec => []HostInv
<1>1. HostInv /\ [Next]_vars => HostInv'
  BY HostNext
<1>2. QED
  BY <1>1, HostInit, PTL DEF Spec

\* While the kubelet has a volume staged, its subsystem is connected, its volume
\* context is stored and its file system works.
THEOREM StagedIsUsable ==
  ASSUME OwnSubsystems, ~MayGiveUp, ~MayCrash, "tune" \notin MayFail, "stash" \notin MayFail
  PROVE  Spec => []StagedMeansUsable
<1>1. HostInv => StagedMeansUsable
  BY DEF HostInv, ViewOK, Usable, StagedMeansUsable
<1>2. QED
  BY <1>1, HostInvariance, PTL

-----------------------------------------------------------------------------
\* What a NodeStageVolume that fails leaves behind.

\* What one handler does keeps FailedInv if it is right for that handler.
LEMMA FailedKept ==
  ASSUME FailedInv, UnboundInv', NEW h \in Handlers, pc[h] # "idle", Framed(h),
         PathsOK(h)', PathsView(vol[h])'
  PROVE  FailedInv'
<1>1. \A v \in Vols : PathsView(v)'
  BY DEF FailedInv, PathsView, Framed
<1>2. ASSUME NEW g \in Handlers, g # h PROVE PathsOK(g)'
  <2>1. CASE pc[g] = "idle"
    BY <1>2, <2>1 DEF FailedInv, PathsOK, Framed
  <2>2. CASE pc[g] # "idle"
    <3>1. vol[g] \in Vols \ {vol[h]}
      BY <1>2, <2>2 DEF FailedInv, UnboundInv, NodeInv, HandlerInv, HandlerOK, TypeOK
    <3>2. PathsOK(g)
      BY DEF FailedInv
    <3>3. QED
      BY <1>2, <3>1, <3>2 DEF PathsOK, Framed
  <2>3. QED
    BY <2>1, <2>2
<1>3. QED
  BY <1>1, <1>2 DEF FailedInv

\* While a handler works on a volume, the view says that the volume exists.
LEMMA FailedView ==
  ASSUME FailedInv, NEW h \in Handlers, pc[h] # "idle", Framed(h)
  PROVE  PathsView(vol[h])' /\ vol[h] \in Vols /\ vol[h] \in exists
<1>1. vol[h] \in Vols /\ know[vol[h]] = Doing(op[h])
  BY DEF FailedInv, UnboundInv, NodeInv, HandlerInv, HandlerOK, TypeOK, CallInv
<1>2. know[vol[h]] \in {"staging", "unstaging", "publishing", "unpublishing"}
  BY <1>1 DEF Doing
<1>3. QED
  BY <1>1, <1>2 DEF FailedInv, PathsView, Framed

\* The steps before and after Connect, and those of Disconnect that only look.
LEMMA FailedReads ==
  ASSUME OwnSubsystems, "device" \notin MayFail, FailedInv, UnboundInv', NEW h \in Handlers,
         \/ Check(h) \/ Nqn(h) \/ Fetch(h) \/ Wait(h) \/ Tune(h) \/ Glob(h)
         \/ Gone(h) \/ Lookup(h)
  PROVE  FailedInv'
<1> DEFINE s == SubsysOf[vol[h]]
<1>1. NodeInv /\ PathsOK(h)
  BY DEF FailedInv, UnboundInv
<1>2. pc[h] # "idle" /\ op[h] \in {"Stage", "Unstage"}
  BY <1>1 DEF Check, Nqn, Fetch, Wait, Tune, Glob, Gone, Lookup, NodeInv, HandlerInv, HandlerOK
<1>3. \E x, c : Moves(h, x) \/ Fails(h, c, x)
  BY DEF Check, Nqn, Fetch, Wait, Tune, Glob, Gone, Lookup
<1>4. Framed(h) /\ UNCHANGED <<paths, idx, todo, vol, op>>
  BY <1>1, <1>3, MovesFramed DEF Framed
<1>5. vol[h] \in Vols /\ vol[h] \in exists /\ PathsView(vol[h])'
  BY <1>2, <1>4, FailedView
<1>6. ASSUME NEW x, NEW c, Moves(h, x) \/ Fails(h, c, x) PROVE pc'[h] = x
  BY <1>1, <1>6, MovesFramed
<1>7. PathsOK(h)'
  <2>1. CASE Check(h) \/ Nqn(h)
    <3>1. pc[h] \in {"check", "nqn"} /\ op[h] = "Stage" /\ paths[s] = {} /\ idx[h] = 1
      BY <1>1, <2>1 DEF Check, Nqn, NodeInv, HandlerInv, HandlerOK, PathsOK
    <3>2. pc'[h] \in {"ok", "nqn", "fetch", "err"}
      BY <1>6, <2>1, <3>1 DEF Check, Nqn, Subsys
    <3>3. QED
      BY <1>4, <3>1, <3>2 DEF PathsOK
  <2>2. CASE Fetch(h)
    <3>1. pc[h] = "fetch" /\ op[h] = "Stage" /\ paths[s] = {} /\ idx[h] = 1
      BY <1>1, <2>2 DEF Fetch, NodeInv, HandlerInv, HandlerOK, PathsOK
    <3>2. pc'[h] \in {"conn", "err"}
      BY <1>6, <2>2 DEF Fetch
    <3>3. PathsOf[s] \in Nat /\ PathsOf[s] >= 1 /\ 1..(1 - 1) = {}
      BY <1>5, ConstantsAssumption DEF ConstantsAssumption
    <3>4. QED
      BY <1>4, <3>1, <3>2, <3>3 DEF PathsOK
  <2>3. CASE Wait(h)
    <3>1. pc[h] = "wait" /\ op[h] = "Stage" /\ paths[s] # {}
      BY <1>1, <2>3 DEF Wait, NodeInv, HandlerInv, HandlerOK, PathsOK
    <3>2. vol[h] \in Devices(s)
      BY <1>1, <1>5, <3>1, OneDevice
    <3>3. pc'[h] \in {"stash", "mount"}
      BY <1>6, <2>3, <3>2 DEF Wait, Fails, Subsys
    <3>4. QED
      BY <1>4, <3>1, <3>3 DEF PathsOK
  <2>4. CASE Tune(h) \/ Lookup(h)
    <3>1. /\ pc[h] \in {"tune", "lookup"}
          /\ op[h] = IF pc[h] = "tune" THEN "Stage" ELSE "Unstage"
      BY <1>1, <2>4 DEF Tune, Lookup, NodeInv, HandlerInv, HandlerOK
    <3>2. /\ pc'[h] \in {"stash", "glob", "err"}
          /\ pc'[h] = "err" => op[h] = "Unstage"
      BY <1>6, <2>4, <3>1 DEF Tune, Lookup
    <3>3. QED
      BY <1>4, <3>1, <3>2 DEF PathsOK
  <2>5. CASE Glob(h)
    <3>1. /\ \A u, w \in Devices(s) : u = w
          /\ Devices(s) = {} => paths[s] = {}
      BY <1>1, <1>5, OneDevice
    <3>2. Moves(h, "drop") \/ (Moves(h, "gone") /\ Devices(s) = {})
      BY <2>5, <3>1 DEF Glob, Subsys
    <3>3. pc'[h] = "drop" \/ (pc'[h] = "gone" /\ paths[s] = {})
      BY <1>6, <3>1, <3>2
    <3>4. QED
      BY <1>2, <1>4, <3>3 DEF PathsOK
  <2>6. CASE Gone(h)
    <3>1. \/ pc'[h] = AfterDisconnect(h) /\ paths[s] = {}
          \/ pc'[h] = "err" /\ paths[s] # {}
      BY <1>1, <1>5, <1>6, <2>6, OneDevice DEF Gone, Subsys
    <3>2. op[h] = "Stage" => paths[s] = {}
      BY <1>1, <2>6 DEF Gone, PathsOK
    <3>3. \/ pc'[h] = "clean" /\ op[h] = "Unstage" /\ paths[s] = {}
          \/ pc'[h] = "err"
      BY <1>2, <3>1 DEF AfterDisconnect
    <3>4. QED
      BY <1>2, <1>4, <3>2, <3>3 DEF PathsOK
  <2>7. QED
    BY <2>1, <2>2, <2>3, <2>4, <2>5, <2>6
<1>8. QED
  BY <1>2, <1>4, <1>5, <1>7, FailedKept

\* The steps that change a mount, a bind mount or the volume context.
LEMMA FailedWrites ==
  ASSUME FailedInv, UnboundInv', NEW h \in Handlers,
         Mount(h) \/ Stash(h) \/ Umount(h) \/ Clean(h) \/ Bind(h) \/ Unbind(h)
  PROVE  FailedInv'
<1>1. NodeInv /\ PathsOK(h)
  BY DEF FailedInv, UnboundInv
<1>2. /\ pc[h] \in {"mount", "stash", "umount", "clean", "bind", "unbind"} /\ vol[h] \in Vols
      /\ pc[h] \in {"mount", "stash"} => op[h] = "Stage"
      /\ pc[h] \in {"umount", "clean"} => op[h] = "Unstage"
      /\ pc[h] \in {"bind", "unbind"} => op[h] \in {"Publish", "Unpublish"}
  BY <1>1, Serving
  DEF Mount, Stash, Umount, Clean, Bind, Unbind, NodeInv, HandlerInv, HandlerOK, Past, Steps
<1>3. \E x : /\ Goto(h, x)
             /\ pc[h] \in {"mount", "stash"} => x \in {"tune", "glob", "ok"}
             /\ pc[h] = "umount" => x \in {"lookup", "err"}
             /\ pc[h] \in {"clean", "bind", "unbind"} => x \in {"ok", "err"}
  BY DEF Mount, Stash, Umount, Clean, Bind, Unbind, Moves, Fails
<1>4. /\ UNCHANGED <<exists, paths, op, vol, idx, todo, know, await>>
      /\ \A v \in Vols \ {vol[h]} : mnt'[v] = mnt[v] /\ stash'[v] = stash[v]
  BY <1>1 DEF Mount, Stash, Umount, Clean, Bind, Unbind, Moves, Fails, host, locals, kubelet,
     NodeInv, TypeOK
<1>5. Framed(h)
  BY <1>1, <1>3, <1>4 DEF Framed, Goto, NodeInv, TypeOK
<1>6. /\ pc[h] \in {"mount", "stash"} => pc'[h] \in {"tune", "glob", "ok"}
      /\ pc[h] = "umount" => pc'[h] \in {"lookup", "err"}
      /\ pc[h] \in {"clean", "bind", "unbind"} => pc'[h] \in {"ok", "err"}
  BY <1>1, <1>3 DEF Goto, NodeInv, TypeOK
<1>7. PathsOK(h)'
  BY <1>1, <1>2, <1>4, <1>6 DEF PathsOK
<1>8. QED
  BY <1>2, <1>5, <1>7, FailedView, FailedKept

\* The connections are made in order, so when one fails those before it are all
\* there is to undo; a disconnect goes through all that it has listed.
LEMMA FailedPaths ==
  ASSUME OwnSubsystems, MayLose = {}, "device" \notin MayFail, "resolve" \notin MayFail,
         "disconnect" \notin MayFail, \A s \in Subsystems : PathsOf[s] <= 2,
         FailedInv, UnboundInv', NEW h \in Handlers,
         Conn(h) \/ Undo(h) \/ Drop(h) \/ Cut(h)
  PROVE  FailedInv'
<1> DEFINE v == vol[h]
           s == SubsysOf[vol[h]]
           i == idx[h]
<1>1. NodeInv /\ TypeOK /\ PathsOK(h)
  BY DEF FailedInv, UnboundInv, NodeInv
<1>2. /\ pc[h] \in {"conn", "undo", "drop", "undocut", "dropcut"}
      /\ op[h] \in {"Stage", "Unstage"} /\ v \in Vols
      /\ pc[h] \in {"conn", "undo", "undocut"} => op[h] = "Stage"
  BY <1>1, Serving
  DEF Conn, Undo, Drop, Cut, NodeInv, HandlerInv, HandlerOK, Past, Steps
<1>3. v \in exists
  <2>1. know[v] \in {"staging", "unstaging"}
    BY <1>1, <1>2 DEF FailedInv, UnboundInv, NodeInv, CallInv, Doing
  <2>2. QED
    BY <1>2, <2>1 DEF FailedInv, PathsView
<1>4. ASSUME NEW x, Goto(h, x) PROVE pc'[h] = x /\ \A g \in Handlers \ {h} : pc'[g] = pc[g]
  BY <1>1, <1>4 DEF Goto, TypeOK
<1>5. ASSUME NEW new, SetPaths(s, new)
      PROVE  /\ paths'[s] = new
             /\ \A u \in Vols \ {v} :
                  paths'[SubsysOf[u]] = paths[SubsysOf[u]] /\ mnt'[u] = mnt[u]
  BY <1>1, <1>2, <1>5, PathsSet
<1>6. ASSUME Framed(h), PathsOK(h)' PROVE FailedInv'
  BY <1>2, <1>6, FailedView, FailedKept
<1>7. CASE Conn(h)
  <2>1. /\ pc[h] = "conn" /\ op[h] = "Stage" /\ i \in Nat /\ i >= 1
        /\ PathsOf[s] \in Nat /\ i <= PathsOf[s] /\ PathsOf[s] <= 2
        /\ paths[s] = 1..(i - 1)
    BY <1>1, <1>2, <1>7, ConstantsAssumption DEF Conn, PathsOK, TypeOK, ConstantsAssumption
  <2>2. i \notin paths[s]
    BY <2>1
  <2>3. CASE /\ SetPaths(s, paths[s] \cup {i})
             /\ \/ i < PathsOf[s] /\ Goto(h, "conn") /\ idx' = [idx EXCEPT ![h] = i + 1]
                \/ i = PathsOf[s] /\ Goto(h, "wait") /\ UNCHANGED idx
             /\ UNCHANGED <<exists, stash, binds, lock, op, vol, todo, kubelet>>
    <3>1. Framed(h)
      BY <1>1, <1>4, <1>5, <2>3 DEF Framed, TypeOK, kubelet
    <3>2. paths'[s] = 1..i
      <4>1. paths'[s] = 1..(i - 1) \cup {i}
        BY <1>5, <2>1, <2>3
      <4>2. 1..(i - 1) \cup {i} = 1..i
        BY <2>1
      <4>3. QED
        BY <4>1, <4>2
    <3>3. \/ pc'[h] = "wait"
          \/ pc'[h] = "conn" /\ idx'[h] = i + 1 /\ i + 1 <= PathsOf[s]
      BY <1>1, <1>4, <2>1, <2>3 DEF TypeOK
    <3>4. 1..i # {} /\ (i + 1) - 1 = i
      BY <2>1
    <3>5. PathsOK(h)'
      BY <2>1, <2>3, <3>2, <3>3, <3>4 DEF PathsOK
    <3>6. QED
      BY <1>6, <3>1, <3>5
  <2>4. CASE Fails(h, "connect", AfterFailure(i))
    <3>1. /\ Framed(h) /\ pc'[h] = AfterFailure(i)
          /\ UNCHANGED <<paths, op, vol, idx, todo>>
      BY <1>1, <2>4, MovesFramed DEF Framed
    <3>2. \/ AfterFailure(i) = "undo" /\ paths[s] # {}
          \/ AfterFailure(i) = "err" /\ paths[s] = {}
      <4>1. CASE i = 1
        BY <2>1, <4>1 DEF AfterFailure
      <4>2. CASE i = 2
        BY <2>1, <4>2 DEF AfterFailure
      <4>3. QED
        BY <2>1, <4>1, <4>2
    <3>3. PathsOK(h)'
      BY <2>1, <3>1, <3>2 DEF PathsOK
    <3>4. QED
      BY <1>6, <3>1, <3>3
  <2>5. QED
    BY <1>7, <2>2, <2>3, <2>4 DEF Conn, Subsys
<1>8. CASE Undo(h) \/ Drop(h)
  <2>1. /\ v \in Devices(s) <=> paths[s] # {}
        /\ Devices(s) = {} <=> paths[s] = {}
    BY <1>1, <1>2, <1>3, OneDevice
  <2>2. pc[h] = "undo" => op[h] = "Stage" /\ paths[s] # {}
    BY <1>1, <1>2 DEF PathsOK
  <2>3. CASE /\ todo' = [todo EXCEPT ![h] = paths[s]]
             /\ \E x \in {"undocut", "dropcut"} : Goto(h, x)
             /\ UNCHANGED <<host, lock, op, vol, idx, kubelet>>
    <3>1. Framed(h)
      BY <1>1, <1>4, <2>3 DEF Framed, TypeOK, host, kubelet
    <3>2. /\ pc'[h] \in {"undocut", "dropcut"} /\ todo'[h] = paths[s]
          /\ UNCHANGED <<paths, op, vol, idx>>
      BY <1>1, <1>4, <2>3 DEF TypeOK, host
    <3>3. PathsOK(h)'
      BY <1>2, <3>2 DEF PathsOK
    <3>4. QED
      BY <1>6, <3>1, <3>3
  <2>4. CASE paths[s] = {} /\ Moves(h, "err")
    <3>1. Framed(h) /\ pc'[h] = "err" /\ UNCHANGED <<paths, op, vol, idx, todo>>
      BY <1>1, <2>4, MovesFramed DEF Framed
    <3>2. PathsOK(h)'
      BY <1>2, <2>4, <3>1 DEF PathsOK
    <3>3. QED
      BY <1>6, <3>1, <3>2
  <2>5. QED
    BY <1>8, <2>1, <2>2, <2>3, <2>4 DEF Undo, Drop, Resolve, Fails, Subsys
<1>9. CASE Cut(h)
  <2>1. /\ pc[h] \in {"undocut", "dropcut"}
        /\ op[h] = "Stage" => paths[s] \subseteq todo[h]
    BY <1>1, <1>9 DEF Cut, PathsOK
  <2>2. CASE /\ todo[h] = {}
             /\ Moves(h, IF pc[h] = "undocut" THEN "err" ELSE "gone")
    <3>1. /\ Framed(h) /\ pc'[h] \in {"err", "gone"}
          /\ UNCHANGED <<paths, op, vol, idx, todo>>
      BY <1>1, <2>2, MovesFramed DEF Framed
    <3>2. PathsOK(h)'
      BY <1>2, <2>1, <2>2, <3>1 DEF PathsOK
    <3>3. QED
      BY <1>6, <3>1, <3>2
  <2>3. ASSUME NEW p \in todo[h], todo' = [todo EXCEPT ![h] = todo[h] \ {p}],
               SetPaths(s, paths[s] \ {p}),
               UNCHANGED <<exists, stash, binds, lock, pc, op, vol, idx, kubelet>>
        PROVE  FailedInv'
    <3>1. Framed(h)
      BY <1>1, <1>5, <2>3 DEF Framed, TypeOK, kubelet
    <3>2. paths'[s] = paths[s] \ {p} /\ todo'[h] = todo[h] \ {p}
      BY <1>1, <1>5, <2>3 DEF TypeOK
    <3>3. PathsOK(h)'
      BY <1>2, <2>1, <2>3, <3>2 DEF PathsOK
    <3>4. QED
      BY <1>6, <3>1, <3>3
  <2>4. QED
    BY <1>9, <2>2, <2>3 DEF Cut, Subsys
<1>10. QED
  BY <1>7, <1>8, <1>9

\* A handler that gets its lock starts its RPC with nothing connected.
LEMMA FailedLock ==
  ASSUME FailedInv, UnboundInv', NEW h \in Handlers, Lock(h)
  PROVE  FailedInv'
<1>1. NodeInv /\ PathsOK(h)
  BY DEF FailedInv, UnboundInv
<1>2. pc[h] = "lock" /\ op[h] \in RPCs /\ vol[h] \in Vols
  BY <1>1 DEF Lock, NodeInv, HandlerInv, HandlerOK, TypeOK
<1>3. /\ UNCHANGED <<exists, paths, mnt, stash, op, vol, idx, todo, know, await>>
      /\ pc' = [pc EXCEPT ![h] = FirstStep(h)]
  BY DEF Lock, Goto, host, locals, kubelet
<1>4. Framed(h) /\ pc'[h] = FirstStep(h)
  BY <1>1, <1>3 DEF Framed, NodeInv, TypeOK
<1>5. /\ FirstStep(h) \in {"check", "umount", "bind", "unbind"}
      /\ op[h] = "Stage" => FirstStep(h) = "check"
  BY DEF FirstStep
<1>6. PathsOK(h)'
  BY <1>1, <1>2, <1>3, <1>4, <1>5 DEF PathsOK
<1>7. QED
  BY <1>2, <1>4, <1>6, FailedView, FailedKept

\* A NodeStageVolume that answers with an error has nothing connected.
LEMMA FailedReturn ==
  ASSUME FailedInv, UnboundInv', NEW h \in Handlers, Return(h)
  PROVE  FailedInv'
<1>1. NodeInv /\ PathsOK(h) /\ TypeOK
  BY DEF FailedInv, UnboundInv, NodeInv
<1>2. PICK v \in Vols : v = vol[h]
  BY <1>1, Serving DEF Return, Past, Steps
<1>3. /\ pc[h] \in {"ok", "err"} /\ op[h] \in RPCs
      /\ await[v] = h /\ know[v] = Doing(op[h])
  BY <1>1, <1>2, Serving DEF Return, FailedInv, UnboundInv, NodeInv, CallInv, Past, Steps
<1>4. /\ pc' = [pc EXCEPT ![h] = "idle"] /\ op' = [op EXCEPT ![h] = None]
      /\ vol' = [vol EXCEPT ![h] = None] /\ idx' = [idx EXCEPT ![h] = 1]
      /\ todo' = [todo EXCEPT ![h] = {}]
      /\ know' = [know EXCEPT ![v] = Conclusion(h)]
      /\ UNCHANGED <<exists, paths>>
  BY <1>2, <1>3 DEF Return, Goto, Forget, Answer, host
<1>5. PathsView(v)'
  <2>1. know'[v] = Conclusion(h)
    BY <1>1, <1>2, <1>4 DEF TypeOK
  <2>2. v \in exists
    BY <1>2, <1>3 DEF FailedInv, PathsView, Doing
  <2>3. CASE op[h] = "Stage"
    <3>1. \/ Conclusion(h) = "staged"
          \/ pc[h] = "err" /\ Conclusion(h) = "failed"
      BY <1>2, <1>3, <2>3 DEF Conclusion, Doing
    <3>2. QED
      BY <1>1, <1>2, <1>4, <2>1, <2>2, <2>3, <3>1 DEF PathsOK, PathsView
  <2>4. CASE op[h] = "Unstage"
    <3>1. \/ pc[h] = "ok" /\ Conclusion(h) = "unstaged"
          \/ Conclusion(h) = "unstaging"
      BY <1>2, <1>3, <2>4 DEF Conclusion, Doing
    <3>2. QED
      BY <1>1, <1>2, <1>4, <2>1, <2>2, <2>4, <3>1 DEF PathsOK, PathsView
  <2>5. CASE op[h] \in {"Publish", "Unpublish"}
    <3>1. know[v] \in {"publishing", "unpublishing"}
      BY <1>3, <2>5 DEF Doing
    <3>2. Conclusion(h) \in {"staged", "published", know[v]}
      BY <1>2, <1>3, <2>5, <3>1 DEF Conclusion
    <3>3. QED
      BY <1>4, <2>1, <2>2, <3>1, <3>2 DEF PathsView
  <2>6. QED
    BY <1>3, <2>3, <2>4, <2>5 DEF RPCs
<1>6. \A u \in Vols : PathsView(u)'
  <2>1. ASSUME NEW u \in Vols, u # v PROVE PathsView(u)'
    <3>1. know'[u] = know[u]
      BY <1>1, <1>4, <2>1 DEF TypeOK
    <3>2. QED
      BY <1>4, <3>1 DEF FailedInv, PathsView
  <2>2. QED
    BY <1>5, <2>1
<1>7. \A g \in Handlers : PathsOK(g)'
  <2>1. PathsOK(h)'
    BY <1>1, <1>4, ConstantsAssumption DEF TypeOK, PathsOK, ConstantsAssumption, RPCs
  <2>2. ASSUME NEW g \in Handlers, g # h PROVE PathsOK(g)'
    <3>1. /\ pc'[g] = pc[g] /\ op'[g] = op[g] /\ vol'[g] = vol[g]
          /\ idx'[g] = idx[g] /\ todo'[g] = todo[g]
      BY <1>1, <1>4, <2>2 DEF TypeOK
    <3>2. PathsOK(g) /\ paths' = paths
      BY <1>4 DEF FailedInv
    <3>3. QED
      BY <3>1, <3>2 DEF PathsOK
  <2>3. QED
    BY <2>1, <2>2
<1>8. QED
  BY <1>6, <1>7 DEF FailedInv

\* A NodeStageVolume is called for a volume that has nothing connected.
LEMMA FailedCall ==
  ASSUME FailedInv, UnboundInv', NEW h \in Handlers, NEW v \in Vols, Call(h, v)
  PROVE  FailedInv'
<1>1. NodeInv /\ TypeOK /\ PathsView(v) /\ PathsOK(h)
  BY DEF FailedInv, UnboundInv, NodeInv
<1>2. PICK rpc \in RPCs : Begin(h, rpc, v) /\ know' = [know EXCEPT ![v] = Doing(rpc)]
  BY CallShape
<1>3. /\ pc[h] = "idle"
      /\ pc' = [pc EXCEPT ![h] = "lock"] /\ op' = [op EXCEPT ![h] = rpc]
      /\ vol' = [vol EXCEPT ![h] = v]
      /\ UNCHANGED <<exists, paths, idx, todo>>
  BY <1>2 DEF Begin, Goto, host
<1>4. pc'[h] = "lock" /\ op'[h] = rpc /\ vol'[h] = v /\ know'[v] = Doing(rpc)
  BY <1>1, <1>2, <1>3 DEF TypeOK
<1>5. /\ know'[v] \in {"staging", "unstaging", "publishing", "unpublishing"} /\ v \in exists
      /\ know'[v] = "staging" => paths[SubsysOf[v]] = {}
  BY <1>1, <1>4
  DEF Call, CallStage, CallUnstage, CallPublish, CallUnpublish, TypeOK, PathsView
<1>6. \A u \in Vols : PathsView(u)'
  <2>1. PathsView(v)'
    BY <1>3, <1>5 DEF PathsView
  <2>2. ASSUME NEW u \in Vols, u # v PROVE PathsView(u)'
    <3>1. know'[u] = know[u]
      BY <1>1, <1>2, <2>2 DEF TypeOK
    <3>2. QED
      BY <1>3, <3>1 DEF FailedInv, PathsView
  <2>3. QED
    BY <2>1, <2>2
<1>7. \A g \in Handlers : PathsOK(g)'
  <2>1. PathsOK(h)'
    <3>1. rpc = "Stage" => paths[SubsysOf[v]] = {}
      BY <1>4, <1>5 DEF Doing
    <3>2. QED
      BY <1>1, <1>3, <1>4, <3>1 DEF PathsOK
  <2>2. ASSUME NEW g \in Handlers, g # h PROVE PathsOK(g)'
    <3>1. pc'[g] = pc[g] /\ op'[g] = op[g] /\ vol'[g] = vol[g]
      BY <1>1, <1>3, <2>2 DEF TypeOK
    <3>2. QED
      BY <1>3, <3>1 DEF FailedInv, PathsOK
  <2>3. QED
    BY <2>1, <2>2
<1>8. QED
  BY <1>6, <1>7 DEF FailedInv

\* Before the first call nothing is connected.
LEMMA FailedInit == Init => FailedInv
<1> SUFFICES ASSUME Init PROVE FailedInv
  OBVIOUS
<1>1. UnboundInv
  BY UnboundInit
<1>2. \A v \in Vols : PathsView(v)
  BY ConstantsAssumption DEF ConstantsAssumption, Init, PathsView
<1>3. \A h \in Handlers : PathsOK(h)
  BY ConstantsAssumption DEF ConstantsAssumption, RPCs, Init, PathsOK
<1>4. QED
  BY <1>1, <1>2, <1>3 DEF FailedInv

\* Every step keeps FailedInv when what the code undoes a failure with does not
\* fail itself.
LEMMA FailedNext ==
  ASSUME OwnSubsystems, ~MayGiveUp, ~MayCrash, MayLose = {}, "device" \notin MayFail,
         "resolve" \notin MayFail, "disconnect" \notin MayFail,
         \A s \in Subsystems : PathsOf[s] <= 2,
         FailedInv, [Next]_vars
  PROVE  FailedInv'
<1>1. UnboundInv'
  BY UnboundNext DEF FailedInv
<1>2. ASSUME NEW h \in Handlers, Step(h) PROVE FailedInv'
  BY <1>1, <1>2, FailedReads, FailedWrites, FailedPaths, FailedReturn DEF Step
<1>3. ASSUME NEW v \in Vols, Provision(v) \/ Deprovision(v) PROVE FailedInv'
  <2>1. UNCHANGED <<paths, pc, op, vol, idx, todo, know>>
    BY <1>3 DEF Provision, Deprovision, locals, kubelet
  <2>2. \A u \in Vols : PathsView(u)'
    BY <1>3, <2>1 DEF FailedInv, PathsView, Provision, Deprovision
  <2>3. QED
    BY <1>1, <2>1, <2>2 DEF FailedInv, PathsOK
<1>4. CASE UNCHANGED vars
  BY <1>1, <1>4 DEF FailedInv, PathsView, PathsOK, vars
<1>5. ~Crash /\ \A v \in Vols : ~GiveUp(v)
  BY DEF Crash, GiveUp
<1>6. QED
  BY <1>1, <1>2, <1>3, <1>4, <1>5, FailedLock, FailedCall DEF Next

\* With at most two connections per volume, and when no connect is reported as
\* failed after it took effect and the undoing itself does not fail, a
\* NodeStageVolume starts from, and fails with, nothing connected.
THEOREM FailedInvariance ==
  ASSUME OwnSubsystems, ~MayGiveUp, ~MayCrash, MayLose = {}, "device" \notin MayFail,
         "resolve" \notin MayFail, "disconnect" \notin MayFail,
         \A s \in Subsystems : PathsOf[s] <= 2
  PROVE  Spec => []FailedInv
<1>1. FailedInv /\ [Next]_vars => FailedInv'
  BY FailedNext
<1>2. QED
  BY <1>1, FailedInit, PTL DEF Spec

\* The failed NodeStageVolume leaves no controller connected, whichever of its
\* other commands failed.
THEOREM FailedStageIsClean ==
  ASSUME OwnSubsystems, ~MayGiveUp, ~MayCrash, MayLose = {}, "device" \notin MayFail,
         "resolve" \notin MayFail, "disconnect" \notin MayFail,
         \A s \in Subsystems : PathsOf[s] <= 2
  PROVE  Spec => []FailedStageLeavesNothing
<1>1. FailedInv => FailedStageLeavesNothing
  BY DEF FailedInv, PathsView, FailedStageLeavesNothing
<1>2. QED
  BY <1>1, FailedInvariance, PTL
=============================================================================
