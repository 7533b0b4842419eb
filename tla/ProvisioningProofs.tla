------------------------- MODULE ProvisioningProofs -------------------------
(***************************************************************************)
(* What was handed out is kept (HeldInv), for an orchestrator that waits   *)
(* for its calls and a cluster that carries out no DELETE of an lvol after *)
(* its timeout.  Then the proof that Controller implements Provisioning,   *)
(* and with it that nothing is left of a deleted name (KeptInv): for       *)
(* lookups by name that fail only for names that are not there, and a      *)
(* cluster that carries out no request late.                               *)
(***************************************************************************)
EXTENDS ControllerProofs

\* What the refinement mapping is computed from.
mapped == <<life, nameOf, co, held>>

\* What the invariant says of two handlers at work: they serve different objects,
\* and so work on different volumes or snapshots.
LEMMA OnesOwn ==
  ASSUME HeldInv, NEW g \in Handlers, NEW h \in Handlers, g # h,
         pc[g] # "idle", pc[h] # "idle"
  PROVE  obj[g] # obj[h] /\ (work[g] # None => work[g] # work[h])
  BY DEF HeldInv, ServesOne

\* A step that touches neither the cluster's volumes nor what the CO knows keeps
\* HeldInv when every handler still serves one object.
LEMMA HeldQuiet ==
  ASSUME HeldInv, DeletedInv', UNCHANGED mapped, \A g \in Handlers : ServesOne(g)',
         \A r \in late' : r \in late \/ LateOK(r)
  PROVE  HeldInv'
<1>1. UNCHANGED <<life, nameOf, co, held>>
  BY DEF mapped
<1>2. \A r \in late' : LateOK(r)'
  BY <1>1 DEF HeldInv, LateOK
<1>3. QED
  BY <1>1, <1>2 DEF HeldInv, HandedOutKept, Live

\* A handler that moves on while the cluster stays as it is.
LEMMA HeldMoves ==
  ASSUME HeldInv, DeletedInv', NEW h \in Handlers, pc[h] # "idle",
         UNCHANGED mapped, UNCHANGED <<op, obj, await>>,
         \A r \in late' : r \in late \/ LateOK(r),
         NEW x \in Steps, Goto(h, x),
         \A g \in Handlers \ {h} : work'[g] = work[g],
         work'[h] = work[h] \/ work'[h] \in LvolsNamed(obj[h]),
         \/ x = "size"
         \/ x = "ok" /\ op[h] \in {"CreateVolume", "CreateSnapshot"}
         => Live(work'[h])
  PROVE  HeldInv'
<1>1. UNCHANGED <<life, nameOf, co, held>>
  BY DEF mapped
<1>2. ASSUME NEW g \in Handlers PROVE ServesOne(g)'
  <2>1. CASE g # h
    BY <1>1, <2>1 DEF HeldInv, DeletedInv, LockInv, TypeOK, ServesOne, Live, Goto
  <2>2. CASE g = h
    <3>1. pc'[h] = x
      BY DEF Goto, HeldInv, DeletedInv, LockInv, TypeOK
    <3>2. work'[h] \in LvolsNamed(obj[h]) =>
            work'[h] \in Lvols /\ nameOf[work'[h]] = obj[h] /\ obj[h] \in Names
      BY ConstantsAssumption DEF ConstantsAssumption, LvolsNamed, HeldInv, Things
    <3>3. QED
      BY <1>1, <2>2, <3>1, <3>2 DEF HeldInv, ServesOne, Live
  <2>3. QED
    BY <2>1, <2>2
<1>3. QED
  BY <1>2, HeldQuiet

\* Something new is made, by a handler or by a late request.
LEMMA HeldGrows ==
  ASSUME HeldInv, DeletedInv', NEW t \in Things, NEW o \in Objs, Make(t, o),
         t \in Lvols => o \in Names, UNCHANGED <<co, held>>, late' \subseteq late,
         \A g \in Handlers : ServesOne(g)'
  PROVE  HeldInv'
<1> USE ConstantsAssumption DEF ConstantsAssumption
<1>1. TypeOK
  BY DEF HeldInv, DeletedInv, LockInv
<1>2. /\ life[t] = "unborn" /\ life'[t] = "live" /\ nameOf'[t] = o
      /\ \A u \in Things \ {t} : life'[u] = life[u] /\ nameOf'[u] = nameOf[u]
  BY <1>1 DEF Make, TypeOK
<1>3. \A u \in Things : life'[u] # "unborn" =>
        nameOf'[u] \in Objs /\ (u \in Lvols => nameOf'[u] \in Names)
  BY <1>2 DEF HeldInv
<1>4. \A p \in Objs : held[p] # None => held[p] \in Things \ {t}
  BY <1>1, <1>2 DEF HeldInv, DeletedInv, TypeOK
<1>5. ASSUME NEW r \in late' PROVE LateOK(r)'
  <2>1. r \in Requests /\ LateOK(r)
    BY <1>1 DEF HeldInv, TypeOK
  <2>2. r.id # None /\ life[r.id] # "unborn" => r.id \in Things \ {t}
    BY <1>2, <2>1 DEF Requests
  <2>3. QED
    BY <1>2, <2>1, <2>2 DEF LateOK
<1>6. QED
  BY <1>2, <1>3, <1>4, <1>5 DEF HeldInv, HandedOutKept, Live

\* Something is removed that was made for a name which the CO was not given, or
\* which it asked to delete.
LEMMA HeldShrinks ==
  ASSUME HeldInv, DeletedInv', NEW t \in Things, Remove(t), co[nameOf[t]] # "bound",
         UNCHANGED <<co, held>>, late' \subseteq late, \A g \in Handlers : ServesOne(g)'
  PROVE  HeldInv'
<1> USE ConstantsAssumption DEF ConstantsAssumption
<1>1. TypeOK /\ HeldKnown
  BY DEF HeldInv, DeletedInv, LockInv
<1>2. /\ UNCHANGED nameOf
      /\ \A u \in Things \ {t} : life'[u] = life[u]
      /\ \A u \in Things : life'[u] = "unborn" <=> life[u] = "unborn"
  BY <1>1 DEF Remove, Live, TypeOK
<1>3. \A p \in Objs : co[p] = "bound" => held[p] \in Things \ {t}
  BY <1>1 DEF HeldInv, HeldKnown, TypeOK
<1>4. ASSUME NEW r \in late' PROVE LateOK(r)'
  <2>1. r \in Requests /\ LateOK(r)
    BY <1>1 DEF HeldInv, TypeOK
  <2>2. r.id # None => r.id \in Things
    BY <2>1 DEF Requests
  <2>3. QED
    BY <1>2, <2>1, <2>2 DEF LateOK
<1>5. QED
  BY <1>2, <1>3, <1>4 DEF HeldInv, HandedOutKept, Live

\* What a CreateVolume or CreateSnapshot handler makes is for its own object.
LEMMA HeldBirth ==
  ASSUME HeldInv, DeletedInv', NEW h \in Handlers, pc[h] # "idle",
         UNCHANGED <<op, obj, await, co, held>>, late' \subseteq late,
         NEW t \in Things, Make(t, obj[h]), t \in Lvols => op[h] = "CreateVolume",
         NEW x \in Steps \ {"ok"}, Goto(h, x),
         \A g \in Handlers \ {h} : work'[g] = work[g],
         \/ work'[h] = work[h] /\ x # "size"
         \/ work'[h] = t /\ (t \in Lvols <=> obj[h] \in Names)
  PROVE  HeldInv'
<1> USE ConstantsAssumption DEF ConstantsAssumption
<1>1. TypeOK /\ HandlerInv
  BY DEF HeldInv, DeletedInv, LockInv
<1>2. obj[h] \in Objs /\ (op[h] = "CreateVolume" => obj[h] \in Names)
  BY <1>1 DEF TypeOK, HandlerInv, HandlerOK
<1>3. /\ life[t] = "unborn" /\ life'[t] = "live" /\ nameOf'[t] = obj[h]
      /\ \A u \in Things \ {t} : life'[u] = life[u] /\ nameOf'[u] = nameOf[u]
  BY <1>1 DEF Make, TypeOK
<1>4. ASSUME NEW g \in Handlers PROVE ServesOne(g)'
  <2>1. work[g] # None => work[g] \in Things \ {t}
    BY <1>1, <1>3 DEF HeldInv, DeletedInv, TypeOK
  <2>2. CASE g # h
    BY <1>1, <1>3, <2>1, <2>2 DEF HeldInv, ServesOne, Live, Goto, TypeOK
  <2>3. CASE g = h
    <3>1. pc'[h] = x
      BY <1>1 DEF Goto, TypeOK
    <3>2. QED
      BY <1>3, <2>1, <2>3, <3>1 DEF HeldInv, ServesOne, Live
  <2>4. QED
    BY <2>2, <2>3
<1>5. QED
  BY <1>2, <1>4, HeldGrows

\* What a handler works on was made for its object, and while it works the CO
\* does not count on that.
LEMMA WorkedOn ==
  ASSUME HeldInv, NEW h \in Handlers, pc[h] # "idle", work[h] # None
  PROVE  /\ obj[h] \in Objs /\ work[h] \in Things /\ nameOf[work[h]] = obj[h]
         /\ await[obj[h]] = h /\ op[h] \in RPCs /\ co[obj[h]] # "bound"
<1> USE ConstantsAssumption DEF ConstantsAssumption
<1>1. TypeOK /\ CallInv /\ HandlerInv
  BY DEF HeldInv, DeletedInv, LockInv
<1>2. /\ obj[h] \in Objs /\ work[h] \in Things /\ nameOf[work[h]] = obj[h]
      /\ await[obj[h]] = h /\ op[h] \in RPCs
  BY <1>1 DEF TypeOK, HandlerInv, HandlerOK, HeldInv, ServesOne
<1>3. QED
  BY <1>1, <1>2 DEF CallInv, RPCs

\* What a clean-up or a delete call removes was made for its own object.
LEMMA HeldDeath ==
  ASSUME HeldInv, DeletedInv', NEW h \in Handlers, pc[h] # "idle",
         UNCHANGED <<op, obj, work, await, co, held>>, late' \subseteq late,
         work[h] # None, Remove(work[h]),
         Goto(h, "err") \/ (Goto(h, "ok") /\ op[h] \in {"DeleteVolume", "DeleteSnapshot"})
  PROVE  HeldInv'
<1> DEFINE t == work[h]
<1>1. TypeOK
  BY DEF HeldInv, DeletedInv, LockInv
<1>2. /\ UNCHANGED nameOf
      /\ \A u \in Things \ {t} : life'[u] = life[u]
  BY <1>1, WorkedOn DEF Remove, Live, TypeOK
<1>3. ASSUME NEW g \in Handlers PROVE ServesOne(g)'
  <2>1. CASE g # h
    <3>1. pc[g] # "idle" /\ work[g] # None => work[g] \in Things \ {t}
      BY <1>1, <2>1, OnesOwn DEF TypeOK
    <3>2. QED
      BY <1>1, <1>2, <2>1, <3>1 DEF HeldInv, ServesOne, Live, Goto, TypeOK
  <2>2. CASE g = h
    <3>1. pc'[h] = "err" \/ (pc'[h] = "ok" /\ op[h] \in {"DeleteVolume", "DeleteSnapshot"})
      BY <1>1 DEF Goto, TypeOK
    <3>2. QED
      BY <1>2, <2>2, <3>1 DEF HeldInv, ServesOne
  <2>3. QED
    BY <2>1, <2>2
<1>4. QED
  BY <1>3, WorkedOn, HeldShrinks

\* The CO is answered: what it is given exists and bears the name that it asked
\* for.
LEMMA HeldAnswer ==
  ASSUME HeldInv, DeletedInv', NEW h \in Handlers, Return(h)
  PROVE  HeldInv'
<1> USE ConstantsAssumption DEF ConstantsAssumption
<1> DEFINE o == obj[h]
           w == work[h]
<1>1. TypeOK /\ CallInv /\ HandlerInv
  BY DEF HeldInv, DeletedInv, LockInv
<1>2. /\ pc[h] \in {"ok", "err"} /\ Answer(h) /\ Goto(h, "idle") /\ Forget(h)
      /\ UNCHANGED <<life, nameOf, late>>
  BY DEF Return, cluster
<1>3. /\ o \in Objs /\ op[h] \in RPCs /\ await[o] = h
      /\ pc[h] = "ok" => w \in Things
  BY <1>1, <1>2 DEF TypeOK, HandlerInv, HandlerOK, HeldInv, ServesOne
<1>4. await' = [await EXCEPT ![o] = None]
  BY <1>2, <1>3 DEF Answer
<1>5. ASSUME NEW g \in Handlers PROVE ServesOne(g)'
  <2>1. CASE g = h
    BY <1>1, <1>2, <2>1 DEF ServesOne, Goto, TypeOK
  <2>2. CASE g # h /\ pc[g] # "idle"
    <3>1. obj[g] # o /\ obj[g] \in Objs
      BY <1>1, <1>2, <2>2, OnesOwn DEF TypeOK, HandlerInv, HandlerOK
    <3>2. QED
      BY <1>1, <1>2, <1>4, <2>2, <3>1 DEF HeldInv, ServesOne, Live, Goto, Forget, TypeOK
  <2>3. CASE g # h /\ pc[g] = "idle"
    BY <1>1, <1>2, <2>3 DEF ServesOne, Goto, TypeOK
  <2>4. QED
    BY <2>1, <2>2, <2>3
<1>6. CASE pc[h] = "err"
  BY <1>2, <1>3, <1>5, <1>6, HeldQuiet DEF Answer, mapped
<1>7. CASE pc[h] = "ok"
  <2>1. /\ \A p \in Objs \ {o} : co'[p] = co[p] /\ held'[p] = held[p]
        /\ \/ /\ co'[o] = "bound" /\ held'[o] = w /\ Live(w) /\ nameOf[w] = o
              /\ w \in Lvols <=> o \in Names
              /\ co[o] = "creating"
           \/ co'[o] = "deleted" /\ held'[o] = held[o]
    <3>1. CASE op[h] \in {"CreateVolume", "CreateSnapshot"}
      BY <1>1, <1>2, <1>3, <1>7, <3>1 DEF Answer, HeldInv, ServesOne, CallInv, TypeOK
    <3>2. CASE op[h] \in {"DeleteVolume", "DeleteSnapshot"}
      BY <1>1, <1>2, <1>3, <1>7, <3>2 DEF Answer, TypeOK
    <3>3. QED
      BY <1>3, <3>1, <3>2 DEF RPCs
  <2>2. ASSUME NEW r \in late' PROVE LateOK(r)'
    <3>1. r \in Requests /\ LateOK(r)
      BY <1>1, <1>2 DEF HeldInv, TypeOK
    <3>2. r.obj \in Objs
      BY <3>1 DEF Requests
    <3>3. QED
      BY <1>2, <2>1, <3>1, <3>2 DEF LateOK
  <2>3. QED
    BY <1>2, <1>3, <1>5, <2>1, <2>2 DEF HeldInv, HandedOutKept, Live
<1>8. QED
  BY <1>2, <1>6, <1>7

\* A call of the CO begins, for an object that no handler serves.
LEMMA HeldCall ==
  ASSUME HeldInv, DeletedInv', NEW h \in Handlers, NEW o \in Objs,
         CallCreate(h, o) \/ CallDelete(h, o)
  PROVE  HeldInv'
<1> USE ConstantsAssumption DEF ConstantsAssumption
<1>1. TypeOK /\ HandlerInv /\ HeldKnown
  BY DEF HeldInv, DeletedInv, LockInv
<1>2. UNCHANGED <<life, nameOf, late, held>>
  BY DEF CallCreate, CallDelete, cluster
<1>3. PICK rpc \in RPCs, s, w \in Things \cup {None} :
        /\ Begin(h, rpc, o, s, w)
        /\ rpc = "CreateSnapshot" => o \in SnapNames
        /\ w # None => w = held[o]
  BY <1>1 DEF CallCreate, CallDelete, RPCs, Objs, TypeOK
<1>4. /\ pc'[h] = "lock" /\ op'[h] = rpc /\ obj'[h] = o /\ work'[h] = w /\ await'[o] = h
      /\ await[o] = None
      /\ \A g \in Handlers \ {h} :
           pc'[g] = pc[g] /\ op'[g] = op[g] /\ obj'[g] = obj[g] /\ work'[g] = work[g]
      /\ \A p \in Objs \ {o} : await'[p] = await[p]
  BY <1>1, <1>3 DEF Begin, Goto, TypeOK
<1>5. ASSUME NEW g \in Handlers PROVE ServesOne(g)'
  <2>1. CASE g = h
    BY <1>2, <1>3, <1>4, <2>1 DEF ServesOne, HeldInv
  <2>2. CASE g # h
    <3>1. pc[g] # "idle" => obj[g] \in Objs \ {o}
      BY <1>1, <1>4 DEF HeldInv, ServesOne, HandlerInv, HandlerOK, TypeOK
    <3>2. QED
      BY <1>2, <1>4, <2>2, <3>1 DEF HeldInv, ServesOne, Live
  <2>3. QED
    BY <2>1, <2>2
<1>6. /\ \A p \in Objs \ {o} : co'[p] = co[p]
      /\ \/ co[o] \in {"absent", "creating"} /\ co'[o] = "creating"
         \/ co[o] \in {"bound", "deleting"} /\ co'[o] = "deleting"
  BY <1>1 DEF CallCreate, CallDelete, TypeOK
<1>7. ASSUME NEW r \in late' PROVE LateOK(r)'
  <2>1. r \in Requests /\ LateOK(r)
    BY <1>1, <1>2 DEF HeldInv, TypeOK
  <2>2. r.obj \in Objs
    BY <2>1 DEF Requests
  <2>3. QED
    BY <1>2, <1>6, <2>1, <2>2 DEF LateOK
<1>8. QED
  BY <1>2, <1>5, <1>6, <1>7 DEF HeldInv, HandedOutKept, Live

\* A step of a handler keeps HeldInv.
LEMMA HeldStep ==
  ASSUME "DELETE lvol" \notin MayDelay, HeldInv, DeletedInv',
         NEW h \in Handlers, Lock(h) \/ Step(h)
  PROVE  HeldInv'
<1> USE ConstantsAssumption DEF ConstantsAssumption
<1> DEFINE Sent(call, id) == [call |-> call, obj |-> obj[h], id |-> id]
<1>1. TypeOK /\ HandlerInv /\ CallInv
  BY DEF HeldInv, DeletedInv, LockInv
<1>2. pc[h] # "idle"
  BY DEF Lock, Step, Lookup, Post, Snap, Clone, Publish, Info, Undo, Unpublish, Delete,
         Size, DeleteSnap, Return
<1>3. obj[h] \in Objs
  BY <1>1, <1>2 DEF HandlerInv, HandlerOK, TypeOK
<1>4. CASE Lock(h)
  <2>1. /\ Goto(h, FirstStep(h)) /\ FirstStep(h) \in Steps \ {"ok", "size"}
        /\ UNCHANGED mapped /\ UNCHANGED <<op, obj, work, await, late>>
    BY <1>4 DEF Lock, cluster, locals, orch, mapped, FirstStep, Steps
  <2>2. QED
    BY <1>2, <2>1, HeldMoves
<1>5. CASE Lookup(h)
  <2>1. UNCHANGED mapped /\ UNCHANGED <<op, obj, await, late>>
    BY <1>5 DEF Lookup, cluster, orch, mapped
  <2>2. Produce(obj[h]) \in Steps \ {"ok", "size"}
    BY DEF Produce, Steps
  <2>3. PICK x \in Steps \ {"ok", "size"} :
          /\ Goto(h, x)
          /\ \/ UNCHANGED work
             \/ \E l \in LvolsNamed(obj[h]) : work' = [work EXCEPT ![h] = l]
    BY <1>5, <2>2 DEF Lookup, Steps
  <2>4. /\ \A g \in Handlers \ {h} : work'[g] = work[g]
        /\ work'[h] = work[h] \/ work'[h] \in LvolsNamed(obj[h])
    BY <1>1, <2>3 DEF TypeOK
  <2>5. QED
    BY <1>2, <2>1, <2>3, <2>4, HeldMoves
<1>6. CASE Post(h) \/ Clone(h)
  <2>1. /\ op[h] = "CreateVolume" /\ UNCHANGED <<op, obj, await, co, held>>
    BY <1>1, <1>6 DEF Post, Clone, orch, HandlerInv, HandlerOK
  <2>2. obj[h] \in Names
    BY <1>1, <2>1 DEF HandlerInv, HandlerOK
  <2>3. \/ /\ UNCHANGED mapped /\ UNCHANGED work /\ Goto(h, "err")
           /\ \/ UNCHANGED late
              \/ late' = late \cup {Sent("POST lvol", None)}
              \/ late' = late \cup {Sent("POST clone", src[h])}
        \/ \E l \in Lvols :
             /\ Make(l, obj[h]) /\ UNCHANGED late
             /\ \/ UNCHANGED work /\ Goto(h, "err")
                \/ work' = [work EXCEPT ![h] = l] /\ Goto(h, "publish")
    BY <1>6, <2>1 DEF Post, Clone, Delay, cluster, mapped
  <2>4. CASE /\ UNCHANGED mapped /\ UNCHANGED work /\ Goto(h, "err")
             /\ \/ UNCHANGED late
                \/ late' = late \cup {Sent("POST lvol", None)}
                \/ late' = late \cup {Sent("POST clone", src[h])}
    <3>1. LateOK(Sent("POST lvol", None)) /\ LateOK(Sent("POST clone", src[h]))
      BY <2>2 DEF LateOK
    <3>2. \A r \in late' : r \in late \/ LateOK(r)
      BY <2>4, <3>1
    <3>3. QED
      BY <1>2, <2>1, <2>4, <3>2, HeldMoves DEF Steps
  <2>5. ASSUME NEW l \in Lvols, Make(l, obj[h]), UNCHANGED late,
               \/ UNCHANGED work /\ Goto(h, "err")
               \/ work' = [work EXCEPT ![h] = l] /\ Goto(h, "publish")
        PROVE  HeldInv'
    <3>1. PICK x \in Steps \ {"ok", "size"} : Goto(h, x)
      BY <2>5 DEF Steps
    <3>2. /\ l \in Things
          /\ \A g \in Handlers \ {h} : work'[g] = work[g]
          /\ work'[h] = work[h] \/ work'[h] = l
      BY <1>1, <2>5 DEF Things, TypeOK
    <3>3. QED
      BY <1>2, <2>1, <2>2, <2>5, <3>1, <3>2, HeldBirth
  <2>6. QED
    BY <2>3, <2>4, <2>5
<1>7. CASE Snap(h)
  <2>1. UNCHANGED <<op, obj, await, co, held>>
    BY <1>7 DEF Snap, orch
  <2>2. op[h] = "CreateSnapshot" => obj[h] \notin Names
    BY <1>2 DEF HeldInv, ServesOne
  <2>3. \/ /\ UNCHANGED mapped /\ UNCHANGED work /\ Goto(h, "err")
           /\ UNCHANGED late \/ late' = late \cup {Sent("POST snapshot", src[h])}
        \/ \E s \in Snaps :
             /\ Make(s, obj[h]) /\ UNCHANGED late
             /\ \/ UNCHANGED work /\ (Goto(h, "err") \/ Goto(h, "clone"))
                \/ /\ op[h] = "CreateSnapshot"
                   /\ work' = [work EXCEPT ![h] = s] /\ Goto(h, "size")
    BY <1>7, <2>1 DEF Snap, Delay, cluster, mapped
  <2>4. CASE /\ UNCHANGED mapped /\ UNCHANGED work /\ Goto(h, "err")
             /\ UNCHANGED late \/ late' = late \cup {Sent("POST snapshot", src[h])}
    <3>1. LateOK(Sent("POST snapshot", src[h]))
      BY DEF LateOK
    <3>2. \A r \in late' : r \in late \/ LateOK(r)
      BY <2>4, <3>1
    <3>3. QED
      BY <1>2, <2>1, <2>4, <3>2, HeldMoves DEF Steps
  <2>5. ASSUME NEW s \in Snaps, Make(s, obj[h]), UNCHANGED late,
               \/ UNCHANGED work /\ (Goto(h, "err") \/ Goto(h, "clone"))
               \/ /\ op[h] = "CreateSnapshot"
                  /\ work' = [work EXCEPT ![h] = s] /\ Goto(h, "size")
        PROVE  HeldInv'
    <3>1. s \in Things /\ s \notin Lvols
      BY DEF Things
    <3>2. PICK x \in Steps \ {"ok"} :
            /\ Goto(h, x)
            /\ \/ UNCHANGED work /\ x # "size"
               \/ op[h] = "CreateSnapshot" /\ work' = [work EXCEPT ![h] = s]
      <4>1. CASE UNCHANGED work /\ Goto(h, "err")
        <5>1. "err" \in Steps \ {"ok"} /\ "err" # "size"
          BY DEF Steps
        <5>2. QED
          BY <4>1, <5>1
      <4>2. CASE UNCHANGED work /\ Goto(h, "clone")
        <5>1. "clone" \in Steps \ {"ok"} /\ "clone" # "size"
          BY DEF Steps
        <5>2. QED
          BY <4>2, <5>1
      <4>3. CASE /\ op[h] = "CreateSnapshot"
                 /\ work' = [work EXCEPT ![h] = s] /\ Goto(h, "size")
        BY <4>3 DEF Steps
      <4>4. QED
        BY <2>5, <4>1, <4>2, <4>3
    <3>3. /\ \A g \in Handlers \ {h} : work'[g] = work[g]
          /\ \/ work'[h] = work[h] /\ x # "size"
             \/ work'[h] = s /\ (s \in Lvols <=> obj[h] \in Names)
      BY <1>1, <2>2, <3>1, <3>2 DEF TypeOK
    <3>4. QED
      BY <1>2, <2>1, <2>5, <3>1, <3>2, <3>3, HeldBirth
  <2>6. QED
    BY <2>3, <2>4, <2>5
<1>8. CASE Publish(h) \/ Info(h) \/ Unpublish(h)
  <2>1. UNCHANGED mapped /\ UNCHANGED <<op, obj, work, await, late>>
    BY <1>8 DEF Publish, Info, Unpublish, Read, cluster, locals, orch, mapped
  <2>2. \/ Goto(h, "ok") /\ Live(work[h])
        \/ \E x \in {"info", "undo", "unpublish", "delete", "err"} : Goto(h, x)
    BY <1>8 DEF Publish, Info, Unpublish, Read
  <2>3. PICK x \in Steps \ {"size"} : Goto(h, x) /\ (x = "ok" => Live(work[h]))
    BY <2>2 DEF Steps
  <2>4. QED
    BY <1>2, <2>1, <2>3, HeldMoves DEF Live
<1>9. CASE Size(h)
  <2>1. UNCHANGED mapped /\ UNCHANGED <<op, obj, work, await, late>>
    BY <1>9 DEF Size, Read, cluster, locals, orch, mapped
  <2>2. PICK x \in Steps \ {"size"} : Goto(h, x)
    BY <1>9 DEF Size, Read, Steps
  <2>3. Live(work[h])
    BY <1>2, <1>9 DEF Size, HeldInv, ServesOne
  <2>4. QED
    BY <1>2, <2>1, <2>2, <2>3, HeldMoves DEF Live
<1>10. CASE Undo(h) \/ Delete(h) \/ DeleteSnap(h)
  <2>1. UNCHANGED <<op, obj, work, await, co, held>>
    BY <1>10 DEF Undo, Delete, DeleteSnap, locals, orch
  <2>2. work[h] \in Things /\ work[h] # None
    BY <1>1, <1>10 DEF Undo, Delete, DeleteSnap, HandlerInv, HandlerOK, TypeOK, Things
  <2>3. \/ UNCHANGED mapped /\ UNCHANGED late /\ Goto(h, "err")
        \/ /\ UNCHANGED mapped /\ Goto(h, "err") /\ op[h] = "DeleteSnapshot"
           /\ late' = late \cup {Sent("DELETE snapshot", work[h])}
        \/ /\ Remove(work[h]) /\ UNCHANGED late
           /\ \/ Goto(h, "err")
              \/ Goto(h, "ok") /\ op[h] \in {"DeleteVolume", "DeleteSnapshot"}
    BY <1>1, <1>10, <2>1
    DEF Undo, Delete, DeleteSnap, Delay, cluster, mapped, HandlerInv, HandlerOK
  <2>4. CASE UNCHANGED mapped /\ UNCHANGED late /\ Goto(h, "err")
    BY <1>2, <2>1, <2>4, HeldMoves DEF Steps
  <2>5. CASE /\ UNCHANGED mapped /\ Goto(h, "err") /\ op[h] = "DeleteSnapshot"
             /\ late' = late \cup {Sent("DELETE snapshot", work[h])}
    <3>1. nameOf[work[h]] = obj[h] /\ await[obj[h]] = h
      BY <1>2, <2>2, WorkedOn
    <3>2. co[obj[h]] = "deleting"
      BY <1>1, <1>3, <2>5, <3>1 DEF CallInv
    <3>3. life[work[h]] # "unborn"
      BY <2>2 DEF HeldInv, DeletedInv
    <3>4. LateOK(Sent("DELETE snapshot", work[h]))
      BY <2>2, <3>1, <3>2, <3>3 DEF LateOK
    <3>5. \A r \in late' : r \in late \/ LateOK(r)
      BY <2>5, <3>4
    <3>6. QED
      BY <1>2, <2>1, <2>5, <3>5, HeldMoves DEF Steps
  <2>6. CASE /\ Remove(work[h]) /\ UNCHANGED late
             /\ \/ Goto(h, "err")
                \/ Goto(h, "ok") /\ op[h] \in {"DeleteVolume", "DeleteSnapshot"}
    BY <1>2, <2>1, <2>2, <2>6, HeldDeath
  <2>7. QED
    BY <2>3, <2>4, <2>5, <2>6
<1>11. CASE Return(h)
  BY <1>11, HeldAnswer
<1>12. QED
  BY <1>4, <1>5, <1>6, <1>7, <1>8, <1>9, <1>10, <1>11 DEF Step

\* A request that is carried out late makes something under the name it was sent
\* for, or removes a snapshot that the CO asked to delete.
LEMMA HeldLate ==
  ASSUME HeldInv, DeletedInv', LateArrival
  PROVE  HeldInv'
<1> USE ConstantsAssumption DEF ConstantsAssumption
<1>1. TypeOK /\ CallInv /\ HandlerInv
  BY DEF HeldInv, DeletedInv, LockInv
<1>2. PICK r \in late :
        \/ r.call \in Posts /\ \E t \in MadeBy(r.call) : Make(t, r.obj)
        \/ UNCHANGED <<life, nameOf>>
        \/ r.call \notin Posts /\ Remove(r.id)
  BY DEF LateArrival
<1>3. /\ late' \subseteq late
      /\ UNCHANGED <<pc, op, obj, work, await, co, held>>
  BY DEF LateArrival, locals, orch
<1>4. r \in Requests /\ r.obj \in Objs /\ LateOK(r)
  BY <1>1, <1>2 DEF TypeOK, HeldInv, Requests
<1>5. CASE UNCHANGED <<life, nameOf>>
  <2>1. UNCHANGED mapped /\ \A g \in Handlers : ServesOne(g)'
    BY <1>3, <1>5 DEF mapped, HeldInv, ServesOne, Live
  <2>2. QED
    BY <1>3, <2>1, HeldQuiet
<1>6. ASSUME r.call \in Posts, NEW t \in MadeBy(r.call), Make(t, r.obj) PROVE HeldInv'
  <2>1. t \in Things /\ (t \in Lvols => r.obj \in Names)
    <3>1. CASE r.call = "POST snapshot"
      BY <1>6, <3>1 DEF MadeBy, Things
    <3>2. CASE r.call # "POST snapshot"
      BY <1>4, <1>6, <3>2 DEF MadeBy, Posts, LateOK, Things
    <3>3. QED
      BY <3>1, <3>2
  <2>2. /\ life[t] = "unborn" /\ life'[t] = "live"
        /\ \A u \in Things \ {t} : life'[u] = life[u] /\ nameOf'[u] = nameOf[u]
    BY <1>1, <1>6, <2>1 DEF Make, TypeOK
  <2>3. ASSUME NEW g \in Handlers PROVE ServesOne(g)'
    <3>1. work[g] # None => work[g] \in Things \ {t}
      BY <1>1, <2>2 DEF HeldInv, DeletedInv, TypeOK
    <3>2. QED
      BY <1>3, <2>2, <3>1 DEF HeldInv, ServesOne, Live
  <2>4. QED
    BY <1>3, <1>4, <1>6, <2>1, <2>3, HeldGrows
<1>7. CASE r.call \notin Posts /\ Remove(r.id)
  <2>1. /\ r.id \in Things /\ nameOf[r.id] = r.obj
        /\ co[r.obj] \in {"deleting", "deleted"}
    BY <1>4, <1>7 DEF LateOK, Posts, Requests
  <2>2. /\ UNCHANGED nameOf
        /\ \A u \in Things \ {r.id} : life'[u] = life[u]
    BY <1>1, <1>7, <2>1 DEF Remove, Live, TypeOK
  <2>3. ASSUME NEW g \in Handlers PROVE ServesOne(g)'
    <3>1. CASE pc[g] # "idle" /\ op[g] \in {"CreateVolume", "CreateSnapshot"}
      <4>1. obj[g] \in Objs /\ co[obj[g]] = "creating"
        BY <1>1, <3>1 DEF HeldInv, ServesOne, CallInv, HandlerInv, HandlerOK, TypeOK
      <4>2. work[g] # None => work[g] \in Things \ {r.id}
        BY <1>1, <2>1, <3>1, <4>1 DEF HeldInv, ServesOne, TypeOK
      <4>3. QED
        BY <1>3, <2>2, <4>2 DEF HeldInv, ServesOne, Live
    <3>2. CASE pc[g] = "idle" \/ op[g] \notin {"CreateVolume", "CreateSnapshot"}
      <4>1. pc[g] = "size" => op[g] = "CreateSnapshot"
        BY <1>1 DEF HandlerInv, HandlerOK
      <4>2. QED
        BY <1>3, <2>2, <3>2, <4>1 DEF HeldInv, ServesOne
    <3>3. QED
      BY <3>1, <3>2
  <2>4. QED
    BY <1>3, <1>7, <2>1, <2>3, HeldShrinks
<1>8. QED
  BY <1>2, <1>5, <1>6, <1>7

\* Every step keeps HeldInv.
LEMMA HeldNext ==
  ASSUME "DELETE lvol" \notin MayDelay, MayGiveUp = FALSE, HeldInv, [Next]_vars
  PROVE  HeldInv'
<1>1. DeletedInv'
  BY DeletedInvNext DEF HeldInv
<1>2. CASE Crash
  <2>1. UNCHANGED mapped /\ UNCHANGED late /\ \A g \in Handlers : pc'[g] = "idle"
    BY <1>2 DEF Crash, cluster, mapped
  <2>2. QED
    BY <1>1, <2>1, HeldQuiet DEF ServesOne
<1>3. CASE UNCHANGED vars
  <2>1. UNCHANGED mapped /\ UNCHANGED late /\ \A g \in Handlers : ServesOne(g)'
    BY <1>3 DEF vars, mapped, HeldInv, ServesOne, Live
  <2>2. QED
    BY <1>1, <2>1, HeldQuiet
<1>4. \A o \in Objs : ~GiveUp(o)
  BY DEF GiveUp
<1>5. QED
  BY <1>1, <1>2, <1>3, <1>4, HeldStep, HeldCall, HeldLate DEF Next

\* Before the first call nothing exists and nothing is known.
LEMMA HeldInit == Init => HeldInv
<1> SUFFICES ASSUME Init PROVE HeldInv
  OBVIOUS
<1> USE ConstantsAssumption DEF ConstantsAssumption
<1>1. DeletedInv
  BY DeletedInvInit
<1>2. QED
  BY <1>1 DEF Init, HeldInv, ServesOne, HandedOutKept, Objs

\* Every handler works for a call that is awaited, on what was made under that
\* name, and requests that are carried out late touch nothing that the CO was
\* given.
THEOREM HeldInvariance ==
  ASSUME "DELETE lvol" \notin MayDelay, MayGiveUp = FALSE
  PROVE  Spec => []HeldInv
<1>1. HeldInv /\ [Next]_vars => HeldInv'
  BY HeldNext
<1>2. QED
  BY <1>1, HeldInit, PTL DEF Spec

\* A volume or snapshot that the CO was given stays until the CO asks to delete
\* it: no clean-up of a failed or repeated CreateVolume takes it away, although
\* a lookup that fails makes a second lvol of the name, and posts may come late.
THEOREM HandedOutStays ==
  ASSUME "DELETE lvol" \notin MayDelay, MayGiveUp = FALSE
  PROVE  Spec => []HandedOutKept
<1>1. HeldInv => HandedOutKept
  BY DEF HeldInv
<1>2. QED
  BY <1>1, HeldInvariance, PTL

-----------------------------------------------------------------------------
\* The refinement of Provisioning.

\* A step that touches neither the cluster's volumes nor what the CO knows keeps
\* KeptInv.
LEMMA Quiet ==
  ASSUME KeptInv, NameInv', HeldInv', late' = {}, UNCHANGED mapped
  PROVE  KeptInv' /\ UNCHANGED Promise!vars
<1>1. UNCHANGED <<life, nameOf, co, held>>
  BY DEF mapped
<1>2. KeptInv'
  BY <1>1 DEF KeptInv, NoOrphan, LvolsNamed
<1>3. UNCHANGED Promise!vars
  BY <1>1 DEF Promise!vars, MadeFor
<1>4. QED
  BY <1>2, <1>3

\* What a CreateVolume or CreateSnapshot handler makes is for its own object.
LEMMA Births ==
  ASSUME KeptInv, NameInv', HeldInv', late' = {}, NEW h \in Handlers, pc[h] # "idle",
         UNCHANGED <<co, held>>,
         NEW t \in Things, Make(t, obj[h]), op[h] \in {"CreateVolume", "CreateSnapshot"},
         t \in Lvols => op[h] = "CreateVolume" /\ LvolsNamed(obj[h]) = {}
  PROVE  KeptInv' /\ Promise!Grow(obj[h], t)
<1> USE ConstantsAssumption DEF ConstantsAssumption
<1> DEFINE o == obj[h]
<1>1. TypeOK /\ CallInv /\ HandlerInv
  BY DEF KeptInv, NameInv, LockInv
<1>2. o \in Objs /\ (op[h] = "CreateVolume" => o \in Names)
  BY <1>1 DEF TypeOK, HandlerInv, HandlerOK
<1>3. co[o] = "creating"
  BY <1>1, <1>2 DEF KeptInv, HeldInv, ServesOne, CallInv
<1>4. /\ life[t] = "unborn" /\ life'[t] = "live" /\ nameOf'[t] = o
      /\ \A u \in Things \ {t} : life'[u] = life[u] /\ nameOf'[u] = nameOf[u]
  BY <1>1 DEF Make, TypeOK
<1>5. \A n \in Names : n # o => LvolsNamed(n)' = LvolsNamed(n)
  BY <1>4 DEF LvolsNamed, Things
<1>6. KeptInv'
  BY <1>3, <1>5 DEF KeptInv, NoOrphan
<1>7. Promise!Grow(o, t)
  <2>1. \A p \in Objs : MadeFor(p)' = IF p = o THEN MadeFor(p) \cup {t} ELSE MadeFor(p)
    BY <1>4 DEF MadeFor
  <2>2. [p \in Objs |-> MadeFor(p)]' =
          [[p \in Objs |-> MadeFor(p)] EXCEPT ![o] = MadeFor(o) \cup {t}]
    BY <1>2, <2>1
  <2>3. {u \in Things : life[u] # "unborn"}' = {u \in Things : life[u] # "unborn"} \cup {t}
    BY <1>4
  <2>4. t \in Lvols => o \in Names /\ MadeFor(o) \cap Lvols = {}
    BY <1>2 DEF MadeFor, LvolsNamed
  <2>5. QED
    BY <1>2, <1>3, <1>4, <2>2, <2>3, <2>4 DEF Promise!Grow
<1>8. QED
  BY <1>6, <1>7

\* What a clean-up or a delete call removes was made for its own object, and the
\* CO does not count on it.
LEMMA Deaths ==
  ASSUME KeptInv, NameInv', HeldInv', late' = {}, NEW h \in Handlers, pc[h] # "idle",
         UNCHANGED <<co, held>>, work[h] # None, Remove(work[h])
  PROVE  KeptInv' /\ (Promise!Shrink(obj[h], work[h]) \/ UNCHANGED Promise!vars)
<1> USE ConstantsAssumption DEF ConstantsAssumption
<1> DEFINE o == obj[h]
           t == work[h]
<1>1. TypeOK
  BY DEF KeptInv, NameInv, LockInv
<1>2. o \in Objs /\ t \in Things /\ nameOf[t] = o /\ co[o] # "bound"
  BY WorkedOn DEF KeptInv
<1>3. /\ UNCHANGED nameOf
      /\ \A u \in Things \ {t} : life'[u] = life[u]
      /\ \A u \in Things : life'[u] = "live" => life[u] = "live"
      /\ \A u \in Things : life'[u] = "unborn" <=> life[u] = "unborn"
  BY <1>1, <1>2 DEF Remove, Live, TypeOK
<1>4. \A n \in Names : LvolsNamed(n)' \subseteq LvolsNamed(n)
  BY <1>3 DEF LvolsNamed, Things
<1>5. KeptInv'
  BY <1>4 DEF KeptInv, NoOrphan
<1>6. {u \in Things : life[u] # "unborn"}' = {u \in Things : life[u] # "unborn"}
  BY <1>3
<1>7. CASE Live(t)
  <2>1. life'[t] = "gone" /\ life[t] = "live"
    BY <1>1, <1>2, <1>7 DEF Remove, Live, TypeOK
  <2>2. \A p \in Objs : MadeFor(p)' = IF p = o THEN MadeFor(p) \ {t} ELSE MadeFor(p)
    BY <1>2, <1>3, <2>1 DEF MadeFor
  <2>3. [p \in Objs |-> MadeFor(p)]' = [[p \in Objs |-> MadeFor(p)] EXCEPT ![o] = MadeFor(o) \ {t}]
    BY <1>2, <2>2
  <2>4. t \in MadeFor(o)
    BY <1>2, <2>1 DEF MadeFor
  <2>5. Promise!Shrink(o, t)
    BY <1>2, <1>6, <2>3, <2>4 DEF Promise!Shrink
  <2>6. QED
    BY <1>5, <2>5
<1>8. CASE ~Live(t)
  <2>1. UNCHANGED <<life, nameOf, co, held>>
    BY <1>8 DEF Remove
  <2>2. UNCHANGED Promise!vars
    BY <2>1 DEF Promise!vars, MadeFor
  <2>3. QED
    BY <1>5, <2>2
<1>9. QED
  BY <1>7, <1>8

\* The CO is answered: it gets what exists under the name it asked for, or is
\* told that nothing is left of it.
LEMMA Answers ==
  ASSUME KeptInv, NameInv', HeldInv', late' = {}, NEW h \in Handlers, Return(h)
  PROVE  /\ KeptInv'
         /\ \/ \E t \in Things : Promise!Give(obj[h], t)
            \/ Promise!Confirm(obj[h])
            \/ UNCHANGED Promise!vars
<1> USE ConstantsAssumption DEF ConstantsAssumption
<1> DEFINE o == obj[h]
           w == work[h]
<1>1. TypeOK /\ CallInv /\ HandlerInv /\ HeldKnown
  BY DEF KeptInv, NameInv, LockInv
<1>2. /\ pc[h] \in {"ok", "err"} /\ Answer(h) /\ Goto(h, "idle") /\ Forget(h)
      /\ UNCHANGED <<life, nameOf>>
  BY DEF Return, cluster
<1>3. /\ o \in Objs /\ op[h] \in RPCs /\ await[o] = h
      /\ pc[h] = "ok" => w \in Things
  BY <1>1, <1>2 DEF TypeOK, HandlerInv, HandlerOK, KeptInv, HeldInv, ServesOne
<1>4. /\ \A n \in Names : LvolsNamed(n)' = LvolsNamed(n)
      /\ \A p \in Objs : MadeFor(p)' = MadeFor(p)
      /\ [p \in Objs |-> MadeFor(p)]' = [p \in Objs |-> MadeFor(p)]
      /\ {u \in Things : life[u] # "unborn"}' = {u \in Things : life[u] # "unborn"}
  BY <1>2 DEF LvolsNamed, MadeFor
<1>5. CASE pc[h] = "err"
  BY <1>2, <1>3, <1>5, Quiet DEF Answer, mapped
<1>6. CASE pc[h] = "ok" /\ op[h] \in {"CreateVolume", "CreateSnapshot"}
  <2>1. /\ co' = [co EXCEPT ![o] = "bound"]
        /\ held' = [held EXCEPT ![o] = w]
    BY <1>2, <1>3, <1>6 DEF Answer
  <2>2. /\ Live(w) /\ nameOf[w] = o /\ (w \in Lvols <=> o \in Names)
        /\ co[o] = "creating"
    BY <1>1, <1>3, <1>6 DEF KeptInv, HeldInv, ServesOne, CallInv
  <2>3. o \in Names => LvolsNamed(o) \subseteq {w}
    BY <1>3, <2>2 DEF KeptInv, NameInv, OneLvolPerName, LvolsNamed, Live
  <2>4. /\ co'[o] = "bound" /\ held'[o] = w
        /\ \A p \in Objs \ {o} : co'[p] = co[p] /\ held'[p] = held[p]
    BY <1>1, <1>3, <2>1 DEF TypeOK
  <2>5. KeptInv'
    BY <1>3, <1>4, <2>3, <2>4 DEF KeptInv, NoOrphan, Objs
  <2>6. w \in MadeFor(o)
    BY <1>3, <1>6, <2>2 DEF MadeFor, Live
  <2>7. Promise!Give(o, w)
    BY <1>3, <1>4, <2>1, <2>2, <2>6 DEF Promise!Give
  <2>8. QED
    BY <1>3, <1>6, <2>5, <2>7
<1>7. CASE pc[h] = "ok" /\ op[h] \in {"DeleteVolume", "DeleteSnapshot"}
  <2>1. co' = [co EXCEPT ![o] = "deleted"] /\ UNCHANGED held
    BY <1>2, <1>3, <1>7 DEF Answer
  <2>2. w = held[o] /\ co[o] = "deleting" /\ life[w] = "gone"
    BY <1>1, <1>3, <1>7 DEF KeptInv, HeldInv, DeletedInv, CallInv
  <2>3. o \in Names => LvolsNamed(o) = {}
    BY <2>2 DEF KeptInv, LvolsNamed
  <2>4. co'[o] = "deleted" /\ \A p \in Objs \ {o} : co'[p] = co[p]
    BY <1>1, <1>3, <2>1 DEF TypeOK
  <2>5. KeptInv'
    BY <1>3, <1>4, <2>1, <2>3, <2>4 DEF KeptInv, NoOrphan, Objs
  <2>6. w \notin MadeFor(o) /\ MadeFor(o) \cap Lvols = {}
    BY <2>2, <2>3 DEF MadeFor, LvolsNamed, KeptInv, HeldInv
  <2>7. Promise!Confirm(o)
    BY <1>3, <1>4, <2>1, <2>2, <2>6 DEF Promise!Confirm
  <2>8. QED
    BY <2>5, <2>7
<1>8. QED
  BY <1>2, <1>3, <1>5, <1>6, <1>7 DEF RPCs

\* A call of the CO begins, for an object that no handler serves.
LEMMA Calls ==
  ASSUME KeptInv, NameInv', HeldInv', late' = {}, NEW h \in Handlers, NEW o \in Objs,
         CallCreate(h, o) \/ CallDelete(h, o)
  PROVE  /\ KeptInv'
         /\ Promise!Ask(o) \/ Promise!AskDelete(o) \/ UNCHANGED Promise!vars
<1> USE ConstantsAssumption DEF ConstantsAssumption
<1>1. TypeOK
  BY DEF KeptInv, NameInv, LockInv
<1>2. UNCHANGED <<life, nameOf, held>>
  BY DEF CallCreate, CallDelete, cluster
<1>3. /\ \A n \in Names : LvolsNamed(n)' = LvolsNamed(n)
      /\ [p \in Objs |-> MadeFor(p)]' = [p \in Objs |-> MadeFor(p)]
      /\ {u \in Things : life[u] # "unborn"}' = {u \in Things : life[u] # "unborn"}
  BY <1>2 DEF LvolsNamed, MadeFor
<1>4. \/ /\ co[o] \in {"absent", "creating"}
         /\ co' = [co EXCEPT ![o] = "creating"]
      \/ /\ co[o] \in {"bound", "deleting"}
         /\ co' = [co EXCEPT ![o] = "deleting"]
  BY DEF CallCreate, CallDelete
<1>5. /\ \A p \in Objs \ {o} : co'[p] = co[p]
      /\ \/ co[o] \in {"absent", "creating"} /\ co'[o] = "creating"
         \/ co[o] \in {"bound", "deleting"} /\ co'[o] = "deleting"
  BY <1>1, <1>4 DEF TypeOK
<1>6. KeptInv'
  BY <1>2, <1>3, <1>5 DEF KeptInv, NoOrphan, Objs
<1>7. CASE co[o] = "absent"
  BY <1>2, <1>3, <1>4, <1>6, <1>7 DEF Promise!Ask
<1>8. CASE co[o] = "bound"
  BY <1>2, <1>3, <1>4, <1>6, <1>8 DEF Promise!AskDelete
<1>9. CASE co[o] \in {"creating", "deleting"}
  <2>1. co' = co
    BY <1>1, <1>4, <1>9 DEF TypeOK
  <2>2. QED
    BY <1>2, <1>3, <1>6, <2>1 DEF Promise!vars
<1>10. QED
  BY <1>4, <1>7, <1>8, <1>9

-----------------------------------------------------------------------------

\* A step of a handler keeps KeptInv and is a step of Provisioning, or none.
LEMMA KeptStep ==
  ASSUME MayDelay = {}, KeptInv, NameInv', HeldInv', late' = {},
         NEW h \in Handlers, Lock(h) \/ Step(h)
  PROVE  KeptInv' /\ [Promise!Next]_(Promise!vars)
<1> USE ConstantsAssumption DEF ConstantsAssumption
<1>1. TypeOK /\ HandlerInv
  BY DEF KeptInv, NameInv, LockInv
<1>2. \A call, id : ~Delay(h, call, id)
  BY DEF Delay
<1>3. pc[h] # "idle"
  BY DEF Lock, Step, Lookup, Post, Snap, Clone, Publish, Info, Undo, Unpublish, Delete,
         Size, DeleteSnap, Return
<1>4. obj[h] \in Promise!Objs
  BY <1>1, <1>3 DEF HandlerInv, HandlerOK, TypeOK, Promise!Objs, Objs
<1>5. CASE UNCHANGED mapped
  BY <1>5, Quiet
<1>6. CASE Lock(h) \/ Lookup(h) \/ Publish(h) \/ Info(h) \/ Unpublish(h) \/ Size(h)
  <2>1. UNCHANGED mapped
    BY <1>6 DEF Lock, Lookup, Publish, Info, Unpublish, Size, Read, cluster, orch, mapped
  <2>2. QED
    BY <1>5, <2>1
<1>7. CASE Post(h) \/ Clone(h) \/ Snap(h)
  <2>1. /\ op[h] \in {"CreateVolume", "CreateSnapshot"} /\ UNCHANGED <<co, held>>
        /\ pc[h] \in {"post", "clone", "snap"}
    BY <1>1, <1>7 DEF Post, Clone, Snap, orch, HandlerInv, HandlerOK
  <2>2. op[h] = "CreateVolume" => LvolsNamed(obj[h]) = {}
    BY <2>1 DEF KeptInv, NameInv
  <2>3. ~Snap(h) => op[h] = "CreateVolume"
    BY <1>1, <1>7 DEF Post, Clone, HandlerInv, HandlerOK
  <2>4. \/ UNCHANGED <<life, nameOf>>
        \/ \E t \in Things : Make(t, obj[h]) /\ (t \in Lvols => ~Snap(h))
    BY <1>2, <1>7 DEF Post, Clone, Snap, cluster, Things
  <2>5. CASE UNCHANGED <<life, nameOf>>
    BY <1>5, <2>1, <2>5 DEF mapped
  <2>6. ASSUME NEW t \in Things, Make(t, obj[h]), t \in Lvols => ~Snap(h)
        PROVE  KeptInv' /\ Promise!Next
    <3>1. KeptInv' /\ Promise!Grow(obj[h], t)
      BY <1>3, <2>1, <2>2, <2>3, <2>6, Births
    <3>2. QED
      BY <1>4, <3>1 DEF Promise!Next, Promise!Things, Things
  <2>7. QED
    BY <2>4, <2>5, <2>6
<1>8. CASE Undo(h) \/ Delete(h) \/ DeleteSnap(h)
  <2>1. UNCHANGED <<co, held>>
    BY <1>8 DEF Undo, Delete, DeleteSnap, orch
  <2>2. work[h] \in Promise!Things /\ work[h] # None
    BY <1>1, <1>8 DEF Undo, Delete, DeleteSnap, HandlerInv, HandlerOK, TypeOK, Things,
                      Promise!Things
  <2>3. UNCHANGED mapped \/ Remove(work[h])
    BY <1>2, <1>8, <2>1 DEF Undo, Delete, DeleteSnap, cluster, mapped
  <2>4. CASE Remove(work[h])
    <3>1. KeptInv' /\ (Promise!Shrink(obj[h], work[h]) \/ UNCHANGED Promise!vars)
      BY <1>3, <2>1, <2>2, <2>4, Deaths
    <3>2. QED
      BY <1>4, <2>2, <3>1 DEF Promise!Next
  <2>5. QED
    BY <1>5, <2>3, <2>4
<1>9. CASE Return(h)
  BY <1>4, <1>9, Answers DEF Promise!Next, Promise!Things, Things
<1>10. QED
  BY <1>6, <1>7, <1>8, <1>9 DEF Step

\* Without delays no request is ever carried out late.
LEMMA NoneLate ==
  ASSUME MayDelay = {}, late = {}, [Next]_vars PROVE late' = {}
<1>1. \A h, call, id : ~Delay(h, call, id)
  BY DEF Delay
<1>2. ASSUME NEW h \in Handlers, Step(h) PROVE late' = {}
  BY <1>1, <1>2
  DEF Step, Lookup, Post, Snap, Clone, Publish, Info, Undo, Unpublish, Delete, Size,
      DeleteSnap, Return, Read, cluster
<1>3. QED
  BY <1>2
  DEF Next, Lock, CallCreate, CallDelete, GiveUp, LateArrival, Crash, cluster, vars

\* Every step keeps KeptInv and is a step of Provisioning, or none.
LEMMA KeptNext ==
  ASSUME "GET name" \notin MayFail, MayDelay = {}, MayGiveUp = FALSE,
         KeptInv, [Next]_vars
  PROVE  KeptInv' /\ [Promise!Next]_(Promise!vars)
<1>1. NameInv' /\ HeldInv' /\ late' = {}
  BY NameInvNext, HeldNext, NoneLate DEF KeptInv
<1>2. ASSUME NEW h \in Handlers, NEW o \in Objs, CallCreate(h, o) \/ CallDelete(h, o)
      PROVE  KeptInv' /\ [Promise!Next]_(Promise!vars)
  BY <1>1, <1>2, Calls DEF Promise!Next, Promise!Objs, Objs
<1>3. CASE Crash
  BY <1>1, <1>3, Quiet DEF Crash, cluster, mapped
<1>4. CASE UNCHANGED vars
  BY <1>1, <1>4, Quiet DEF vars, mapped
<1>5. ~LateArrival /\ \A o \in Objs : ~GiveUp(o)
  BY DEF LateArrival, GiveUp, KeptInv, NameInv
<1>6. QED
  BY <1>1, <1>2, <1>3, <1>4, <1>5, KeptStep DEF Next

\* Before the first call nothing exists and nothing is known.
LEMMA KeptInit == Init => KeptInv /\ Promise!Init
<1> SUFFICES ASSUME Init PROVE KeptInv /\ Promise!Init
  OBVIOUS
<1> USE ConstantsAssumption DEF ConstantsAssumption
<1>1. NameInv /\ HeldInv
  BY NameInvInit, HeldInit
<1>2. \A n \in Names : LvolsNamed(n) = {}
  BY DEF Init, LvolsNamed, Things
<1>3. KeptInv
  BY <1>1, <1>2 DEF Init, KeptInv, NoOrphan, Objs
<1>4. [o \in Objs |-> MadeFor(o)] = [o \in Objs |-> {}]
  BY DEF Init, MadeFor
<1>5. QED
  BY <1>3, <1>4 DEF Init, Promise!Init, Promise!Objs, Objs

\* The inductive invariant, for every number of handlers, names, sources, faults
\* and crashes.
THEOREM KeptInvariance ==
  ASSUME "GET name" \notin MayFail, MayDelay = {}, MayGiveUp = FALSE
  PROVE  Spec => []KeptInv
<1>1. KeptInv /\ [Next]_vars => KeptInv'
  BY KeptNext
<1>2. QED
  BY <1>1, KeptInit, PTL DEF Spec

\* A name that was reported as deleted has no lvol left, whatever answers were
\* lost and whatever the retries of its CreateVolume made before.
THEOREM NothingOrphaned ==
  ASSUME "GET name" \notin MayFail, MayDelay = {}, MayGiveUp = FALSE
  PROVE  Spec => []NoOrphan
<1>1. KeptInv => NoOrphan
  BY DEF KeptInv
<1>2. QED
  BY <1>1, KeptInvariance, PTL

\* The controller service implements Provisioning.
THEOREM Refinement ==
  ASSUME "GET name" \notin MayFail, MayDelay = {}, MayGiveUp = FALSE
  PROVE  Spec => ImplementsProvisioning
<1>1. Init => Promise!Init
  BY KeptInit
<1>2. KeptInv /\ [Next]_vars => [Promise!Next]_(Promise!vars)
  BY KeptNext
<1>3. QED
  BY <1>1, <1>2, KeptInvariance, PTL DEF Spec, ImplementsProvisioning, Promise!Spec
=============================================================================
