---------------------------- MODULE VolumeLocks ----------------------------
(***************************************************************************)
(* pkg/util/idlocker.go: locks that are acquired by volume id.  A sync.Map *)
(* holds one *sync.Mutex per id ever locked; entries are never removed.    *)
(*                                                                         *)
(* Lock(id) is two steps with a window between them: LoadOrStore picks the *)
(* mutex that the map holds for id (storing a freshly allocated one when   *)
(* there is none), and only then the handler waits on that mutex.          *)
(***************************************************************************)

CONSTANTS
  Handlers,  \* gRPC handler goroutines
  Keys,      \* the ids that handlers lock
  Mutexes,   \* addresses of sync.Mutex objects
  None       \* no handler, no key, no mutex

ASSUME NoneAssumption ==
  None \notin Handlers /\ None \notin Keys /\ None \notin Mutexes

VARIABLES
  mutexes,   \* mutexes[k]: the mutex stored in the sync.Map for k, or None
  locked,    \* locked[m]: mutex m is locked
  pc,        \* where a handler is in Lock ... unlock
  key,       \* the argument of Lock
  mtx        \* the local variable mtx of Lock, captured by the unlock closure

vars == <<mutexes, locked, pc, key, mtx>>

TypeOK ==
  /\ mutexes \in [Keys -> Mutexes \cup {None}]
  /\ locked \in [Mutexes -> BOOLEAN]
  /\ pc \in [Handlers -> {"idle", "lookup", "wait", "held"}]
  /\ key \in [Handlers -> Keys \cup {None}]
  /\ mtx \in [Handlers -> Mutexes \cup {None}]

Init ==
  /\ mutexes = [k \in Keys |-> None]
  /\ locked = [m \in Mutexes |-> FALSE]
  /\ pc = [h \in Handlers |-> "idle"]
  /\ key = [h \in Handlers |-> None]
  /\ mtx = [h \in Handlers |-> None]

-----------------------------------------------------------------------------

\* A handler calls Lock(k).
Call(h) ==
  /\ pc[h] = "idle"
  /\ \E k \in Keys : key' = [key EXCEPT ![h] = k]
  /\ pc' = [pc EXCEPT ![h] = "lookup"]
  /\ UNCHANGED <<mutexes, locked, mtx>>

\* &sync.Mutex{} is an object nobody refers to yet.
Fresh(m) ==
  /\ \A k \in Keys : mutexes[k] # m
  /\ \A h \in Handlers : mtx[h] # m

\* Mutant: Load and Store as two calls, the second one overwriting.
LoadThenStore(h) ==
  /\ pc[h] = "lookup"
  /\ \E m \in Mutexes :
       /\ Fresh(m)
       /\ mutexes' = [mutexes EXCEPT ![key[h]] = m]
       /\ mtx' = [mtx EXCEPT ![h] = m]
  /\ pc' = [pc EXCEPT ![h] = "wait"]
  /\ UNCHANGED <<locked, key>>

\* value, _ := vl.mutexes.LoadOrStore(volumeID, &sync.Mutex{}), atomic.
LoadOrStore(h) ==
  /\ pc[h] = "lookup"
  /\ \/ /\ mutexes[key[h]] # None
        /\ mtx' = [mtx EXCEPT ![h] = mutexes[key[h]]]
        /\ UNCHANGED mutexes
     \/ /\ mutexes[key[h]] = None
        /\ \E m \in Mutexes :
             /\ Fresh(m)
             /\ mutexes' = [mutexes EXCEPT ![key[h]] = m]
             /\ mtx' = [mtx EXCEPT ![h] = m]
  /\ pc' = [pc EXCEPT ![h] = "wait"]
  /\ UNCHANGED <<locked, key>>

\* Mutant: TryLock with its result ignored.
LockWithoutWaiting(h) ==
  /\ pc[h] = "wait"
  /\ locked' = [locked EXCEPT ![mtx[h]] = TRUE]
  /\ pc' = [pc EXCEPT ![h] = "held"]
  /\ UNCHANGED <<mutexes, key, mtx>>

\* mtx.Lock() returns.
LockMutex(h) ==
  /\ pc[h] = "wait"
  /\ ~locked[mtx[h]]
  /\ locked' = [locked EXCEPT ![mtx[h]] = TRUE]
  /\ pc' = [pc EXCEPT ![h] = "held"]
  /\ UNCHANGED <<mutexes, key, mtx>>

\* Mutant: a handler that returns without running the closure.
ReturnWithoutUnlock(h) ==
  /\ pc[h] = "held"
  /\ pc' = [pc EXCEPT ![h] = "idle"]
  /\ key' = [key EXCEPT ![h] = None]
  /\ mtx' = [mtx EXCEPT ![h] = None]
  /\ UNCHANGED <<mutexes, locked>>

\* The closure that Lock returned: func() { mtx.Unlock() }.
Unlock(h) ==
  /\ pc[h] = "held"
  /\ locked' = [locked EXCEPT ![mtx[h]] = FALSE]
  /\ pc' = [pc EXCEPT ![h] = "idle"]
  /\ key' = [key EXCEPT ![h] = None]
  /\ mtx' = [mtx EXCEPT ![h] = None]
  /\ UNCHANGED mutexes

Next ==
  \E h \in Handlers : Call(h) \/ LoadOrStore(h) \/ LockMutex(h) \/ Unlock(h)

Spec == Init /\ [][Next]_vars

(***************************************************************************)
(* LoadOrStore never blocks and every handler defers its unlock (weak      *)
(* fairness).  A goroutine that waits on a Go mutex for more than 1ms puts *)
(* it into starvation mode and is handed the mutex: strong fairness.       *)
(***************************************************************************)
Fairness ==
  \A h \in Handlers :
    /\ WF_vars(LoadOrStore(h))
    /\ SF_vars(LockMutex(h))
    /\ WF_vars(Unlock(h))

FairSpec == Spec /\ Fairness

-----------------------------------------------------------------------------

\* Two handlers that are past Lock(k) and not yet past its unlock lock
\* different ids, however their LoadOrStore calls interleaved.
MutualExclusion ==
  \A g, h \in Handlers :
    g # h /\ pc[g] = "held" /\ pc[h] = "held" => key[g] # key[h]

\* The inductive strengthening of MutualExclusion: the map is injective, a
\* handler past LoadOrStore refers to the mutex that the map holds for its
\* key, and a mutex is locked exactly while one handler holds it.
LockInv ==
  /\ TypeOK
  /\ \A j, k \in Keys : mutexes[j] # None /\ mutexes[j] = mutexes[k] => j = k
  /\ \A h \in Handlers : pc[h] = "idle" <=> key[h] = None
  /\ \A h \in Handlers :
       pc[h] \in {"wait", "held"} => mtx[h] # None /\ mtx[h] = mutexes[key[h]]
  /\ \A h \in Handlers : pc[h] = "held" => locked[mtx[h]]
  /\ \A g, h \in Handlers :
       g # h /\ pc[g] = "held" /\ pc[h] = "held" => mtx[g] # mtx[h]
  /\ \A m \in Mutexes :
       locked[m] => \E h \in Handlers : pc[h] = "held" /\ mtx[h] = m

\* A handler that calls Lock(k) eventually gets k and gives it back.
LockServed == \A h \in Handlers : pc[h] = "lookup" ~> pc[h] = "idle"

-----------------------------------------------------------------------------

\* The refinement mapping: the mutex that the map holds for k is the
\* abstract lock of k.
OwnerOf(k) ==
  IF \E h \in Handlers : pc[h] = "held" /\ key[h] = k
    THEN CHOOSE h \in Handlers : pc[h] = "held" /\ key[h] = k
    ELSE None

Abstract == INSTANCE KeyedMutex WITH
  owner  <- [k \in Keys |-> OwnerOf(k)],
  wanted <- key

\* VolumeLocks implements the abstract keyed mutex.
ImplementsKeyedMutex == Abstract!Spec
=============================================================================
