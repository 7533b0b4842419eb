------------------------- MODULE VolumeLocksProofs -------------------------
(***************************************************************************)
(* Proofs about VolumeLocks for every set of handlers, keys and mutexes.   *)
(* LockInv is inductive; mutual exclusion and the refinement of KeyedMutex *)
(* follow from it.                                                         *)
(***************************************************************************)
EXTENDS VolumeLocks, TLAPS

\* The inductive invariant of idlocker.go holds initially.
LEMMA LockInvInit == Init => LockInv
  BY NoneAssumption DEF Init, LockInv, TypeOK

\* Every step of Lock and of the unlock closure preserves LockInv.
LEMMA LockInvNext == LockInv /\ [Next]_vars => LockInv'
<1> SUFFICES ASSUME LockInv, [Next]_vars PROVE LockInv'
  OBVIOUS
<1> USE NoneAssumption
<1>1. ASSUME NEW h \in Handlers, Call(h) PROVE LockInv'
  BY <1>1 DEF LockInv, TypeOK, Call
<1>2. ASSUME NEW h \in Handlers, LoadOrStore(h) PROVE LockInv'
  <2>1. key[h] \in Keys
    BY <1>2 DEF LockInv, TypeOK, LoadOrStore
  <2>2. CASE mutexes[key[h]] # None
    BY <1>2, <2>1, <2>2 DEF LockInv, TypeOK, LoadOrStore
  <2>3. CASE mutexes[key[h]] = None
    <3>1. PICK m \in Mutexes :
            /\ Fresh(m)
            /\ mutexes' = [mutexes EXCEPT ![key[h]] = m]
            /\ mtx' = [mtx EXCEPT ![h] = m]
      BY <1>2, <2>3 DEF LoadOrStore
    <3>2. QED
      BY <1>2, <2>1, <2>3, <3>1 DEF LockInv, TypeOK, LoadOrStore, Fresh
  <2>4. QED
    BY <2>2, <2>3
<1>3. ASSUME NEW h \in Handlers, LockMutex(h) PROVE LockInv'
  BY <1>3 DEF LockInv, TypeOK, LockMutex
<1>4. ASSUME NEW h \in Handlers, Unlock(h) PROVE LockInv'
  BY <1>4 DEF LockInv, TypeOK, Unlock
<1>5. CASE UNCHANGED vars
  BY <1>5 DEF LockInv, TypeOK, vars
<1>6. QED
  BY <1>1, <1>2, <1>3, <1>4, <1>5 DEF Next

\* The inductive invariant of VolumeLocks always holds: one mutex per id,
\* and every handler waits on the mutex that the sync.Map holds for its id.
THEOREM LockInvariance == Spec => []LockInv
<1>1. QED
  BY LockInvInit, LockInvNext, PTL DEF Spec

\* No two handlers are between Lock(id) and its unlock for the same id.
THEOREM LockMutualExclusion == Spec => []MutualExclusion
<1>1. LockInv => MutualExclusion
  BY DEF LockInv, MutualExclusion
<1>2. QED
  BY <1>1, LockInvariance, PTL

-----------------------------------------------------------------------------

\* Under LockInv the abstract owner of a key is the handler that holds it.
LEMMA OwnerIsHolder ==
  ASSUME LockInv, NEW h \in Handlers, pc[h] = "held"
  PROVE  OwnerOf(key[h]) = h
BY DEF LockInv, OwnerOf

\* Under LockInv a key has no abstract owner exactly when nobody holds it.
LEMMA OwnerIsNone ==
  ASSUME LockInv, NEW k \in Keys
  PROVE  OwnerOf(k) = None <=> \A h \in Handlers : ~(pc[h] = "held" /\ key[h] = k)
BY NoneAssumption DEF OwnerOf

\* Every step of Lock and unlock is a step of the abstract mutex or changes
\* nothing of it.
LEMMA StepRefines ==
  ASSUME LockInv, LockInv', [Next]_vars
  PROVE  [Abstract!Next]_(Abstract!vars)
<1> USE NoneAssumption
<1> DEFINE own == [k \in Keys |-> OwnerOf(k)]
<1>1. ASSUME NEW h \in Handlers, Call(h) PROVE Abstract!Ask(h)
  <2>1. key[h] = None /\ \E k \in Keys : key' = [key EXCEPT ![h] = k]
    BY <1>1 DEF Call, LockInv
  <2>2. ASSUME NEW k \in Keys PROVE OwnerOf(k)' = OwnerOf(k)
    <3>1. \A g \in Handlers :
            (pc'[g] = "held" /\ key'[g] = k) <=> (pc[g] = "held" /\ key[g] = k)
      BY <1>1 DEF Call, LockInv, TypeOK
    <3>2. QED
      BY <3>1 DEF OwnerOf
  <2>3. own' = own
    BY <2>2
  <2>4. QED
    BY <2>1, <2>3 DEF Abstract!Ask
<1>2. ASSUME NEW h \in Handlers, LoadOrStore(h) PROVE UNCHANGED <<own, key>>
  <2>1. ASSUME NEW k \in Keys PROVE OwnerOf(k)' = OwnerOf(k)
    <3>1. \A g \in Handlers :
            (pc'[g] = "held" /\ key'[g] = k) <=> (pc[g] = "held" /\ key[g] = k)
      BY <1>2 DEF LoadOrStore, LockInv, TypeOK
    <3>2. QED
      BY <3>1 DEF OwnerOf
  <2>2. QED
    BY <1>2, <2>1 DEF LoadOrStore
<1>3. ASSUME NEW h \in Handlers, LockMutex(h) PROVE Abstract!Acquire(h)
  <2>1. key[h] \in Keys /\ key[h] # None /\ UNCHANGED key
    BY <1>3 DEF LockMutex, LockInv, TypeOK
  <2>2. \A g \in Handlers : ~(pc[g] = "held" /\ key[g] = key[h])
    BY <1>3, <2>1 DEF LockMutex, LockInv
  <2>3. own[key[h]] = None
    BY <2>1, <2>2, OwnerIsNone
  <2>4. pc' = [pc EXCEPT ![h] = "held"]
    BY <1>3 DEF LockMutex
  <2>5. ASSUME NEW k \in Keys
        PROVE  OwnerOf(k)' = IF k = key[h] THEN h ELSE OwnerOf(k)
    <3>1. CASE k = key[h]
      <4>1. \A g \in Handlers : (pc'[g] = "held" /\ key'[g] = k) <=> g = h
        BY <2>1, <2>2, <2>4, <3>1 DEF LockInv, TypeOK
      <4>2. QED
        BY <3>1, <4>1 DEF OwnerOf
    <3>2. CASE k # key[h]
      <4>1. \A g \in Handlers :
              (pc'[g] = "held" /\ key'[g] = k) <=> (pc[g] = "held" /\ key[g] = k)
        BY <2>1, <2>4, <3>2 DEF LockInv, TypeOK
      <4>2. QED
        BY <3>2, <4>1 DEF OwnerOf
    <3>3. QED
      BY <3>1, <3>2
  <2>6. own' = [own EXCEPT ![key[h]] = h]
    BY <2>1, <2>5
  <2>7. QED
    BY <2>1, <2>3, <2>6 DEF Abstract!Acquire
<1>4. ASSUME NEW h \in Handlers, Unlock(h) PROVE Abstract!Release(h)
  <2>1. /\ key[h] \in Keys /\ key[h] # None /\ pc[h] = "held"
        /\ key' = [key EXCEPT ![h] = None] /\ pc' = [pc EXCEPT ![h] = "idle"]
    BY <1>4 DEF Unlock, LockInv, TypeOK
  <2>2. own[key[h]] = h
    BY <2>1, OwnerIsHolder
  <2>3. \A g \in Handlers : pc[g] = "held" /\ key[g] = key[h] => g = h
    BY <2>1 DEF LockInv
  <2>4. ASSUME NEW k \in Keys
        PROVE  OwnerOf(k)' = IF k = key[h] THEN None ELSE OwnerOf(k)
    <3>1. CASE k = key[h]
      <4>1. \A g \in Handlers : ~(pc'[g] = "held" /\ key'[g] = k)
        BY <2>1, <2>3, <3>1 DEF LockInv, TypeOK
      <4>2. QED
        BY <3>1, <4>1 DEF OwnerOf
    <3>2. CASE k # key[h]
      <4>1. \A g \in Handlers :
              (pc'[g] = "held" /\ key'[g] = k) <=> (pc[g] = "held" /\ key[g] = k)
        BY <2>1, <3>2 DEF LockInv, TypeOK
      <4>2. QED
        BY <3>2, <4>1 DEF OwnerOf
    <3>3. QED
      BY <3>1, <3>2
  <2>5. own' = [own EXCEPT ![key[h]] = None]
    BY <2>1, <2>4
  <2>6. QED
    BY <2>1, <2>2, <2>5 DEF Abstract!Release
<1>5. CASE UNCHANGED vars
  BY <1>5 DEF vars, Abstract!vars, OwnerOf
<1>6. QED
  BY <1>1, <1>2, <1>3, <1>4, <1>5 DEF Next, Abstract!Next, Abstract!vars

\* util.VolumeLocks implements one mutex per id: whatever holds of the
\* abstract KeyedMutex holds of the sync.Map of mutexes.
THEOREM Refinement == Spec => ImplementsKeyedMutex
<1>1. Init => Abstract!Init
  <2>1. ASSUME Init PROVE [k \in Keys |-> OwnerOf(k)] = [k \in Keys |-> None]
    BY <2>1 DEF Init, OwnerOf
  <2>2. QED
    BY <2>1 DEF Init, Abstract!Init
<1>2. LockInv /\ LockInv' /\ [Next]_vars => [Abstract!Next]_(Abstract!vars)
  BY StepRefines
<1>3. QED
  BY <1>1, <1>2, LockInvariance, PTL DEF Spec, ImplementsKeyedMutex, Abstract!Spec
=============================================================================
