----------------------------- MODULE KeyedMutex -----------------------------
(***************************************************************************)
(* What the driver expects of util.VolumeLocks: one mutex per key.  A      *)
(* handler asks for a key, gets it when nobody owns it, and gives it back. *)
(***************************************************************************)

CONSTANTS
  Handlers,  \* gRPC handler goroutines
  Keys,      \* the strings that handlers lock
  None       \* no handler, no key

VARIABLES
  owner,     \* owner[k]: the handler that holds k, or None
  wanted     \* wanted[h]: the key h asked for or holds, or None

vars == <<owner, wanted>>

Init ==
  /\ owner = [k \in Keys |-> None]
  /\ wanted = [h \in Handlers |-> None]

Ask(h) ==
  /\ wanted[h] = None
  /\ \E k \in Keys : wanted' = [wanted EXCEPT ![h] = k]
  /\ UNCHANGED owner

Acquire(h) ==
  /\ wanted[h] # None
  /\ owner[wanted[h]] = None
  /\ owner' = [owner EXCEPT ![wanted[h]] = h]
  /\ UNCHANGED wanted

Release(h) ==
  /\ wanted[h] # None
  /\ owner[wanted[h]] = h
  /\ owner' = [owner EXCEPT ![wanted[h]] = None]
  /\ wanted' = [wanted EXCEPT ![h] = None]

Next == \E h \in Handlers : Ask(h) \/ Acquire(h) \/ Release(h)

Spec == Init /\ [][Next]_vars
=============================================================================
