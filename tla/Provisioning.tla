---------------------------- MODULE Provisioning ----------------------------
(***************************************************************************)
(* What the CSI controller service promises its orchestrator, without      *)
(* requests, handlers or locks: a volume or snapshot that is asked for is  *)
(* made under a fresh id, handed out while it exists, kept until it is     *)
(* asked to be deleted, and reported as deleted when nothing of it is      *)
(* left.  Failed and repeated calls may make and remove more in between,   *)
(* but never a second logical volume of a name.                            *)
(***************************************************************************)
CONSTANTS
  Names,      \* volumes to provision
  SnapNames,  \* snapshots to provision
  Lvols,      \* ids of volumes
  Snaps,      \* ids of snapshots
  None

Objs   == Names \cup SnapNames
Things == Lvols \cup Snaps

VARIABLES
  phase,  \* phase[o]: how far the orchestrator is with o
  given,  \* given[o]: the id that it was given for o
  alive,  \* alive[o]: the ids made for o that exist
  used    \* all ids that were ever made

vars == <<phase, given, alive, used>>

Init ==
  /\ phase = [o \in Objs |-> "absent"]
  /\ given = [o \in Objs |-> None]
  /\ alive = [o \in Objs |-> {}]
  /\ used = {}

\* CreateVolume or CreateSnapshot is called for the first time.
Ask(o) ==
  /\ phase[o] = "absent"
  /\ phase' = [phase EXCEPT ![o] = "creating"]
  /\ UNCHANGED <<given, alive, used>>

\* A volume, or a snapshot (of its source, for a clone), is made for o.
Grow(o, t) ==
  /\ phase[o] = "creating" /\ t \notin used
  /\ t \in Lvols => o \in Names /\ alive[o] \cap Lvols = {}
  /\ alive' = [alive EXCEPT ![o] = alive[o] \cup {t}]
  /\ used' = used \cup {t}
  /\ UNCHANGED <<phase, given>>

\* Something made for o is removed, but never what o was given.
Shrink(o, t) ==
  /\ t \in alive[o]
  /\ phase[o] = "bound" => given[o] # t
  /\ alive' = [alive EXCEPT ![o] = alive[o] \ {t}]
  /\ UNCHANGED <<phase, given, used>>

\* The orchestrator is given what was made for o.
Give(o, t) ==
  /\ phase[o] = "creating" /\ t \in alive[o]
  /\ t \in Lvols <=> o \in Names
  /\ phase' = [phase EXCEPT ![o] = "bound"]
  /\ given' = [given EXCEPT ![o] = t]
  /\ UNCHANGED <<alive, used>>

AskDelete(o) ==
  /\ phase[o] = "bound"
  /\ phase' = [phase EXCEPT ![o] = "deleting"]
  /\ UNCHANGED <<given, alive, used>>

\* The orchestrator is told that o is deleted: the id it had is gone, and so
\* is every logical volume of that name.
Confirm(o) ==
  /\ phase[o] = "deleting"
  /\ given[o] \notin alive[o] /\ alive[o] \cap Lvols = {}
  /\ phase' = [phase EXCEPT ![o] = "deleted"]
  /\ UNCHANGED <<given, alive, used>>

Next ==
  \E o \in Objs :
    \/ Ask(o) \/ AskDelete(o) \/ Confirm(o)
    \/ \E t \in Things : Grow(o, t) \/ Shrink(o, t) \/ Give(o, t)

Spec == Init /\ [][Next]_vars
=============================================================================
