---------------------------- MODULE MCController ----------------------------
EXTENDS Controller, TLC

CONSTANTS
  vol,       \* a volume made from nothing
  snap,      \* a snapshot of vol
  cloned,    \* a volume cloned from vol
  restored   \* a volume restored from snap

MCSource ==
  [o \in Objs |-> CASE o = vol      -> None
                    [] o = snap     -> vol
                    [] o = cloned   -> vol
                    [] o = restored -> snap]

\* Every request but the lookup by name.
AllButLookup == (Reads \cup Writes) \ {"GET name"}

\* The requests that may be carried out late without making an lvol.
AllButLvols == Writes \ {"POST lvol", "POST clone"}

\* Uuids and handlers are interchangeable (safety runs only).
Symmetry ==
  Permutations(Handlers) \cup Permutations(Lvols) \cup Permutations(Snaps)
=============================================================================
