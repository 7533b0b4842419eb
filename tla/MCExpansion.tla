---------------------------- MODULE MCExpansion -----------------------------
EXTENDS Expansion

CONSTANTS
  vol0,      \* a volume made from nothing
  restored   \* a volume restored from a snapshot of vol0

MCSource == [v \in Vols |-> IF v = restored THEN vol0 ELSE None]

MCFirst == [v \in Vols |-> IF v = restored THEN {9} ELSE {0, 5}]
=============================================================================
