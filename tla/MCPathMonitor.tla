---------------------------- MODULE MCPathMonitor ----------------------------
EXTENDS PathMonitor

CONSTANTS
  ha,      \* a volume with a primary and a secondary connection
  single   \* a volume with one connection

OwnSubsystem == [v \in Vols |-> v]

OneOrTwoPaths == [s \in Subsystems |-> IF s = ha THEN 2 ELSE 1]
=============================================================================
