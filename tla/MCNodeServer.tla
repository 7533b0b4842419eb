---------------------------- MODULE MCNodeServer ----------------------------
EXTENDS NodeServer, TLC

CONSTANTS
  fs,    \* a volume with a file system
  raw    \* a raw block volume

\* Every volume has a subsystem of its own (max_namespace_per_subsys = 1).
OwnSubsystem == [v \in Vols |-> v]

\* Every volume has a primary and a secondary connection.
TwoPaths == [s \in Subsystems |-> 2]

\* Every command but the two that run between the mount and the answer.
AllButTail == Commands \ {"tune", "stash"}

\* The commands whose failure NodeStageVolume cleans up after.
CleanedUp == {"check", "list", "fetch", "connect", "mount", "tune", "stash"}
=============================================================================
