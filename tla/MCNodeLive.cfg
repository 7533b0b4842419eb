SPECIFICATION FairSpec
CONSTANTS
  fs = fs
  raw = raw
  None = None
  Handlers = {h1, h2}
  Vols = {raw}
  Block = {raw}
  Subsystems = {raw}
  SubsysOf <- OwnSubsystem
  NPaths = 2
  PathsOf <- TwoPaths
  MayFail <- Commands
  MayLose = {"connect"}
  MayGiveUp = TRUE
  MayCrash = TRUE
  MaxFaults = 2
  MaxBinds = 3
INVARIANT NodeInv
PROPERTIES StageSettles UnpublishSettles
CHECK_DEADLOCK FALSE
