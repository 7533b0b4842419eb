SPECIFICATION Spec
CONSTANTS
  fs = fs
  raw = raw
  None = None
  Handlers = {h1, h2}
  Vols = {fs, raw}
  Block = {raw}
  Subsystems = {fs, raw}
  SubsysOf <- OwnSubsystem
  NPaths = 2
  PathsOf <- TwoPaths
  MayFail <- CleanedUp
  MayLose = {}
  MayGiveUp = FALSE
  MayCrash = FALSE
  MaxFaults = 2
  MaxBinds = 2
INVARIANTS FailedInv FailedStageLeavesNothing
CHECK_DEADLOCK FALSE
