SPECIFICATION Spec
CONSTANTS
  fs = fs
  raw = raw
  None = None
  Handlers = {h1, h2}
  Vols = {fs}
  Block = {}
  Subsystems = {fs}
  SubsysOf <- OwnSubsystem
  NPaths = 2
  PathsOf <- TwoPaths
  MayFail = {"tune"}
  MayLose = {}
  MayGiveUp = FALSE
  MayCrash = FALSE
  MaxFaults = 1
  MaxBinds = 1
INVARIANT StagedMeansUsable
CHECK_DEADLOCK FALSE
