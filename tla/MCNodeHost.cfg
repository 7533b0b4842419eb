SPECIFICATION Spec
CONSTANTS
  fs = fs
  raw = raw
  None = None
  Handlers = {h1, h2}
  Vols = {fs, raw}
  Block = {raw}
  Subsystems = {fs, raw}
  SubsysOf <- OwnSubsystem
  NPaths = 2
  PathsOf <- TwoPaths
  MayFail <- AllButTail
  MayLose = {"connect"}
  MayGiveUp = FALSE
  MayCrash = FALSE
  MaxFaults = 3
  MaxBinds = 2
INVARIANTS HostInv StagedMeansUsable UnstagedMeansDisconnected UnboundInv UnpublishedMeansUnbound
CHECK_DEADLOCK FALSE
