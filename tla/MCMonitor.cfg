SPECIFICATION MonFairSpec
CONSTANTS
  ha = ha
  single = single
  None = None
  Handlers = {h1}
  Vols = {ha, single}
  Block = {single}
  Subsystems = {ha, single}
  SubsysOf <- OwnSubsystem
  NPaths = 3
  PathsOf <- OneOrTwoPaths
  MayFail = {"list", "fetch", "connect", "disconnect"}
  MayLose = {"connect"}
  MayGiveUp = TRUE
  MayCrash = TRUE
  MaxFaults = 1
  MaxBinds = 1
  ConfigFile = TRUE
  Rechecks = 2
  MaxVols = 1
  MaxOutages = 2
INVARIANTS MonInv HaInv HaStaysUsable
PROPERTIES RedundancyRestored MovedFollowed
CHECK_DEADLOCK FALSE
