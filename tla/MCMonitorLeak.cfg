SPECIFICATION MonSpec
CONSTANTS
  ha = ha
  single = single
  None = None
  Handlers = {h1}
  Vols = {ha}
  Block = {}
  Subsystems = {ha}
  SubsysOf <- OwnSubsystem
  NPaths = 2
  PathsOf <- OneOrTwoPaths
  MayFail = {}
  MayLose = {}
  MayGiveUp = FALSE
  MayCrash = FALSE
  MaxFaults = 0
  MaxBinds = 1
  ConfigFile = TRUE
  Rechecks = 5
  MaxVols = 1
  MaxOutages = 0
CHECK_DEADLOCK FALSE
INVARIANT UnstagedMeansDisconnected
