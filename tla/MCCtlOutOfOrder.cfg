SPECIFICATION Spec
CONSTANTS
  vol = vol
  snap = snap
  cloned = cloned
  restored = restored
  None = None
  Handlers = {h1, h2}
  Names = {vol}
  SnapNames = {}
  Lvols = {l1, l2}
  Snaps = {}
  Source <- MCSource
  MayFail = {"GET lvol"}
  MayLose = {}
  MayDelay = {}
  MayGiveUp = TRUE
  MayCrash = FALSE
  MaxFaults = 2
INVARIANT HandedOutKept
CHECK_DEADLOCK FALSE
