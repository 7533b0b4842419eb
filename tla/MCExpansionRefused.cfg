SPECIFICATION Spec
CONSTANTS
  vol0 = vol0
  restored = restored
  None = None
  Handlers = {h1}
  Vols = {vol0}
  Source <- MCSource
  Mi = 4
  Sizes = {0, 5, 9}
  First <- MCFirst
  GiB = 4
  MayFail = {}
  MayLose = {}
  MayRefuse = TRUE
  MayLag = FALSE
  MayGiveUp = FALSE
  MaxFaults = 0
INVARIANT CapacityTrue
CHECK_DEADLOCK FALSE
