SPECIFICATION FairSpec
CONSTANTS
  vol0 = vol0
  restored = restored
  None = None
  Handlers = {h1, h2}
  Vols = {vol0, restored}
  Source <- MCSource
  Mi = 4
  Sizes = {0, 5, 9}
  First <- MCFirst
  GiB = 4
  MayFail = {"POST", "PUT", "GET", "resize"}
  MayLose = {"POST", "PUT"}
  MayRefuse = FALSE
  MayLag = FALSE
  MayGiveUp = TRUE
  MaxFaults = 1
INVARIANTS SizeInv CapacityTrue StatusTrue SnapshotFits
PROPERTY ExpandSettles
CHECK_DEADLOCK FALSE
