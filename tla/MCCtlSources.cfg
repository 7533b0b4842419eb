SPECIFICATION Spec
CONSTANTS
  vol = vol
  snap = snap
  cloned = cloned
  restored = restored
  None = None
  Handlers = {h1, h2}
  Names = {vol, cloned, restored}
  SnapNames = {snap}
  Lvols = {l1, l2, l3, l4}
  Snaps = {s1, s2, s3}
  Source <- MCSource
  MayFail <- AllButLookup
  MayLose <- Writes
  MayDelay = {}
  MayGiveUp = FALSE
  MayCrash = TRUE
  MaxFaults = 2
SYMMETRY Symmetry
INVARIANTS KeptInv HandedOutKept NoOrphan
PROPERTY ImplementsProvisioning
CHECK_DEADLOCK FALSE
