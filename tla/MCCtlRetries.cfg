SPECIFICATION FairSpec
CONSTANTS
  vol = vol
  snap = snap
  cloned = cloned
  restored = restored
  None = None
  Handlers = {h1, h2}
  Names = {vol}
  SnapNames = {snap}
  Lvols = {l1, l2, l3}
  Snaps = {s1}
  Source <- MCSource
  MayFail <- AllButLookup
  MayLose <- Writes
  MayDelay <- AllButLvols
  MayGiveUp = TRUE
  MayCrash = TRUE
  MaxFaults = 2
INVARIANTS NameInv OneLvolPerName DeletedInv DeletedGone
PROPERTIES CallsReturn CreateSettles
CHECK_DEADLOCK FALSE
