SPECIFICATION FairSpec
CONSTANTS
  Handlers = {h1, h2, h3}
  Keys = {k1, k2}
  Mutexes = {m1, m2, m3}
  None = None
INVARIANTS LockInv MutualExclusion
PROPERTIES ImplementsKeyedMutex LockServed
