SPECIFICATION LockFairSpec
CONSTANTS
  Procs = {p1, p2, p3}
  none = none
  Mortal = {p1}
INVARIANTS
  ExclusiveWhileAllLive
  LockFileInUse
PROPERTIES
  LeaseWhileAllLive
  StaleRemoved
