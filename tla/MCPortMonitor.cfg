SPECIFICATION FairSpec
CONSTANTS
  c = c
  r = r
  Apps = {c, r}
  Mons = {m1, m2}
  Listeners = {l1}
  null = null
  Calls <- MCCalls
  SlowListeners = FALSE
  Interrupted <- MCNone
INVARIANTS
  TypeOK
  OneMonitor
  LoopRunsCurrentListener
PROPERTIES
  LockReleasedOrLeaked
CHECK_DEADLOCK FALSE
