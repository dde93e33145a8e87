SPECIFICATION FairSpec
CONSTANTS
  c = c
  r = r
  Apps = {c, r}
  Mons = {m1, m2}
  Listeners = {l1}
  null = null
  Calls <- MCCalls
  SlowListeners = TRUE
  Interrupted <- MCInterrupted
INVARIANTS
  IOLockedExact
  ClosedOnce
PROPERTY CloseReturns
CHECK_DEADLOCK FALSE
