SPECIFICATION Spec
CONSTANTS
  c = c
  r = r
  Apps = {c, r}
  Mons = {m1}
  Listeners = {l1}
  null = null
  Calls <- MCCalls
  SlowListeners = FALSE
  Interrupted <- MCNone
INVARIANT DescriptorGuarded
CHECK_DEADLOCK FALSE
