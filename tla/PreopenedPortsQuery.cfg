SPECIFICATION Spec
CONSTANTS
  Threads = {t1, t2}
  Files = {A, B, C}
  Nodes = {n1, n2, n3}
  Fds = {3, 4, 5}
  null = null
  Calls = 5
CHECK_DEADLOCK FALSE
PROPERTY QueryOnlyChecks
