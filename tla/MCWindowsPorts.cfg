SPECIFICATION Spec
CONSTANTS
  Threads = {t1, t2}
  Names = {A, B, C}
  null = null
  Params <- MCParams
  FlowModes <- MCFlowModes
SYMMETRY Swap
CONSTRAINTS
  OneAtATime
  OneTouched
INVARIANTS
  TypeOK
  PortsExact
  SettingsKept
\* the system stops when a failed open() has left every port open
CHECK_DEADLOCK FALSE
