SPECIFICATION Spec
CONSTANTS
  Threads = {t1, t2}
  Calls = 4
  null = null
  Params <- MCParams
  FlowModes <- MCFlowModes
  Chars = {4}
  Bases = {0, 57600}
  Divisors = {2}
  SpdCust = TRUE
CHECK_DEADLOCK FALSE
INVARIANTS
  TypeOK
  SettingsReported
  RateReported
  LinesKept
