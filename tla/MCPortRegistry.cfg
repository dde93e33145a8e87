SPECIFICATION Spec
CONSTANTS
  a = a
  b = b
  p = p
  q = q
  Threads = {a, b}
  Names = {p, q}
  Candidates <- MCCandidates
  Pluggable = {q}
  Wanted = {p}
  Identifiers = {o1, o2, o3, o4, o5, o6}
  null = null
  Calls <- MCCalls
SYMMETRY MCSymmetry
INVARIANTS
  TypeOK
  OneOpenPerDevice
  RescanRestores
