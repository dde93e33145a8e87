SPECIFICATION Spec
CONSTANTS
  a = a
  b = b
  p = p
  q = q
  Threads = {a, b}
  Names = {p, q}
  Candidates <- MCCandidates
  Pluggable = {q}
  Wanted = {p}
  Identifiers = {o1, o2, o3}
  null = null
  Calls <- MCCalls
SYMMETRY MCSymmetry
INVARIANT
  ClosedPortsFree
