SPECIFICATION FairSpec
CONSTANTS
  Ports = {A, B, C}
  null = null
  Polled = {A}
  Wrap = 3
CONSTRAINT OneAtATime
INVARIANTS
  TypeOK
  LoopFound
  EventsExact
PROPERTIES
  ListIsQueue
  DataReported
