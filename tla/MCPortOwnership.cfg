SPECIFICATION FairSpec
CONSTANTS
  Threads = {t1, t2, t3}
  null = null
INVARIANTS
  SingleOwner
  OwnershipAgrees
  EventsBalanced
PROPERTY LeaseImplemented
