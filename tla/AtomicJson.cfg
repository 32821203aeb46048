SPECIFICATION FairSpec
CONSTANTS
  Procs = {p1, p2, p3}
  Updates = {u1, u2, u3}
  MaxCrashes = 2
  MaxPauses = 1
INVARIANTS
  OneWriter
  NothingLost
PROPERTIES
  ImplementsAtomicUpdate
  LockIsGivenBack
\* All updates may have been made.
CHECK_DEADLOCK FALSE
