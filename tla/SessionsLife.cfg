SPECIFICATION Spec
CONSTANTS
  Sessions = {s1, s2}
  Items = {i1, i2}
  Servers = {v1, v2}
  Terminals = {t1}
  None = None
  Settled = FALSE
  Exclusive = TRUE
  MaxCommands = 2
  MaxMutations = 1
  MaxCrashes = 1
SYMMETRY Symmetry
INVARIANTS
  TypeOK
  ReapedAreDead
  GoneStaysGone
  OwnerIsBound
\* Bounds may be used up with nothing left to do.
CHECK_DEADLOCK FALSE
