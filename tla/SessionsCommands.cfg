SPECIFICATION FairSpec
CONSTANTS
  Sessions = {s1}
  Items = {i1}
  Servers = {v1}
  Terminals = {t1, t2}
  None = None
  Settled = TRUE
  Exclusive = TRUE
  MaxCommands = 4
  MaxMutations = 0
  MaxCrashes = 0
INVARIANTS
  SettledItemsUnowned
PROPERTIES
  CommandsEnd
\* Bounds may be used up with nothing left to do.
CHECK_DEADLOCK FALSE
